------------------------------ MODULE Transfer ------------------------------
(***************************************************************************)
(* The peer sessions of one torrent (src/net/session.rs) and the           *)
(* coordinator they share.  Sessions send to the coordinator through one   *)
(* bounded FIFO mailbox; the coordinator answers a request through a       *)
(* one-shot reply the session waits for, and broadcasts events of which a  *)
(* slow session loses the oldest.                                          *)
(*                                                                         *)
(* A session that waits for a reply does nothing else, so the step that    *)
(* handles its request also delivers the reply.  SetSelection and          *)
(* Pause/Resume come from one further sender, background_task; the moment  *)
(* it sends is arbitrary, so the message is handled when it is sent.  The  *)
(* blocks of a piece, uploading and peer exchange are left out, and the    *)
(* remote peers are external: they send any                                *)
(* message at any time.  `Behaviours` lists what else may happen:          *)
(*   "check"   the torrent starts with a file check;                       *)
(*   "pause"   the user pauses and resumes it;                             *)
(*   "abort"   a session is stuck in a send without timeout and the swarm  *)
(*             aborts it after PEER_IDLE_TIMEOUT_SECS;                     *)
(*   "rehave"  a peer repeats a HAVE;                                      *)
(*   "write"   write_piece fails.                                          *)
(***************************************************************************)
EXTENDS Coordinator, FileSelection

CONSTANTS
    Session,
    Steady,         \* sessions whose peer has every piece, unchokes us and sends
                    \* what it is asked for well within the time-outs, and is
                    \* found again whenever we have dropped it
    Bitfields,      \* what a peer may advertise in a BITFIELD
    Haves,          \* pieces a peer may advertise in a HAVE
    MaxMailbox,     \* capacity of the coordinator's channel (2048)
    MaxEvents,      \* capacity of the broadcast channel (64)
    MaxEdits,       \* bound on selection changes
    Behaviours

ASSUME LayoutAssumption == DOMAIN FilesOf = Piece
ASSUME SelectionsOfFiles == \A files \in FileSet : SelectionOf(files) \in Selections
ASSUME SessionsAssumption == IsFiniteSet(Session)
ASSUME SteadyAssumption == Steady \subseteq Session
ASSUME BitfieldsAssumption == Bitfields \subseteq SUBSET Piece /\ Haves \subseteq Piece
ASSUME CapacityAssumption == MaxMailbox \in Nat \ {0} /\ MaxEvents \in Nat \ {0}
ASSUME MaxEditsAssumption == MaxEdits \in Nat

VARIABLES
    conn,           \* down, opening (GetCompletedPieces sent), greeting (sending
                    \* BITFIELD and INTERESTED), up, asking (RequestWork sent)
                    \* or closing
    have,           \* pieces the peer advertises
    job,            \* the piece the session fetches, or NoPiece
    peer_choking,
    am_interested,
    told,           \* pieces the peer knows we have (BITFIELD and HAVE sent)
    mailbox,
    events,         \* session -> broadcast events it has not received yet
    selected_files, \* current_flags of background_task
    edits

sessionVars == <<conn, have, job, peer_choking, am_interested, told>>
vars == <<coordinatorVars, sessionVars, mailbox, events, selected_files, edits>>

Msg(type, s, piece, pieces) ==
    [type |-> type, from |-> s, piece |-> piece, pieces |-> pieces]

MsgType == [type : {"GetCompletedPieces", "RequestWork", "PeerBitfield", "PeerHave",
                    "PeerGone", "PieceDownloaded", "PieceFailed"},
            from : Session, piece : 0 .. NumPieces, pieces : SUBSET Piece]

EventType == {PieceCompletedEvent(p) : p \in Piece}
             \cup {DownloadCompleteEvent, SelectionChangedEvent}

TransferTypeOK ==
    /\ TypeOK /\ ControlTypeOK
    /\ conn \in [Session -> {"down", "opening", "greeting", "up", "asking", "closing"}]
    /\ have \in [Session -> SUBSET Piece]
    /\ job \in [Session -> 0 .. NumPieces]
    /\ peer_choking \in [Session -> BOOLEAN]
    /\ am_interested \in [Session -> BOOLEAN]
    /\ told \in [Session -> SUBSET Piece]
    /\ mailbox \in Seq(MsgType) /\ Len(mailbox) <= MaxMailbox
    /\ events \in [Session -> Seq(EventType)]
    /\ selected_files \in FileSet
    /\ edits \in 0 .. MaxEdits

-----------------------------------------------------------------------------
\* Sends wait while the mailbox is full.
Send(msgs) ==
    /\ Len(mailbox) + Len(msgs) <= MaxMailbox
    /\ mailbox' = mailbox \o msgs

Newest(queue) ==
    SubSeq(queue, IF Len(queue) > MaxEvents THEN Len(queue) - MaxEvents + 1 ELSE 1,
           Len(queue))

\* Mutant of Broadcast: a session subscribes when its loop begins.
BroadcastToLoops(new) ==
    events' = [s \in Session |->
                  IF conn[s] \in {"down", "opening", "greeting"} THEN events[s]
                  ELSE Newest(events[s] \o new)]

\* Every session that subscribed gets the events; a full queue loses the
\* oldest and the session skips them (RecvError::Lagged).
Broadcast(new) ==
    events' = [s \in Session |-> IF conn[s] = "down" THEN <<>>
                                 ELSE Newest(events[s] \o new)]

\* A session is dialled or accepted; it has subscribed to the events before.
Connect(s) ==
    /\ conn[s] = "down"
    /\ conn' = [conn EXCEPT ![s] = "opening"]
    /\ Send(<<Msg("GetCompletedPieces", s, NoPiece, {})>>)
    /\ UNCHANGED <<coordinatorVars, have, job, peer_choking, am_interested, told,
                   events, selected_files, edits>>

\* The rest of send_opening_messages, once the coordinator has replied.
Greet(s) ==
    /\ conn[s] = "greeting"
    /\ conn' = [conn EXCEPT ![s] = "up"]
    /\ am_interested' = [am_interested EXCEPT ![s] = TRUE]
    /\ UNCHANGED <<coordinatorVars, have, job, peer_choking, told, mailbox,
                   events, selected_files, edits>>

\* maybe_request_work: WORK_POLL_INTERVAL has passed at any time.
MaybeRequestWork(s) ==
    /\ conn[s] = "up"
    /\ job[s] = NoPiece /\ ~peer_choking[s] /\ have[s] # {}
    /\ conn' = [conn EXCEPT ![s] = "asking"]
    /\ Send(<<Msg("RequestWork", s, NoPiece, have[s])>>)
    /\ UNCHANGED <<coordinatorVars, have, job, peer_choking, am_interested, told,
                   events, selected_files, edits>>

HandleChoke(s, choking) ==
    /\ conn[s] = "up" /\ peer_choking[s] # choking
    /\ s \in Steady => ~choking
    /\ peer_choking' = [peer_choking EXCEPT ![s] = choking]
    /\ UNCHANGED <<coordinatorVars, conn, have, job, am_interested, told,
                   mailbox, events, selected_files, edits>>

\* Bitfield::set reports whether the index is in range, not whether the bit
\* is new.
HandleHave(s, p) ==
    /\ conn[s] = "up"
    /\ s \notin Steady
    /\ p \in have[s] => "rehave" \in Behaviours
    /\ have' = [have EXCEPT ![s] = @ \cup {p}]
    /\ Send(<<Msg("PeerHave", s, p, {})>>)
    /\ UNCHANGED <<coordinatorVars, conn, job, peer_choking, am_interested, told,
                   events, selected_files, edits>>

\* Mutant of Withdraw: the pieces counted before are not taken back.
WithdrawNothing(s) == <<>>

Withdraw(s) == IF have[s] = {} THEN <<>> ELSE <<Msg("PeerGone", s, NoPiece, have[s])>>

\* A BITFIELD replaces what the peer advertised before.
HandleBitfield(s, pieces) ==
    /\ conn[s] = "up" /\ pieces # have[s]
    /\ s \in Steady => pieces = Piece
    /\ have' = [have EXCEPT ![s] = pieces]
    /\ Send(Withdraw(s) \o <<Msg("PeerBitfield", s, NoPiece, pieces)>>)
    /\ UNCHANGED <<coordinatorVars, conn, job, peer_choking, am_interested, told,
                   events, selected_files, edits>>

\* handle_piece with the last block of the job's piece: the hash matches, or
\* the session ends after giving the piece back.  Blocks are accepted while
\* choked, too.
PieceCompletes(s) ==
    /\ conn[s] = "up" /\ job[s] # NoPiece
    /\ job' = [job EXCEPT ![s] = NoPiece]
    /\ Send(<<Msg("PieceDownloaded", s, job[s], {})>>)
    /\ UNCHANGED <<coordinatorVars, conn, have, peer_choking, am_interested, told,
                   events, selected_files, edits>>

HashMismatch(s) ==
    /\ conn[s] = "up" /\ job[s] # NoPiece /\ s \notin Steady
    /\ job' = [job EXCEPT ![s] = NoPiece]
    /\ conn' = [conn EXCEPT ![s] = "closing"]
    /\ Send(<<Msg("PieceFailed", s, job[s], {})>>)
    /\ UNCHANGED <<coordinatorVars, have, peer_choking, am_interested, told,
                   events, selected_files, edits>>

\* housekeeping after CHOKED_JOB_TIMEOUT.
GiveBackChokedJob(s) ==
    /\ conn[s] = "up" /\ job[s] # NoPiece /\ peer_choking[s]
    /\ job' = [job EXCEPT ![s] = NoPiece]
    /\ Send(<<Msg("PieceFailed", s, job[s], {})>>)
    /\ UNCHANGED <<coordinatorVars, conn, have, peer_choking, am_interested, told,
                   events, selected_files, edits>>

\* handle_event; the HAVE it sends is all a peer learns of a new piece.
HandleEvent(s) ==
    /\ conn[s] = "up" /\ events[s] # <<>>
    /\ events' = [events EXCEPT ![s] = Tail(@)]
    /\ LET e == Head(events[s])
       IN  /\ told' = [told EXCEPT ![s] =
                           IF e.type = "PieceCompleted" THEN @ \cup {e.piece} ELSE @]
           /\ job' = [job EXCEPT ![s] =
                  IF e.type = "PieceCompleted" /\ e.piece = @ THEN NoPiece ELSE @]
           /\ am_interested' = [am_interested EXCEPT ![s] =
                  (e.type = "SelectionChanged") \/ (@ /\ e.type # "DownloadComplete")]
    /\ UNCHANGED <<coordinatorVars, conn, have, peer_choking, mailbox,
                   selected_files, edits>>

\* The connection fails, stalls, goes silent or idle.  Of these only the last
\* happens to a steady peer: housekeeping drops whoever has been of no use for
\* USELESS_TIMEOUT, during a pause, a long check or when others have the work.
\* (Before every tick the loop asks for work, and waits there for the mailbox.)
SessionEnds(s) ==
    /\ conn[s] \in {"greeting", "up"}
    /\ s \in Steady => /\ conn[s] = "up" /\ job[s] = NoPiece
                       /\ ~peer_choking[s] /\ have[s] = Piece
                       /\ Len(mailbox) < MaxMailbox
    /\ conn' = [conn EXCEPT ![s] = "closing"]
    /\ UNCHANGED <<coordinatorVars, have, job, peer_choking, am_interested, told,
                   mailbox, events, selected_files, edits>>

\* Mutant of GiveBack: the reserved piece is not given back.
KeepQuiet(s) == <<>>

GiveBack(s) == <<Msg("PieceFailed", s, job[s], {})>>

\* finish: first the job, then the pieces the peer advertised.
FinishJob(s) ==
    /\ conn[s] = "closing" /\ job[s] # NoPiece
    /\ job' = [job EXCEPT ![s] = NoPiece]
    /\ Send(GiveBack(s))
    /\ UNCHANGED <<coordinatorVars, conn, have, peer_choking, am_interested, told,
                   events, selected_files, edits>>

\* The session's state is dropped with its task.
Gone(s) ==
    /\ conn' = [conn EXCEPT ![s] = "down"]
    /\ have' = [have EXCEPT ![s] = {}]
    /\ job' = [job EXCEPT ![s] = NoPiece]
    /\ peer_choking' = [peer_choking EXCEPT ![s] = TRUE]
    /\ am_interested' = [am_interested EXCEPT ![s] = FALSE]
    /\ told' = [told EXCEPT ![s] = {}]
    /\ events' = [events EXCEPT ![s] = <<>>]
    /\ UNCHANGED <<coordinatorVars, selected_files, edits>>

FinishPeer(s) ==
    /\ conn[s] = "closing" /\ job[s] = NoPiece
    /\ Send(Withdraw(s))
    /\ Gone(s)

\* The task is aborted: finish never runs.
Abort(s) ==
    /\ conn[s] = "up" /\ "abort" \in Behaviours /\ s \notin Steady
    /\ Gone(s)
    /\ UNCHANGED mailbox

-----------------------------------------------------------------------------
\* The coordinator takes the next message.
Receive(type) ==
    /\ mailbox # <<>> /\ Head(mailbox).type = type
    /\ mailbox' = Tail(mailbox)
    /\ UNCHANGED <<have, peer_choking, selected_files, edits>>

\* The reply is what the BITFIELD will say.
OnGetCompletedPieces ==
    /\ Receive("GetCompletedPieces")
    /\ LET s == Head(mailbox).from
       IN  /\ conn' = [conn EXCEPT ![s] = "greeting"]
           /\ told' = [told EXCEPT ![s] = IF Downloading THEN ServablePieces ELSE {}]
    /\ UNCHANGED <<coordinatorVars, job, am_interested, events>>

OnRequestWork ==
    /\ Receive("RequestWork")
    /\ \E reply \in 0 .. NumPieces :
           /\ RequestWork(Head(mailbox).pieces, reply)
           /\ job' = [job EXCEPT ![Head(mailbox).from] = reply]
    /\ conn' = [conn EXCEPT ![Head(mailbox).from] = "up"]
    /\ UNCHANGED <<am_interested, told, events>>

OnAvailability ==
    /\ \/ Receive("PeerBitfield") /\ PeerBitfield(Head(mailbox).pieces)
       \/ Receive("PeerHave") /\ PeerHave(Head(mailbox).piece)
       \/ Receive("PeerGone") /\ PeerGone(Head(mailbox).pieces)
    /\ UNCHANGED <<conn, job, am_interested, told, events>>

OnPieceDownloaded ==
    /\ Receive("PieceDownloaded")
    /\ UNCHANGED <<conn, job, am_interested, told>>
    /\ \E written \in {TRUE} \cup IF "write" \in Behaviours THEN {FALSE} ELSE {} :
           PieceDownloaded(Head(mailbox).piece, written)
    /\ Broadcast(PieceDownloadedEvents(Head(mailbox).piece))

OnPieceFailed ==
    /\ Receive("PieceFailed")
    /\ PieceFailed(Head(mailbox).piece)
    /\ UNCHANGED <<conn, job, am_interested, told, events>>

OnCheckTick ==
    /\ UNCHANGED <<sessionVars, mailbox, selected_files, edits>>
    /\ \E verified \in BOOLEAN :
           CheckTick(verified) /\ Broadcast(CheckTickEvents(verified))

OnSetSelection(files) ==
    /\ files # selected_files /\ edits < MaxEdits
    /\ UNCHANGED <<sessionVars, mailbox>>
    /\ SetSelection(SelectionOf(files), ToRefetch(selected_files, files), TRUE)
    /\ Broadcast(SetSelectionEvents(TRUE))
    /\ selected_files' = files
    /\ edits' = edits + 1

OnSetPaused(value) ==
    /\ "pause" \in Behaviours /\ Downloading /\ paused # value
    /\ SetPaused(value)
    /\ UNCHANGED <<sessionVars, mailbox, events, selected_files, edits>>

-----------------------------------------------------------------------------
Init ==
    /\ selected_files \in FileSet
    /\ StartsFrom({}, SelectionOf(selected_files))
    /\ phase \in {"downloading"} \cup
                IF "check" \in Behaviours /\ NumPieces > 0 THEN {"checking"} ELSE {}
    /\ next_piece = 0 /\ paused = FALSE /\ has_completed = FALSE
    /\ conn = [s \in Session |-> "down"]
    /\ have = [s \in Session |-> {}]
    /\ job = [s \in Session |-> NoPiece]
    /\ peer_choking = [s \in Session |-> TRUE]
    /\ am_interested = [s \in Session |-> FALSE]
    /\ told = [s \in Session |-> {}]
    /\ mailbox = <<>>
    /\ events = [s \in Session |-> <<>>]
    /\ edits = 0

SessionStep(s) ==
    \/ Connect(s) \/ Greet(s) \/ MaybeRequestWork(s) \/ HandleEvent(s)
    \/ \E choking \in BOOLEAN : HandleChoke(s, choking)
    \/ \E p \in Haves : HandleHave(s, p)
    \/ \E pieces \in Bitfields : HandleBitfield(s, pieces)
    \/ PieceCompletes(s) \/ HashMismatch(s) \/ GiveBackChokedJob(s)
    \/ SessionEnds(s) \/ FinishJob(s) \/ FinishPeer(s) \/ Abort(s)

MailboxStep ==
    \/ OnGetCompletedPieces \/ OnRequestWork \/ OnAvailability
    \/ OnPieceDownloaded \/ OnPieceFailed

Next ==
    \/ \E s \in Session : SessionStep(s)
    \/ MailboxStep \/ OnCheckTick
    \/ \E files \in FileSet : OnSetSelection(files)
    \/ \E value \in BOOLEAN : OnSetPaused(value)

Spec == Init /\ [][Next]_vars

\* CHOKED_JOB_TIMEOUT and BLOCK_STALL_TIMEOUT see to it that no session keeps
\* a job for ever: a piece has finitely many blocks.
JobEnds(s) ==
    \/ PieceCompletes(s) \/ HashMismatch(s) \/ GiveBackChokedJob(s)
    \/ SessionEnds(s) /\ job[s] # NoPiece

\* The coordinator keeps reading; tokio's select! picks a ready branch at
\* random and its channels serve waiting senders in order, so no step of a
\* steady session that keeps becoming possible is passed over for ever.
SteadyProgress(s) ==
    /\ SF_vars(Connect(s)) /\ WF_vars(Greet(s))
    /\ SF_vars(HandleChoke(s, FALSE)) /\ SF_vars(HandleBitfield(s, Piece))
    /\ SF_vars(MaybeRequestWork(s)) /\ SF_vars(PieceCompletes(s))
    /\ SF_vars(FinishPeer(s))

FairSpec ==
    /\ Spec
    /\ WF_vars(MailboxStep) /\ WF_vars(OnCheckTick)
    /\ \A s \in Session : WF_vars(JobEnds(s)) /\ SF_vars(FinishJob(s))
    /\ \A s \in Steady : SteadyProgress(s)

-----------------------------------------------------------------------------
Fetching(p) == {s \in Session : job[s] = p}
Pending(p) == {i \in DOMAIN mailbox :
                   /\ mailbox[i].type \in {"PieceDownloaded", "PieceFailed"}
                   /\ mailbox[i].piece = p}

\* in_progress counts the peers that fetch a piece: every reservation the
\* coordinator made is still in the hands of a session or on its way back
\* (maybe_request_work, handle_piece, housekeeping, finish).
ReservationsExact ==
    \A p \in Piece \ completed :
        in_progress[p] = Cardinality(Fetching(p)) + Cardinality(Pending(p))

\* What a session has told the coordinator but the coordinator has not read.
Advertised(p, type) ==
    Cardinality({i \in DOMAIN mailbox :
                     /\ mailbox[i].type = type
                     /\ p \in mailbox[i].pieces \cup {mailbox[i].piece}})

\* availability counts the connected peers that advertise a piece, up to the
\* messages in flight (PeerBitfield, PeerHave, PeerGone).
AvailabilityExact ==
    \A p \in Piece :
        availability[p] + Advertised(p, "PeerBitfield") + Advertised(p, "PeerHave")
            = Cardinality({s \in Session : p \in have[s]}) + Advertised(p, "PeerGone")

Caught(s) == conn[s] \in {"up", "asking"} /\ events[s] = <<>>

\* A session that has caught up with the events wants data while wanted
\* pieces are missing: NOT_INTERESTED is taken back by a selection change.
InterestKept ==
    Downloading => \A s \in Session : Caught(s) /\ ~am_interested[s] => IsDone

\* A peer that has been sent every event knows every piece we can serve,
\* whenever it connected: the reply to GetCompletedPieces and the broadcast
\* leave no gap.
ServableAdvertised ==
    Downloading => \A s \in Session : Caught(s) => ServablePieces \subseteq told[s]

\* A session gives a piece back that it was to fetch.
Fails(s) == HashMismatch(s) \/ GiveBackChokedJob(s) \/ FinishJob(s)

\* With one steady peer that has everything, a torrent that is not left paused
\* finishes, if the other sessions disappoint it finitely often: however many
\* of them fill the endgame limit, lose events or leave, whatever they have
\* reserved is given back, and a steady peer dropped as idle meanwhile is used
\* again.  (Peers that keep failing can keep a piece to themselves: the code
\* bans nobody, and hands the piece to who asks first.)
DownloadFinishes ==
    /\ <>[]~paused
    /\ \A s \in Session \ Steady : <>[][~Fails(s)]_vars
    => <>[]IsDone

=============================================================================
