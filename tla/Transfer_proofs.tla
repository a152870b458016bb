--------------------------- MODULE Transfer_proofs ---------------------------
(***************************************************************************)
(* The peer sessions and the coordinator they share, proved for any number *)
(* of sessions and pieces and any capacity of the mailbox and the          *)
(* broadcast: the coordinator uses the piece manager as it expects, and    *)
(* what it counts (who fetches a piece, who has it) agrees with what the   *)
(* sessions hold and what is still in the mailbox, and what the sessions   *)
(* tell their peers agrees with what the coordinator has.                  *)
(***************************************************************************)
EXTENDS Transfer, PieceManager_proofs, FunctionTheorems, SequenceTheorems

-----------------------------------------------------------------------------
(* Types, and the piece manager.                                           *)

\* Messages are about one piece of the torrent or about a set of pieces.
PieceMsg == {"PeerHave", "PieceDownloaded", "PieceFailed"}
GoodMsg == {m \in MsgType : IF m.type \in PieceMsg THEN m.piece \in Piece /\ m.pieces = {}
                                                  ELSE m.piece = NoPiece}

\* What is sent to the manager is in its range, and the file check has not run past
\* the last piece.
TransferInv ==
    /\ TransferTypeOK
    /\ ManagerInv
    /\ mailbox \in Seq(GoodMsg)
    /\ phase = "checking" => next_piece < NumPieces
    /\ phase # "stopped"

\* What sessions send is well formed.
LEMMA MessagesAreGood ==
    ASSUME NEW s \in Session
    PROVE  /\ \A p \in Piece, type \in PieceMsg : Msg(type, s, p, {}) \in GoodMsg
           /\ \A pieces \in SUBSET Piece,
                 type \in {"GetCompletedPieces", "RequestWork", "PeerBitfield", "PeerGone"} :
                 Msg(type, s, NoPiece, pieces) \in GoodMsg
<1>0. NumPieces \in Nat
  BY NumPiecesAssumption
<1>1. ASSUME NEW p \in Piece, NEW type \in PieceMsg
      PROVE  Msg(type, s, p, {}) \in GoodMsg
  BY <1>0 DEF Msg, GoodMsg, MsgType, PieceMsg, Piece
<1>2. ASSUME NEW pieces \in SUBSET Piece,
             NEW type \in {"GetCompletedPieces", "RequestWork", "PeerBitfield", "PeerGone"}
      PROVE  Msg(type, s, NoPiece, pieces) \in GoodMsg
  <2>1. NoPiece \in 0 .. NumPieces
    BY <1>0 DEF NoPiece
  <2> QED
    BY <2>1 DEF Msg, GoodMsg, MsgType, PieceMsg
<1> QED
  BY <1>1, <1>2

\* A session fetches a piece or none.
LEMMA JobIsPiece ==
    ASSUME TransferInv, NEW s \in Session, job[s] # NoPiece
    PROVE  job[s] \in Piece
BY NumPiecesAssumption DEF TransferInv, TransferTypeOK, NoPiece, Piece

\* The messages a session sends.
LEMMA SentIsGood ==
    ASSUME TransferInv, NEW s \in Session
    PROVE  /\ Withdraw(s) \in Seq(GoodMsg)
           /\ <<Msg("GetCompletedPieces", s, NoPiece, {})>> \in Seq(GoodMsg)
           /\ <<Msg("RequestWork", s, NoPiece, have[s])>> \in Seq(GoodMsg)
           /\ \A p \in Piece : <<Msg("PeerHave", s, p, {})>> \in Seq(GoodMsg)
           /\ \A pieces \in SUBSET Piece :
                Withdraw(s) \o <<Msg("PeerBitfield", s, NoPiece, pieces)>> \in Seq(GoodMsg)
           /\ job[s] # NoPiece =>
                /\ <<Msg("PieceDownloaded", s, job[s], {})>> \in Seq(GoodMsg)
                /\ <<Msg("PieceFailed", s, job[s], {})>> \in Seq(GoodMsg)
<1>1. have[s] \in SUBSET Piece
  BY DEF TransferInv, TransferTypeOK
<1>2. /\ Msg("GetCompletedPieces", s, NoPiece, {}) \in GoodMsg
      /\ Msg("RequestWork", s, NoPiece, have[s]) \in GoodMsg
      /\ Msg("PeerGone", s, NoPiece, have[s]) \in GoodMsg
      /\ \A p \in Piece : Msg("PeerHave", s, p, {}) \in GoodMsg
      /\ \A pieces \in SUBSET Piece : Msg("PeerBitfield", s, NoPiece, pieces) \in GoodMsg
  BY <1>1, MessagesAreGood DEF PieceMsg
<1>3. job[s] # NoPiece => /\ Msg("PieceDownloaded", s, job[s], {}) \in GoodMsg
                          /\ Msg("PieceFailed", s, job[s], {}) \in GoodMsg
  BY JobIsPiece, MessagesAreGood DEF PieceMsg
<1> HIDE DEF GoodMsg, Msg
<1>4. Withdraw(s) \in Seq(GoodMsg)
  BY <1>2 DEF Withdraw
<1>5. ASSUME NEW pieces \in SUBSET Piece
      PROVE  Withdraw(s) \o <<Msg("PeerBitfield", s, NoPiece, pieces)>> \in Seq(GoodMsg)
  <2>1. <<Msg("PeerBitfield", s, NoPiece, pieces)>> \in Seq(GoodMsg)
    BY <1>2
  <2> HIDE DEF Withdraw
  <2> QED
    BY <1>4, <2>1
<1> QED
  BY <1>2, <1>3, <1>4, <1>5

\* A session step only sends.
LEMMA SessionSends ==
    ASSUME TransferInv, NEW s \in Session, SessionStep(s)
    PROVE  /\ UNCHANGED <<coordinatorVars, selected_files, edits>>
           /\ mailbox' \in Seq(GoodMsg) /\ Len(mailbox') <= MaxMailbox
<1>0. mailbox \in Seq(GoodMsg) /\ Len(mailbox) <= MaxMailbox
  BY DEF TransferInv, TransferTypeOK
<1>1. UNCHANGED <<coordinatorVars, selected_files, edits>>
  BY DEF SessionStep, Connect, Greet, MaybeRequestWork, HandleEvent, HandleChoke, HandleHave,
         HandleBitfield, PieceCompletes, HashMismatch, GiveBackChokedJob, SessionEnds,
         FinishJob, FinishPeer, Abort, Gone
<1>2. \/ mailbox' = mailbox
      \/ \E msgs \in Seq(GoodMsg) : Send(msgs)
  <2>1. CASE Connect(s)
    BY <2>1, SentIsGood DEF Connect
  <2>2. CASE MaybeRequestWork(s)
    BY <2>2, SentIsGood DEF MaybeRequestWork
  <2>3. CASE HandleEvent(s) \/ (\E choking \in BOOLEAN : HandleChoke(s, choking))
             \/ Greet(s) \/ SessionEnds(s) \/ Abort(s)
    BY <2>3 DEF HandleEvent, HandleChoke, Greet, SessionEnds, Abort
  <2>4. ASSUME NEW p \in Haves, HandleHave(s, p) PROVE \E msgs \in Seq(GoodMsg) : Send(msgs)
    BY <2>4, SentIsGood, BitfieldsAssumption DEF HandleHave
  <2>5. ASSUME NEW pieces \in Bitfields, HandleBitfield(s, pieces)
        PROVE  \E msgs \in Seq(GoodMsg) : Send(msgs)
    <3>1. pieces \in SUBSET Piece
      BY BitfieldsAssumption
    <3> DEFINE msgs == Withdraw(s) \o <<Msg("PeerBitfield", s, NoPiece, pieces)>>
    <3>2. msgs \in Seq(GoodMsg) /\ Send(msgs)
      BY <2>5, <3>1, SentIsGood DEF HandleBitfield
    <3> HIDE DEF msgs
    <3> QED
      BY <3>2
  <2>6. CASE PieceCompletes(s)
    BY <2>6, SentIsGood DEF PieceCompletes
  <2>7. CASE HashMismatch(s)
    BY <2>7, SentIsGood DEF HashMismatch
  <2>8. CASE GiveBackChokedJob(s)
    BY <2>8, SentIsGood DEF GiveBackChokedJob
  <2>9. CASE FinishJob(s)
    BY <2>9, SentIsGood DEF FinishJob, GiveBack
  <2>10. CASE FinishPeer(s)
    BY <2>10, SentIsGood DEF FinishPeer
  <2> QED
    BY <2>1, <2>2, <2>3, <2>4, <2>5, <2>6, <2>7, <2>8, <2>9, <2>10 DEF SessionStep
<1>3. ASSUME NEW msgs \in Seq(GoodMsg), Send(msgs)
      PROVE  mailbox' \in Seq(GoodMsg) /\ Len(mailbox') <= MaxMailbox
  <2>1. mailbox' = mailbox \o msgs /\ Len(mailbox) + Len(msgs) <= MaxMailbox
    BY <1>3 DEF Send
  <2> HIDE DEF GoodMsg
  <2> QED
    BY <1>0, <2>1, ConcatProperties
<1> QED
  BY <1>0, <1>1, <1>2, <1>3

\* The coordinator takes the oldest message.
LEMMA ReceiveEffect ==
    ASSUME TransferInv, MailboxStep
    PROVE  /\ mailbox # <<>> /\ Head(mailbox) \in GoodMsg /\ mailbox' = Tail(mailbox)
           /\ mailbox' \in Seq(GoodMsg) /\ Len(mailbox') <= MaxMailbox
           /\ UNCHANGED <<have, peer_choking, selected_files, edits>>
<1>0. mailbox \in Seq(GoodMsg) /\ Len(mailbox) <= MaxMailbox /\ MaxMailbox \in Nat
  BY CapacityAssumption DEF TransferInv, TransferTypeOK
<1>1. /\ mailbox # <<>> /\ mailbox' = Tail(mailbox)
      /\ UNCHANGED <<have, peer_choking, selected_files, edits>>
  BY DEF MailboxStep, OnGetCompletedPieces, OnRequestWork, OnAvailability, OnPieceDownloaded,
         OnPieceFailed, Receive
<1> HIDE DEF GoodMsg
<1> QED
  BY <1>0, <1>1

\* A good message, by its type.
LEMMA GoodFields ==
    ASSUME NEW m \in GoodMsg
    PROVE  /\ m.from \in Session /\ m.pieces \in SUBSET Piece /\ m.piece \in 0 .. NumPieces
           /\ m.type \in PieceMsg => m.piece \in Piece /\ m.pieces = {}
           /\ m.type \notin PieceMsg => m.piece = NoPiece
BY DEF GoodMsg, MsgType

\* Every step is an operation of the piece manager, called with arguments it expects.
LEMMA StepImplements ==
    ASSUME TransferInv, [Next]_vars
    PROVE  [ManagerNext]_managerVars
<1> DEFINE m == Head(mailbox)
<1>1. ASSUME MailboxStep
      PROVE  m \in GoodMsg /\ m.pieces \in SUBSET Piece /\ (m.type \in PieceMsg => m.piece \in Piece)
  <2>1. m \in GoodMsg
    BY <1>1, ReceiveEffect
  <2> HIDE DEF m
  <2> QED
    BY <2>1, GoodFields
<1>2. CASE OnRequestWork
  <2>1. PICK reply \in 0 .. NumPieces : RequestWork(m.pieces, reply)
    BY <1>2 DEF OnRequestWork
  <2>2. m.pieces \in SUBSET Piece
    BY <1>1, <1>2 DEF MailboxStep
  <2> HIDE DEF m
  <2> QED
    BY <2>1, <2>2 DEF RequestWork, ManagerNext, Assign, Refuse
<1>3. CASE OnAvailability
  <2>1. m.pieces \in SUBSET Piece /\ (m.type = "PeerHave" => {m.piece} \in SUBSET Piece)
    BY <1>1, <1>3 DEF MailboxStep, PieceMsg
  <2>2. \/ AddPeerPieces(m.pieces)
        \/ m.type = "PeerHave" /\ AddPeerPieces({m.piece})
        \/ RemovePeerPieces(m.pieces)
    BY <1>3 DEF OnAvailability, Receive, PeerBitfield, PeerHave, PeerGone
  <2> HIDE DEF m
  <2> QED
    BY <2>1, <2>2 DEF ManagerNext, PeerJoins, PeerLeaves
<1>4. CASE OnPieceDownloaded
  <2>1. m.type = "PieceDownloaded" /\ \E written : PieceDownloaded(m.piece, written)
    BY <1>4 DEF OnPieceDownloaded, Receive
  <2>2. m.piece \in Piece
    BY <1>1, <1>4, <2>1 DEF MailboxStep, PieceMsg
  <2> HIDE DEF m
  <2> QED
    BY <2>1, <2>2 DEF PieceDownloaded, ManagerNext, Return, Complete, coordinatorVars
<1>5. CASE OnPieceFailed
  <2>1. m.type = "PieceFailed" /\ PieceFailed(m.piece)
    BY <1>5 DEF OnPieceFailed, Receive
  <2>2. m.piece \in Piece
    BY <1>1, <1>5, <2>1 DEF MailboxStep, PieceMsg
  <2> HIDE DEF m
  <2> QED
    BY <2>1, <2>2 DEF PieceFailed, ManagerNext, Return
<1>6. CASE OnCheckTick
  <2>1. PICK verified \in BOOLEAN : CheckTick(verified)
    BY <1>6 DEF OnCheckTick
  <2>2. next_piece \in Piece
    BY <2>1, NumPiecesAssumption DEF CheckTick, TransferInv, TransferTypeOK, ControlTypeOK, Piece
  <2> QED
    BY <2>1, <2>2 DEF CheckTick, ManagerNext, Complete
<1>7. ASSUME NEW files \in FileSet, OnSetSelection(files) PROVE Select
  <2>1. ApplySelection(SelectionOf(files), ToRefetch(selected_files, files))
    BY <1>7 DEF OnSetSelection, SetSelection
  <2>2. SelectionOf(files) \in Selections /\ ToRefetch(selected_files, files) \in SUBSET Piece
    BY SelectionsOfFiles, LayoutAssumption DEF ToRefetch
  <2> QED
    BY <2>1, <2>2 DEF Select
<1>8. CASE OnGetCompletedPieces \/ (\E value \in BOOLEAN : OnSetPaused(value)) \/ UNCHANGED vars
  BY <1>8 DEF OnGetCompletedPieces, OnSetPaused, SetPaused, vars, coordinatorVars
<1>9. ASSUME NEW s \in Session, SessionStep(s) PROVE UNCHANGED managerVars
  BY <1>9, SessionSends DEF coordinatorVars
<1> QED
  BY <1>2, <1>3, <1>4, <1>5, <1>6, <1>7, <1>8, <1>9 DEF Next, MailboxStep, ManagerNext

\* The coordinator's control state keeps its types, and the check its range.
LEMMA StepKeepsControl ==
    ASSUME TransferInv, [Next]_vars
    PROVE  /\ ControlTypeOK' /\ phase' # "stopped"
           /\ phase' = "checking" => next_piece' < NumPieces
<1>0. /\ phase \in {"checking", "downloading"} /\ next_piece \in 0 .. NumPieces
      /\ paused \in BOOLEAN /\ has_completed \in BOOLEAN /\ NumPieces \in Nat
      /\ phase = "checking" => next_piece < NumPieces
  BY NumPiecesAssumption DEF TransferInv, TransferTypeOK, ControlTypeOK
<1>1. CASE UNCHANGED controlVars
  BY <1>0, <1>1 DEF controlVars, ControlTypeOK
<1>2. CASE OnCheckTick
  <2>1. PICK verified \in BOOLEAN : CheckTick(verified)
    BY <1>2 DEF OnCheckTick
  <2>2. next_piece' \in 0 .. NumPieces
    BY <1>0, <2>1 DEF CheckTick
  <2>3. \/ phase' = "downloading" /\ paused' = FALSE /\ has_completed' = IsDone'
        \/ next_piece' < NumPieces /\ UNCHANGED <<phase, paused, has_completed>>
    BY <1>0, <2>1, <2>2 DEF CheckTick
  <2>4. has_completed' \in BOOLEAN
    BY <1>0, <2>3 DEF IsDone
  <2> QED
    BY <1>0, <2>2, <2>3, <2>4 DEF ControlTypeOK
<1>3. CASE OnPieceDownloaded
  <2>1. PICK p, written : PieceDownloaded(p, written)
    BY <1>3 DEF OnPieceDownloaded
  <2>2. CASE UNCHANGED controlVars
    BY <1>1, <2>2
  <2>3. CASE /\ has_completed' = (has_completed \/ IsDone')
             /\ UNCHANGED <<phase, next_piece, paused>>
    BY <1>0, <2>3 DEF ControlTypeOK
  <2> QED
    BY <2>1, <2>2, <2>3 DEF PieceDownloaded, coordinatorVars
<1>4. ASSUME NEW files \in FileSet, OnSetSelection(files)
      PROVE  /\ ControlTypeOK' /\ phase' # "stopped"
             /\ phase' = "checking" => next_piece' < NumPieces
  <2>1. has_completed' = AnnouncedAfter /\ UNCHANGED <<phase, next_piece, paused>>
    BY <1>4 DEF OnSetSelection, SetSelection
  <2>2. has_completed' \in BOOLEAN
    BY <1>0, <2>1 DEF AnnouncedAfter, IsDone
  <2> QED
    BY <1>0, <2>1, <2>2 DEF ControlTypeOK
<1>5. ASSUME NEW value \in BOOLEAN, OnSetPaused(value)
      PROVE  /\ ControlTypeOK' /\ phase' # "stopped"
             /\ phase' = "checking" => next_piece' < NumPieces
  BY <1>0, <1>5 DEF OnSetPaused, SetPaused, ControlTypeOK
<1>6. CASE OnGetCompletedPieces \/ OnRequestWork \/ OnAvailability \/ OnPieceFailed \/ UNCHANGED vars
  BY <1>1, <1>6 DEF OnGetCompletedPieces, OnRequestWork, OnAvailability, OnPieceFailed,
                    RequestWork, PeerBitfield, PeerHave, PeerGone, PieceFailed,
                    coordinatorVars, vars
<1>7. ASSUME NEW s \in Session, SessionStep(s) PROVE UNCHANGED controlVars
  BY <1>7, SessionSends DEF coordinatorVars
<1> QED
  BY <1>1, <1>2, <1>3, <1>4, <1>5, <1>6, <1>7 DEF Next, MailboxStep

\* Lagging keeps the newest events, which are some of those there were.
LEMMA NewestEvents ==
    ASSUME NEW queue \in Seq(EventType)
    PROVE  /\ Newest(queue) \in Seq(EventType)
           /\ \A i \in DOMAIN Newest(queue) : \E j \in DOMAIN queue : Newest(queue)[i] = queue[j]
<1> DEFINE n == Len(queue)
           m == IF n > MaxEvents THEN n - MaxEvents + 1 ELSE 1
<1>0. n \in Nat /\ MaxEvents \in Nat \ {0} /\ DOMAIN queue = 1 .. n
  BY CapacityAssumption, LenProperties
<1>1. m \in 1 .. n + 1
  BY <1>0
<1>2. Newest(queue) = SubSeq(queue, m, n)
  BY DEF Newest
<1> HIDE DEF n, m, EventType
<1>3. /\ SubSeq(queue, m, n) \in Seq(EventType)
      /\ Len(SubSeq(queue, m, n)) = IF m <= n THEN n - m + 1 ELSE 0
      /\ \A i \in 1 .. n - m + 1 : SubSeq(queue, m, n)[i] = queue[m + i - 1]
  BY <1>0, <1>1, SubSeqProperties DEF n
<1>4. ASSUME NEW i \in DOMAIN SubSeq(queue, m, n)
      PROVE  \E j \in DOMAIN queue : SubSeq(queue, m, n)[i] = queue[j]
  <2>1. DOMAIN SubSeq(queue, m, n) = 1 .. Len(SubSeq(queue, m, n))
    BY <1>3, LenProperties
  <2>2. i \in 1 .. n - m + 1 /\ m + i - 1 \in 1 .. n
    BY <1>0, <1>1, <1>3, <2>1
  <2> QED
    BY <1>0, <1>3, <2>2
<1> QED
  BY <1>2, <1>3, <1>4

\* What the coordinator broadcasts.
LEMMA BroadcastEvents ==
    ASSUME TransferInv, NEW new \in Seq(EventType), Broadcast(new)
    PROVE  /\ events' \in [Session -> Seq(EventType)]
           /\ \A s \in Session : \A i \in DOMAIN events'[s] :
                \/ \E j \in DOMAIN events[s] : events'[s][i] = events[s][j]
                \/ \E k \in DOMAIN new : events'[s][i] = new[k]
<1>0. events \in [Session -> Seq(EventType)]
  BY DEF TransferInv, TransferTypeOK
<1> HIDE DEF EventType
<1>1. ASSUME NEW s \in Session
      PROVE  /\ events'[s] \in Seq(EventType)
             /\ \A i \in DOMAIN events'[s] :
                  \/ \E j \in DOMAIN events[s] : events'[s][i] = events[s][j]
                  \/ \E k \in DOMAIN new : events'[s][i] = new[k]
  <2>1. CASE conn[s] = "down"
    <3>1. events'[s] = <<>>
      BY <2>1 DEF Broadcast
    <3>2. <<>> \in Seq(EventType) /\ DOMAIN <<>> = {}
      OBVIOUS
    <3> QED
      BY <3>1, <3>2
  <2>2. CASE conn[s] # "down"
    <3> DEFINE old == events[s]
               all == old \o new
    <3>1. events'[s] = Newest(all) /\ old \in Seq(EventType)
      BY <1>0, <2>2 DEF Broadcast
    <3>2. /\ all \in Seq(EventType) /\ DOMAIN all = 1 .. Len(old) + Len(new)
          /\ \A i \in 1 .. Len(old) + Len(new) :
               all[i] = IF i <= Len(old) THEN old[i] ELSE new[i - Len(old)]
      <4> HIDE DEF old
      <4> QED
        BY <3>1, ConcatProperties, LenProperties
    <3>3. \A j \in DOMAIN all : \/ \E i \in DOMAIN old : all[j] = old[i]
                                \/ \E k \in DOMAIN new : all[j] = new[k]
      <4> HIDE DEF all, old
      <4> TAKE j \in DOMAIN all
      <4>1. Len(old) \in Nat /\ Len(new) \in Nat /\ DOMAIN old = 1 .. Len(old)
            /\ DOMAIN new = 1 .. Len(new)
        BY <3>1, LenProperties
      <4>2. CASE j <= Len(old)
        BY <3>2, <4>1, <4>2
      <4>3. CASE j > Len(old)
        <5>1. j - Len(old) \in DOMAIN new /\ all[j] = new[j - Len(old)]
          BY <3>2, <4>1, <4>3
        <5> QED
          BY <5>1
      <4> QED
        BY <3>2, <4>1, <4>2, <4>3
    <3> HIDE DEF all
    <3>4. /\ Newest(all) \in Seq(EventType)
          /\ \A i \in DOMAIN Newest(all) : \E j \in DOMAIN all : Newest(all)[i] = all[j]
      BY <3>2, NewestEvents
    <3> QED
      BY <3>1, <3>3, <3>4
  <2> QED
    BY <2>1, <2>2
<1>2. events' = [s \in Session |-> events'[s]]
  BY DEF Broadcast
<1> QED
  BY <1>1, <1>2

\* Two optional events, each right when it is sent.
LEMMA OptionalEvents ==
    ASSUME NEW T, NEW c, NEW d, NEW e, NEW f, c => e \in T, d => f \in T
    PROVE  When(c, e) \o When(d, f) \in Seq(T)
<1>1. When(c, e) \in Seq(T) /\ When(d, f) \in Seq(T)
  BY DEF When
<1> HIDE DEF When
<1> QED
  BY <1>1

\* The events of a step: a piece they call completed is completed.
TrueEvent(done) == {e \in EventType : e.type = "PieceCompleted" => e.piece \in done}

\* Every event a handler broadcasts is one of these.
LEMMA EventTypes ==
    ASSUME NEW done
    PROVE  /\ \A p \in Piece \cap done : PieceCompletedEvent(p) \in TrueEvent(done)
           /\ DownloadCompleteEvent \in TrueEvent(done)
           /\ SelectionChangedEvent \in TrueEvent(done)
           /\ Seq(TrueEvent(done)) \subseteq Seq(EventType)
<1>1. ASSUME NEW p \in Piece \cap done PROVE PieceCompletedEvent(p) \in TrueEvent(done)
  <2>1. PieceCompletedEvent(p) \in EventType
    BY DEF EventType
  <2> QED
    BY <2>1 DEF TrueEvent, PieceCompletedEvent
<1>2. DownloadCompleteEvent \in EventType /\ SelectionChangedEvent \in EventType
  BY DEF EventType
<1>3. DownloadCompleteEvent \in TrueEvent(done) /\ SelectionChangedEvent \in TrueEvent(done)
  BY <1>2 DEF TrueEvent, DownloadCompleteEvent, SelectionChangedEvent
<1>4. TrueEvent(done) \subseteq EventType
  BY DEF TrueEvent
<1>5. Seq(TrueEvent(done)) \subseteq Seq(EventType)
  <2> HIDE DEF TrueEvent, EventType
  <2> QED
    BY <1>4
<1> QED
  BY <1>1, <1>3, <1>5

\* A step that does not come from a session broadcasts true events, or none.
LEMMA BroadcastsAreTrue ==
    ASSUME TransferInv,
           \/ MailboxStep \/ OnCheckTick \/ UNCHANGED vars
           \/ \E files \in FileSet : OnSetSelection(files)
           \/ \E value \in BOOLEAN : OnSetPaused(value)
    PROVE  \/ events' = events
           \/ \E new \in Seq(TrueEvent(completed')) : Broadcast(new)
<1> DEFINE T == TrueEvent(completed')
<1>0. /\ DownloadCompleteEvent \in T /\ SelectionChangedEvent \in T
      /\ \A p \in Piece \cap completed' : PieceCompletedEvent(p) \in T
  BY EventTypes
<1> HIDE DEF T
<1>1. CASE OnPieceDownloaded
  <2> DEFINE p == Head(mailbox).piece
             new == PieceDownloadedEvents(p)
  <2>1. Broadcast(new)
    BY <1>1 DEF OnPieceDownloaded
  <2>2. p \in Piece
    <3>1. Head(mailbox) \in GoodMsg /\ Head(mailbox).type = "PieceDownloaded"
      BY <1>1, ReceiveEffect DEF MailboxStep, OnPieceDownloaded, Receive
    <3> QED
      BY <3>1, GoodFields DEF PieceMsg
  <2> HIDE DEF p
  <2>3. BecomesServable(p) => PieceCompletedEvent(p) \in T
    BY <1>0, <2>2 DEF BecomesServable
  <2>4. new \in Seq(T)
    <3> DEFINE c == p \notin completed /\ BecomesServable(p)
               d == has_completed' /\ ~has_completed
    <3>1. new = When(c, PieceCompletedEvent(p)) \o When(d, DownloadCompleteEvent)
      BY DEF PieceDownloadedEvents
    <3>2. c => PieceCompletedEvent(p) \in T
      BY <2>3
    <3> HIDE DEF c, d, new
    <3> QED
      BY <1>0, <3>1, <3>2, OptionalEvents
  <2> HIDE DEF new
  <2> QED
    BY <2>1, <2>4 DEF T
<1>2. CASE OnCheckTick
  <2>1. PICK verified \in BOOLEAN : CheckTick(verified) /\ Broadcast(CheckTickEvents(verified))
    BY <1>2 DEF OnCheckTick
  <2> DEFINE new == CheckTickEvents(verified)
  <2>2. next_piece \in Piece
    BY <2>1, NumPiecesAssumption DEF CheckTick, TransferInv, TransferTypeOK, ControlTypeOK, Piece
  <2>3. BecomesServable(next_piece) => PieceCompletedEvent(next_piece) \in T
    BY <1>0, <2>2 DEF BecomesServable
  <2>4. new \in Seq(T)
    <3> DEFINE c == verified /\ next_piece \in selection.wanted /\ BecomesServable(next_piece)
               d == phase' = "downloading" /\ IsDone'
    <3>1. new = When(c, PieceCompletedEvent(next_piece)) \o When(d, DownloadCompleteEvent)
      BY DEF CheckTickEvents
    <3>2. c => PieceCompletedEvent(next_piece) \in T
      BY <2>3
    <3> HIDE DEF c, d, new
    <3> QED
      BY <1>0, <3>1, <3>2, OptionalEvents
  <2> HIDE DEF new
  <2> QED
    BY <2>1, <2>4 DEF T, new
<1>3. ASSUME NEW files \in FileSet, OnSetSelection(files)
      PROVE  \E new \in Seq(T) : Broadcast(new)
  <2> DEFINE new == SetSelectionEvents(TRUE)
             c == IsDone' /\ ~has_completed
             d == ~IsDone'
  <2>1. Broadcast(new)
    BY <1>3 DEF OnSetSelection
  <2>2. \/ new = <<>>
        \/ new = When(c, DownloadCompleteEvent) \o When(d, SelectionChangedEvent)
    BY DEF SetSelectionEvents
  <2>3. <<>> \in Seq(T)
    OBVIOUS
  <2> HIDE DEF c, d, new
  <2> QED
    BY <1>0, <2>1, <2>2, <2>3, OptionalEvents
<1>4. CASE OnGetCompletedPieces \/ OnRequestWork \/ OnAvailability \/ OnPieceFailed
           \/ UNCHANGED vars \/ \E value \in BOOLEAN : OnSetPaused(value)
  BY <1>4 DEF OnGetCompletedPieces, OnRequestWork, OnAvailability, OnPieceFailed, OnSetPaused, vars
<1> QED
  BY <1>1, <1>2, <1>3, <1>4 DEF MailboxStep, T

\* The events a session waits for keep their type.
LEMMA StepKeepsEventTypes ==
    ASSUME TransferInv, [Next]_vars
    PROVE  events' \in [Session -> Seq(EventType)]
<1>0. events \in [Session -> Seq(EventType)]
  BY DEF TransferInv, TransferTypeOK
<1>1. ASSUME NEW s \in Session, SessionStep(s) PROVE events' \in [Session -> Seq(EventType)]
  <2>1. CASE HandleEvent(s)
    <3>1. events[s] # <<>> /\ events' = [events EXCEPT ![s] = Tail(@)]
      BY <2>1 DEF HandleEvent
    <3> HIDE DEF EventType
    <3>2. Tail(events[s]) \in Seq(EventType)
      BY <1>0, <3>1
    <3> QED
      BY <1>0, <3>1, <3>2
  <2>2. CASE FinishPeer(s) \/ Abort(s)
    <3>1. events' = [events EXCEPT ![s] = <<>>]
      BY <2>2 DEF FinishPeer, Abort, Gone
    <3> HIDE DEF EventType
    <3> QED
      BY <1>0, <3>1
  <2>3. CASE events' = events
    BY <1>0, <2>3
  <2> QED
    BY <1>1, <2>1, <2>2, <2>3 DEF SessionStep, Connect, Greet, MaybeRequestWork, HandleChoke, HandleHave,
         HandleBitfield, PieceCompletes, HashMismatch, GiveBackChokedJob, SessionEnds, FinishJob
<1>2. ASSUME NEW new \in Seq(TrueEvent(completed')), Broadcast(new)
      PROVE  events' \in [Session -> Seq(EventType)]
  <2>1. new \in Seq(EventType)
    BY EventTypes
  <2> QED
    BY <1>2, <2>1, BroadcastEvents
<1> QED
  BY <1>0, <1>1, <1>2, BroadcastsAreTrue DEF Next

\* The sessions keep their types.
SessionTypeOK ==
    /\ conn \in [Session -> {"down", "opening", "greeting", "up", "asking", "closing"}]
    /\ have \in [Session -> SUBSET Piece]
    /\ job \in [Session -> 0 .. NumPieces]
    /\ peer_choking \in [Session -> BOOLEAN]
    /\ am_interested \in [Session -> BOOLEAN]
    /\ told \in [Session -> SUBSET Piece]

\* Every step keeps the types of the sessions' state.
LEMMA StepKeepsSessionTypes ==
    ASSUME TransferInv, [Next]_vars
    PROVE  SessionTypeOK'
<1>0. SessionTypeOK /\ NoPiece \in 0 .. NumPieces /\ events \in [Session -> Seq(EventType)]
  BY NumPiecesAssumption DEF TransferInv, TransferTypeOK, SessionTypeOK, NoPiece
<1> USE DEF SessionTypeOK
<1>1. ASSUME NEW s \in Session, SessionStep(s) PROVE SessionTypeOK'
  <2>1. CASE Connect(s) \/ Greet(s) \/ MaybeRequestWork(s) \/ SessionEnds(s)
    BY <1>0, <2>1 DEF Connect, Greet, MaybeRequestWork, SessionEnds
  <2>2. ASSUME NEW choking \in BOOLEAN, HandleChoke(s, choking) PROVE SessionTypeOK'
    BY <1>0, <2>2 DEF HandleChoke
  <2>3. ASSUME NEW p \in Haves, HandleHave(s, p) PROVE SessionTypeOK'
    BY <1>0, <2>3, BitfieldsAssumption DEF HandleHave
  <2>4. ASSUME NEW pieces \in Bitfields, HandleBitfield(s, pieces) PROVE SessionTypeOK'
    BY <1>0, <2>4, BitfieldsAssumption DEF HandleBitfield
  <2>5. CASE PieceCompletes(s) \/ HashMismatch(s) \/ GiveBackChokedJob(s) \/ FinishJob(s)
    BY <1>0, <2>5 DEF PieceCompletes, HashMismatch, GiveBackChokedJob, FinishJob
  <2>6. CASE FinishPeer(s) \/ Abort(s)
    <3>1. Gone(s)
      BY <2>6 DEF FinishPeer, Abort
    <3>2. conn' \in [Session -> {"down", "opening", "greeting", "up", "asking", "closing"}]
      BY <1>0, <3>1 DEF Gone
    <3>3. have' \in [Session -> SUBSET Piece] /\ told' \in [Session -> SUBSET Piece]
      BY <1>0, <3>1 DEF Gone
    <3>4. job' \in [Session -> 0 .. NumPieces]
      BY <1>0, <3>1 DEF Gone
    <3>5. peer_choking' \in [Session -> BOOLEAN] /\ am_interested' \in [Session -> BOOLEAN]
      BY <1>0, <3>1 DEF Gone
    <3> QED
      BY <3>2, <3>3, <3>4, <3>5
  <2>7. CASE HandleEvent(s)
    <3> DEFINE e == Head(events[s])
    <3>1. e \in EventType
      <4>1. events[s] # <<>> /\ events[s] \in Seq(EventType)
        BY <1>0, <2>7 DEF HandleEvent
      <4> HIDE DEF EventType
      <4> QED
        BY <4>1
    <3>2. e.type = "PieceCompleted" => e.piece \in Piece
      <4> HIDE DEF e
      <4> QED
        BY <3>1 DEF EventType, PieceCompletedEvent, DownloadCompleteEvent, SelectionChangedEvent
    <3>3. /\ UNCHANGED <<conn, have, peer_choking>>
          /\ told' = [told EXCEPT ![s] =
                          IF e.type = "PieceCompleted" THEN @ \cup {e.piece} ELSE @]
          /\ job' = [job EXCEPT ![s] =
                  IF e.type = "PieceCompleted" /\ e.piece = @ THEN NoPiece ELSE @]
          /\ am_interested' = [am_interested EXCEPT ![s] =
                  (e.type = "SelectionChanged") \/ (@ /\ e.type # "DownloadComplete")]
      BY <2>7 DEF HandleEvent
    <3> HIDE DEF e
    <3>4. told' \in [Session -> SUBSET Piece]
      BY <1>0, <3>2, <3>3
    <3>5. job' \in [Session -> 0 .. NumPieces]
      BY <1>0, <3>3
    <3>6. am_interested' \in [Session -> BOOLEAN]
      BY <1>0, <3>3
    <3> QED
      BY <1>0, <3>3, <3>4, <3>5, <3>6
  <2> QED
    BY <1>1, <2>1, <2>2, <2>3, <2>4, <2>5, <2>6, <2>7 DEF SessionStep
<1>2. ASSUME MailboxStep PROVE Head(mailbox).from \in Session
  <2>1. Head(mailbox) \in GoodMsg
    BY <1>2, ReceiveEffect
  <2> QED
    BY <2>1, GoodFields
<1>3. CASE OnGetCompletedPieces
  <2>1. Head(mailbox).from \in Session /\ ServablePieces \subseteq Piece
    BY <1>2, <1>3 DEF MailboxStep, ServablePieces
  <2> QED
    BY <1>0, <1>3, <2>1 DEF OnGetCompletedPieces, Receive
<1>4. CASE OnRequestWork
  <2>1. Head(mailbox).from \in Session
    BY <1>2, <1>4 DEF MailboxStep
  <2> QED
    BY <1>0, <1>4, <2>1 DEF OnRequestWork, Receive
<1>5. CASE \/ OnAvailability \/ OnPieceDownloaded \/ OnPieceFailed \/ OnCheckTick \/ UNCHANGED vars
           \/ \E files \in FileSet : OnSetSelection(files)
           \/ \E value \in BOOLEAN : OnSetPaused(value)
  <2>1. UNCHANGED <<conn, have, job, peer_choking, am_interested, told>>
    BY <1>5 DEF OnAvailability, OnPieceDownloaded, OnPieceFailed, OnCheckTick, OnSetSelection,
                OnSetPaused, Receive, sessionVars, vars
  <2> QED
    BY <1>0, <2>1
<1> QED
  BY <1>1, <1>3, <1>4, <1>5 DEF Next, MailboxStep

\* Every step keeps the invariant.
LEMMA StepKeepsTransferInv ==
    ASSUME TransferInv, [Next]_vars
    PROVE  TransferInv'
<1>1. ManagerInv'
  BY StepImplements, NextPreservesInv DEF TransferInv
<1>2. mailbox' \in Seq(GoodMsg) /\ Len(mailbox') <= MaxMailbox
  <2>1. CASE UNCHANGED mailbox
    BY <2>1 DEF TransferInv, TransferTypeOK
  <2> QED
    BY <2>1, SessionSends, ReceiveEffect
       DEF Next, OnCheckTick, OnSetSelection, OnSetPaused, vars
<1>3. mailbox' \in Seq(MsgType)
  <2>1. GoodMsg \subseteq MsgType
    BY DEF GoodMsg
  <2> HIDE DEF GoodMsg, MsgType
  <2> QED
    BY <1>2, <2>1
<1>4. selected_files' \in FileSet /\ edits' \in 0 .. MaxEdits
  <2>0. selected_files \in FileSet /\ edits \in 0 .. MaxEdits
    BY DEF TransferInv, TransferTypeOK
  <2>1. CASE UNCHANGED <<selected_files, edits>>
    BY <2>0, <2>1
  <2>2. ASSUME NEW files \in FileSet, OnSetSelection(files)
        PROVE  selected_files' \in FileSet /\ edits' \in 0 .. MaxEdits
    BY <2>0, <2>2, MaxEditsAssumption DEF OnSetSelection
  <2> QED
    BY <2>1, <2>2, SessionSends, ReceiveEffect DEF Next, OnCheckTick, OnSetPaused, vars
<1>5. SessionTypeOK'
  BY StepKeepsSessionTypes
<1>6. events' \in [Session -> Seq(EventType)]
  BY StepKeepsEventTypes
<1>7. TransferTypeOK'
  BY <1>1, <1>2, <1>3, <1>4, <1>5, <1>6, StepKeepsControl
     DEF TransferTypeOK, SessionTypeOK, ManagerInv
<1> QED
  BY <1>1, <1>2, <1>7, StepKeepsControl DEF TransferInv

\* The first state is one of the piece manager and has the types.
LEMMA InitIsTransferInv == Init => ManagerInit /\ TransferInv
<1> SUFFICES ASSUME Init PROVE ManagerInit /\ TransferInv
  OBVIOUS
<1>1. ManagerInit
  <2>1. SelectionOf(selected_files) \in Selections
    BY SelectionsOfFiles DEF Init
  <2> QED
    BY <2>1 DEF Init, ManagerInit
<1>2. ManagerInv
  BY <1>1, StartEstablishesInv DEF ManagerInit
<1>3. ControlTypeOK /\ phase # "stopped" /\ (phase = "checking" => next_piece < NumPieces)
  <2>0. /\ next_piece = 0 /\ paused = FALSE /\ has_completed = FALSE
        /\ phase \in {"downloading"} \cup
                    IF "check" \in Behaviours /\ NumPieces > 0 THEN {"checking"} ELSE {}
    BY DEF Init
  <2>1. phase = "downloading" \/ (phase = "checking" /\ NumPieces > 0)
    <3>1. CASE "check" \in Behaviours /\ NumPieces > 0
      BY <2>0, <3>1
    <3>2. CASE ~("check" \in Behaviours /\ NumPieces > 0)
      BY <2>0, <3>2
    <3> QED
      BY <3>1, <3>2
  <2>2. paused \in BOOLEAN /\ has_completed \in BOOLEAN
    BY <2>0
  <2>3. next_piece \in 0 .. NumPieces /\ (NumPieces > 0 => next_piece < NumPieces)
    BY <2>0, NumPiecesAssumption
  <2> QED
    BY <2>1, <2>2, <2>3 DEF ControlTypeOK
<1>4. SessionTypeOK
  BY NumPiecesAssumption DEF Init, SessionTypeOK, NoPiece
<1>5. mailbox \in Seq(GoodMsg) /\ mailbox \in Seq(MsgType) /\ Len(mailbox) <= MaxMailbox
  <2>1. mailbox = <<>> /\ MaxMailbox \in Nat
    BY CapacityAssumption DEF Init
  <2> HIDE DEF GoodMsg, MsgType
  <2> QED
    BY <2>1
<1>6. events \in [Session -> Seq(EventType)]
  <2>1. events = [s \in Session |-> <<>>]
    BY DEF Init
  <2> HIDE DEF EventType
  <2> QED
    BY <2>1
<1>7. selected_files \in FileSet /\ edits \in 0 .. MaxEdits
  BY MaxEditsAssumption DEF Init
<1> QED
  BY <1>1, <1>2, <1>3, <1>4, <1>5, <1>6, <1>7
     DEF TransferInv, TransferTypeOK, SessionTypeOK, ManagerInv

\* The invariant of the sessions and the coordinator.
LEMMA TransferInvariant == Spec => []TransferInv
BY InitIsTransferInv, StepKeepsTransferInv, PTL DEF Spec

\* Types, with all that may happen to the sessions: the mailbox stays within its
\* capacity, jobs and messages name pieces of the torrent, and no piece has more
\* holders than MAX_ENDGAME_HOLDERS.
THEOREM TransferTypeCorrect == Spec => []TransferTypeOK
BY TransferInvariant, PTL DEF TransferInv

\* Whatever the peers do and however the mailbox interleaves their sessions, the
\* coordinator uses the piece manager as its specification allows.
THEOREM SessionsImplementManager == Spec => ManagerSpec
<1>1. Init => ManagerInit
  BY InitIsTransferInv
<1>2. TransferInv /\ [Next]_vars => [ManagerNext]_managerVars
  BY StepImplements
<1> QED
  BY <1>1, <1>2, TransferInvariant, PTL DEF Spec, ManagerSpec

-----------------------------------------------------------------------------
(* Counting messages.                                                      *)

\* How many elements of a queue are in S.
Count(q, S) == Cardinality({i \in DOMAIN q : q[i] \in S})

\* Counts are numbers.
LEMMA CountIsNat ==
    ASSUME NEW T, NEW q \in Seq(T), NEW S
    PROVE  /\ Count(q, S) \in Nat /\ IsFiniteSet({i \in DOMAIN q : q[i] \in S})
           /\ Count(q, S) = 0 <=> \A i \in DOMAIN q : q[i] \notin S
<1> DEFINE A == {i \in DOMAIN q : q[i] \in S}
<1>1. IsFiniteSet(A)
  <2>1. Len(q) \in Nat /\ DOMAIN q = 1 .. Len(q)
    BY LenProperties
  <2>2. IsFiniteSet(1 .. Len(q)) /\ A \in SUBSET (1 .. Len(q))
    BY <2>1, FS_Interval
  <2> HIDE DEF A
  <2> QED
    BY <2>2, FS_Subset
<1>2. Count(q, S) = Cardinality(A)
  BY DEF Count
<1>3. (A = {}) <=> \A i \in DOMAIN q : q[i] \notin S
  OBVIOUS
<1> HIDE DEF A
<1>4. Cardinality(A) \in Nat /\ (Cardinality(A) = 0 <=> A = {})
  BY <1>1, FS_CardinalityType, FS_EmptySet
<1> QED
  BY <1>1, <1>2, <1>3, <1>4 DEF A

\* Sending adds one.
LEMMA CountAppend ==
    ASSUME NEW T, NEW q \in Seq(T), NEW e \in T, NEW S
    PROVE  Count(Append(q, e), S) = Count(q, S) + (IF e \in S THEN 1 ELSE 0)
<1> DEFINE A == {i \in DOMAIN q : q[i] \in S}
           r == Append(q, e)
           B == {i \in DOMAIN r : r[i] \in S}
           n == Len(q) + 1
<1>1. /\ DOMAIN r = DOMAIN q \cup {n} /\ n \notin DOMAIN q /\ r[n] = e
      /\ \A i \in DOMAIN q : r[i] = q[i]
  OBVIOUS
<1>2. IsFiniteSet(A) /\ Count(q, S) = Cardinality(A) /\ Count(q, S) \in Nat
  BY CountIsNat DEF Count
<1>3. Count(r, S) = Cardinality(B)
  BY DEF Count
<1> HIDE DEF r, n
<1>4. CASE e \in S
  <2>1. B = A \cup {n} /\ n \notin A
    BY <1>1, <1>4
  <2> HIDE DEF A, B
  <2>2. Cardinality(B) = Cardinality(A) + 1
    BY <1>2, <2>1, FS_AddElement
  <2> QED
    BY <1>2, <1>3, <1>4, <2>2 DEF r
<1>5. CASE e \notin S
  <2>1. B = A
    BY <1>1, <1>5
  <2> HIDE DEF A, B
  <2> QED
    BY <1>2, <1>3, <1>5, <2>1 DEF r
<1> QED
  BY <1>4, <1>5

\* Receiving takes the head away.
LEMMA CountTail ==
    ASSUME NEW T, NEW q \in Seq(T), q # <<>>, NEW S
    PROVE  Count(q, S) = Count(Tail(q), S) + (IF Head(q) \in S THEN 1 ELSE 0)
<1> DEFINE A == {i \in DOMAIN q : q[i] \in S}
           r == Tail(q)
           B == {i \in DOMAIN r : r[i] \in S}
           f == [j \in B |-> j + 1]
<1>1. /\ r \in Seq(T) /\ 1 \in DOMAIN q /\ q[1] = Head(q)
      /\ DOMAIN r \subseteq Nat
      /\ \A j \in DOMAIN r : j + 1 \in DOMAIN q /\ j + 1 # 1 /\ r[j] = q[j + 1]
      /\ \A i \in DOMAIN q : i # 1 => i - 1 \in DOMAIN r /\ (i - 1) + 1 = i
  OBVIOUS
<1>2. IsFiniteSet(B) /\ Count(r, S) = Cardinality(B) /\ Count(r, S) \in Nat
  BY <1>1, CountIsNat DEF Count
<1>3. IsFiniteSet(A) /\ Count(q, S) = Cardinality(A)
  BY CountIsNat DEF Count
<1> HIDE DEF r
<1>4. f \in Bijection(B, A \ {1})
  <2>1. f \in [B -> A \ {1}]
    BY <1>1
  <2>2. \A a, b \in B : f[a] = f[b] => a = b
    BY <1>1
  <2>3. ASSUME NEW i \in A \ {1} PROVE \E j \in B : f[j] = i
    <3>1. i - 1 \in DOMAIN r /\ (i - 1) + 1 = i /\ r[i - 1] = q[i]
      BY <1>1
    <3>2. i - 1 \in B
      BY <3>1
    <3> QED
      BY <3>1, <3>2
  <2> HIDE DEF f, A, B
  <2> QED
    BY <2>1, <2>2, <2>3, Fun_IsBij
<1>5. (1 \in A) <=> (Head(q) \in S)
  BY <1>1
<1> HIDE DEF A, B, f
<1>6. Cardinality(A \ {1}) = Cardinality(B)
  <2>1. ExistsBijection(B, A \ {1})
    BY <1>4 DEF ExistsBijection
  <2> QED
    BY <1>2, <2>1, FS_Bijection
<1>7. Cardinality(A \ {1}) = IF 1 \in A THEN Cardinality(A) - 1 ELSE Cardinality(A)
  BY <1>3, FS_RemoveElement
<1>8. Cardinality(A) \in Nat
  BY <1>3, FS_CardinalityType
<1> QED
  BY <1>2, <1>3, <1>5, <1>6, <1>7, <1>8 DEF r

\* One message more: what a send does to the mailbox.
LEMMA SentMailbox ==
    ASSUME TransferInv
    PROVE  /\ Send(<<>>) => mailbox' = mailbox
           /\ \A m \in GoodMsg : Send(<<m>>) => mailbox' = Append(mailbox, m)
           /\ \A m, n \in GoodMsg :
                Send(<<m>> \o <<n>>) => mailbox' = Append(Append(mailbox, m), n)
<1>1. mailbox \in Seq(GoodMsg)
  BY DEF TransferInv
<1> HIDE DEF GoodMsg
<1>2. Send(<<>>) => mailbox' = mailbox
  BY <1>1 DEF Send
<1>3. ASSUME NEW m \in GoodMsg, Send(<<m>>) PROVE mailbox' = Append(mailbox, m)
  BY <1>1, <1>3 DEF Send
<1>4. ASSUME NEW m \in GoodMsg, NEW n \in GoodMsg, Send(<<m>> \o <<n>>)
      PROVE  mailbox' = Append(Append(mailbox, m), n)
  <2>1. mailbox' = mailbox \o (<<m>> \o <<n>>)
    BY <1>4 DEF Send
  <2>2. /\ mailbox \o <<m>> = Append(mailbox, m) /\ mailbox \o <<m>> \in Seq(GoodMsg)
        /\ (mailbox \o <<m>>) \o <<n>> = Append(mailbox \o <<m>>, n)
    BY <1>1
  <2>3. mailbox \o (<<m>> \o <<n>>) = (mailbox \o <<m>>) \o <<n>>
    BY <1>1
  <2> QED
    BY <2>1, <2>2, <2>3
<1> QED
  BY <1>2, <1>3, <1>4

-----------------------------------------------------------------------------
(* Requests: a session waits for at most one reply.                        *)

Asks(s) == {m \in GoodMsg : m.type = "RequestWork" /\ m.from = s}
Opens(s) == {m \in GoodMsg : m.type = "GetCompletedPieces" /\ m.from = s}
One(condition) == IF condition THEN 1 ELSE 0

\* The request of a session that waits for a reply is in the mailbox, once.
AskedOnce ==
    \A s \in Session : /\ Count(mailbox, Asks(s)) = One(conn[s] = "asking")
                       /\ Count(mailbox, Opens(s)) = One(conn[s] = "opening")

\* A session has a job only while it is up, or on its way down.
IdleUnlessUp ==
    \A s \in Session : conn[s] \notin {"greeting", "up", "closing"} => job[s] = NoPiece

\* A step that neither asks nor answers.
LEMMA SameAsked ==
    ASSUME AskedOnce,
           \A s \in Session : /\ Count(mailbox', Asks(s)) = Count(mailbox, Asks(s))
                              /\ Count(mailbox', Opens(s)) = Count(mailbox, Opens(s))
                              /\ conn'[s] = "asking" <=> conn[s] = "asking"
                              /\ conn'[s] = "opening" <=> conn[s] = "opening"
    PROVE  AskedOnce'
BY DEF AskedOnce, One

\* Other messages do not count.
LEMMA OtherMessage ==
    ASSUME NEW q \in Seq(GoodMsg), NEW m \in GoodMsg,
           m.type \notin {"RequestWork", "GetCompletedPieces"}, NEW s
    PROVE  /\ Count(Append(q, m), Asks(s)) = Count(q, Asks(s))
           /\ Count(Append(q, m), Opens(s)) = Count(q, Opens(s))
           /\ Append(q, m) \in Seq(GoodMsg)
<1>1. m \notin Asks(s) /\ m \notin Opens(s)
  BY DEF Asks, Opens
<1>2. Count(q, Asks(s)) \in Nat /\ Count(q, Opens(s)) \in Nat
  BY CountIsNat
<1>3. Append(q, m) \in Seq(GoodMsg)
  <2> HIDE DEF GoodMsg
  <2> QED
    OBVIOUS
<1> HIDE DEF GoodMsg
<1> QED
  BY <1>1, <1>2, <1>3, CountAppend

\* What a session that greets, is up or is closing sends.
LEMMA SessionMessages ==
    ASSUME TransferInv, NEW s \in Session, SessionStep(s), ~Connect(s), ~MaybeRequestWork(s)
    PROVE  /\ \/ mailbox' = mailbox
              \/ \E m \in GoodMsg :
                   /\ m.type \notin {"RequestWork", "GetCompletedPieces"}
                   /\ mailbox' = Append(mailbox, m)
              \/ \E m, n \in GoodMsg :
                   /\ m.type \notin {"RequestWork", "GetCompletedPieces"}
                   /\ n.type \notin {"RequestWork", "GetCompletedPieces"}
                   /\ mailbox' = Append(Append(mailbox, m), n)
           /\ conn[s] \in {"greeting", "up", "closing"}
           /\ \E c \in {"up", "closing", "down"} : conn' = [conn EXCEPT ![s] = c]
<1>0. /\ conn \in [Session -> {"down", "opening", "greeting", "up", "asking", "closing"}]
      /\ have[s] \in SUBSET Piece
  BY DEF TransferInv, TransferTypeOK
<1> DEFINE Sends(M) == \/ mailbox' = mailbox
                       \/ \E m \in M : mailbox' = Append(mailbox, m)
                       \/ \E m, n \in M : mailbox' = Append(Append(mailbox, m), n)
           M == {m \in GoodMsg : m.type \notin {"RequestWork", "GetCompletedPieces"}}
<1>1. /\ Msg("PeerGone", s, NoPiece, have[s]) \in M
      /\ \A p \in Piece : Msg("PeerHave", s, p, {}) \in M
      /\ \A pieces \in SUBSET Piece : Msg("PeerBitfield", s, NoPiece, pieces) \in M
      /\ job[s] # NoPiece => /\ Msg("PieceDownloaded", s, job[s], {}) \in M
                             /\ Msg("PieceFailed", s, job[s], {}) \in M
  <2>1. /\ Msg("PeerGone", s, NoPiece, have[s]) \in GoodMsg
        /\ \A p \in Piece : Msg("PeerHave", s, p, {}) \in GoodMsg
        /\ \A pieces \in SUBSET Piece : Msg("PeerBitfield", s, NoPiece, pieces) \in GoodMsg
        /\ job[s] # NoPiece => /\ Msg("PieceDownloaded", s, job[s], {}) \in GoodMsg
                               /\ Msg("PieceFailed", s, job[s], {}) \in GoodMsg
    BY <1>0, MessagesAreGood, JobIsPiece DEF PieceMsg
  <2>2. \A type, p, pieces : Msg(type, s, p, pieces).type = type
    BY DEF Msg
  <2> HIDE DEF GoodMsg
  <2> QED
    BY <2>1, <2>2
<1>2. M \subseteq GoodMsg
  OBVIOUS
<1> HIDE DEF M, GoodMsg, Msg
<1>3. /\ Send(<<>>) => Sends(M)
      /\ \A m \in M : Send(<<m>>) => Sends(M)
      /\ \A m, n \in M : Send(<<m>> \o <<n>>) => Sends(M)
  <2>1. /\ Send(<<>>) => mailbox' = mailbox
        /\ \A m \in GoodMsg : Send(<<m>>) => mailbox' = Append(mailbox, m)
        /\ \A m, n \in GoodMsg :
                Send(<<m>> \o <<n>>) => mailbox' = Append(Append(mailbox, m), n)
    BY SentMailbox
  <2> HIDE DEF Send
  <2> QED
    BY <1>2, <2>1
<1>4. /\ conn[s] \in {"greeting", "up", "closing"} /\ Sends(M)
      /\ \E c \in {"up", "closing", "down"} : conn' = [conn EXCEPT ![s] = c]
  <2>0. conn = [conn EXCEPT ![s] = conn[s]]
    BY <1>0
  <2>1. CASE HandleEvent(s) \/ \E choking \in BOOLEAN : HandleChoke(s, choking)
    BY <2>0, <2>1 DEF HandleEvent, HandleChoke
  <2>2. ASSUME NEW p \in Haves, HandleHave(s, p) PROVE <1>4!:
    BY <1>1, <1>3, <2>0, <2>2, BitfieldsAssumption DEF HandleHave
  <2>3. ASSUME NEW pieces \in Bitfields, HandleBitfield(s, pieces) PROVE <1>4!:
    <3> DEFINE n == Msg("PeerBitfield", s, NoPiece, pieces)
    <3>1. n \in M
      BY <1>1, BitfieldsAssumption
    <3>2. Send(Withdraw(s) \o <<n>>) /\ conn[s] = "up" /\ conn' = conn
      BY <2>3 DEF HandleBitfield
    <3>3. <<>> \o <<n>> = <<n>>
      OBVIOUS
    <3> HIDE DEF n
    <3>4. Sends(M)
      BY <1>1, <1>3, <3>1, <3>2, <3>3 DEF Withdraw
    <3> QED
      BY <2>0, <3>2, <3>4
  <2>4. CASE PieceCompletes(s) \/ GiveBackChokedJob(s)
    BY <1>1, <1>3, <2>0, <2>4 DEF PieceCompletes, GiveBackChokedJob
  <2>5. CASE HashMismatch(s)
    BY <1>1, <1>3, <2>5 DEF HashMismatch
  <2>6. CASE Greet(s) \/ SessionEnds(s)
    BY <2>6 DEF Greet, SessionEnds
  <2>7. CASE FinishJob(s)
    BY <1>1, <1>3, <2>0, <2>7 DEF FinishJob, GiveBack
  <2>8. CASE FinishPeer(s)
    BY <1>1, <1>3, <2>8 DEF FinishPeer, Gone, Withdraw
  <2>9. CASE Abort(s)
    BY <2>9 DEF Abort, Gone
  <2> QED
    BY <2>1, <2>2, <2>3, <2>4, <2>5, <2>6, <2>7, <2>8, <2>9 DEF SessionStep
<1> QED
  BY <1>4 DEF M

\* Every step keeps requests and waiting sessions together.
LEMMA StepKeepsAsked ==
    ASSUME TransferInv, AskedOnce, [Next]_vars
    PROVE  AskedOnce'
<1>0. /\ conn \in [Session -> {"down", "opening", "greeting", "up", "asking", "closing"}]
      /\ mailbox \in Seq(GoodMsg)
  BY DEF TransferInv, TransferTypeOK
<1>c. \A s \in Session : /\ Count(mailbox, Asks(s)) \in Nat /\ Count(mailbox, Opens(s)) \in Nat
  BY <1>0, CountIsNat
<1>1. ASSUME NEW s \in Session, SessionStep(s), ~Connect(s), ~MaybeRequestWork(s) PROVE AskedOnce'
  <2>1. PICK c \in {"up", "closing", "down"} : conn' = [conn EXCEPT ![s] = c]
    BY <1>1, SessionMessages
  <2>2. conn[s] \in {"greeting", "up", "closing"}
    BY <1>1, SessionMessages
  <2>3. \A t \in Session : /\ conn'[t] = "asking" <=> conn[t] = "asking"
                           /\ conn'[t] = "opening" <=> conn[t] = "opening"
    BY <1>0, <2>1, <2>2
  <2>4. \A t \in Session : /\ Count(mailbox', Asks(t)) = Count(mailbox, Asks(t))
                           /\ Count(mailbox', Opens(t)) = Count(mailbox, Opens(t))
    <3>1. CASE mailbox' = mailbox
      BY <3>1
    <3>2. ASSUME NEW m \in GoodMsg, m.type \notin {"RequestWork", "GetCompletedPieces"},
                 mailbox' = Append(mailbox, m)
          PROVE  <2>4
      BY <1>0, <3>2, OtherMessage
    <3>3. ASSUME NEW m \in GoodMsg, NEW n \in GoodMsg,
                 m.type \notin {"RequestWork", "GetCompletedPieces"},
                 n.type \notin {"RequestWork", "GetCompletedPieces"},
                 mailbox' = Append(Append(mailbox, m), n)
          PROVE  <2>4
      <4> TAKE t \in Session
      <4>1. /\ Count(Append(mailbox, m), Asks(t)) = Count(mailbox, Asks(t))
            /\ Count(Append(mailbox, m), Opens(t)) = Count(mailbox, Opens(t))
            /\ Append(mailbox, m) \in Seq(GoodMsg)
        BY <1>0, <3>3, OtherMessage
      <4> DEFINE q == Append(mailbox, m)
      <4>2. q \in Seq(GoodMsg) /\ mailbox' = Append(q, n)
        BY <3>3, <4>1
      <4> HIDE DEF q
      <4>3. /\ Count(Append(q, n), Asks(t)) = Count(q, Asks(t))
            /\ Count(Append(q, n), Opens(t)) = Count(q, Opens(t))
        BY <3>3, <4>2, OtherMessage
      <4> QED
        BY <4>1, <4>2, <4>3 DEF q
    <3> QED
      BY <1>1, <3>1, <3>2, <3>3, SessionMessages
  <2> QED
    BY <2>3, <2>4, SameAsked
<1>2. ASSUME NEW s \in Session, Connect(s) \/ MaybeRequestWork(s) PROVE AskedOnce'
  <2>1. PICK m \in GoodMsg :
           /\ Send(<<m>>) /\ m.from = s
           /\ \/ /\ m.type = "GetCompletedPieces"
                 /\ conn[s] = "down" /\ conn' = [conn EXCEPT ![s] = "opening"]
              \/ /\ m.type = "RequestWork"
                 /\ conn[s] = "up" /\ conn' = [conn EXCEPT ![s] = "asking"]
    <3>1. /\ Msg("GetCompletedPieces", s, NoPiece, {}) \in GoodMsg
          /\ Msg("RequestWork", s, NoPiece, have[s]) \in GoodMsg
      BY MessagesAreGood DEF TransferInv, TransferTypeOK
    <3>2. \A type, p, pieces : /\ Msg(type, s, p, pieces).type = type
                               /\ Msg(type, s, p, pieces).from = s
      BY DEF Msg
    <3> HIDE DEF GoodMsg, Msg
    <3> QED
      BY <1>2, <3>1, <3>2 DEF Connect, MaybeRequestWork
  <2>2. mailbox' = Append(mailbox, m)
    BY <2>1, SentMailbox
  <2>3. ASSUME NEW t \in Session
        PROVE  /\ Count(mailbox', Asks(t)) = One(conn'[t] = "asking")
               /\ Count(mailbox', Opens(t)) = One(conn'[t] = "opening")
    <3>1. /\ m \in Asks(t) <=> t = s /\ m.type = "RequestWork"
          /\ m \in Opens(t) <=> t = s /\ m.type = "GetCompletedPieces"
      BY <2>1 DEF Asks, Opens
    <3>2. /\ Count(mailbox', Asks(t)) = Count(mailbox, Asks(t)) + (IF m \in Asks(t) THEN 1 ELSE 0)
          /\ Count(mailbox', Opens(t)) = Count(mailbox, Opens(t)) + (IF m \in Opens(t) THEN 1 ELSE 0)
      BY <1>0, <2>2, CountAppend
    <3>3. /\ Count(mailbox, Asks(t)) = One(conn[t] = "asking")
          /\ Count(mailbox, Opens(t)) = One(conn[t] = "opening")
      BY DEF AskedOnce
    <3>4. CASE t # s
      BY <1>0, <2>1, <3>1, <3>2, <3>3, <3>4 DEF One
    <3>5. CASE t = s
      BY <1>0, <2>1, <3>1, <3>2, <3>3, <3>5 DEF One
    <3> QED
      BY <3>4, <3>5
  <2> QED
    BY <2>3 DEF AskedOnce
<1>3. CASE MailboxStep
  <2> DEFINE m == Head(mailbox)
             s == m.from
  <2>1. m \in GoodMsg /\ mailbox # <<>> /\ mailbox' = Tail(mailbox)
    BY <1>3, ReceiveEffect
  <2>2. s \in Session
    BY <2>1, GoodFields
  <2>3. \/ m.type = "GetCompletedPieces" /\ conn' = [conn EXCEPT ![s] = "greeting"]
        \/ m.type = "RequestWork" /\ conn' = [conn EXCEPT ![s] = "up"]
        \/ m.type \notin {"GetCompletedPieces", "RequestWork"} /\ conn' = conn
    BY <1>3 DEF MailboxStep, OnGetCompletedPieces, OnRequestWork, OnAvailability, OnPieceDownloaded,
                OnPieceFailed, Receive
  <2> HIDE DEF m
  <2>4. ASSUME NEW t \in Session
        PROVE  /\ Count(mailbox', Asks(t)) = One(conn'[t] = "asking")
               /\ Count(mailbox', Opens(t)) = One(conn'[t] = "opening")
    <3>1. /\ m \in Asks(t) <=> t = s /\ m.type = "RequestWork"
          /\ m \in Opens(t) <=> t = s /\ m.type = "GetCompletedPieces"
      BY <2>1 DEF Asks, Opens
    <3>2. /\ Count(mailbox, Asks(t)) = Count(mailbox', Asks(t)) + (IF m \in Asks(t) THEN 1 ELSE 0)
          /\ Count(mailbox, Opens(t)) = Count(mailbox', Opens(t)) + (IF m \in Opens(t) THEN 1 ELSE 0)
      BY <1>0, <2>1, CountTail DEF m
    <3>3. Count(mailbox', Asks(t)) \in Nat /\ Count(mailbox', Opens(t)) \in Nat
      <4>1. mailbox' \in Seq(GoodMsg)
        BY <1>3, ReceiveEffect
      <4> QED
        BY <4>1, CountIsNat
    <3>4. /\ Count(mailbox, Asks(t)) = One(conn[t] = "asking")
          /\ Count(mailbox, Opens(t)) = One(conn[t] = "opening")
      BY DEF AskedOnce
    <3>5. CASE t # s
      BY <1>0, <2>2, <2>3, <3>1, <3>2, <3>3, <3>4, <3>5 DEF One
    <3>6. CASE t = s
      BY <1>0, <2>2, <2>3, <3>1, <3>2, <3>3, <3>4, <3>6 DEF One
    <3> QED
      BY <3>5, <3>6
  <2> QED
    BY <2>4 DEF AskedOnce
<1>4. CASE \/ OnCheckTick \/ UNCHANGED vars
           \/ \E files \in FileSet : OnSetSelection(files)
           \/ \E value \in BOOLEAN : OnSetPaused(value)
  <2>1. UNCHANGED <<mailbox, conn>>
    BY <1>4 DEF OnCheckTick, OnSetSelection, OnSetPaused, sessionVars, vars
  <2> QED
    BY <2>1 DEF AskedOnce
<1> QED
  BY <1>1, <1>2, <1>3, <1>4 DEF Next

\* Every step keeps sessions without a connection idle.
LEMMA StepKeepsIdle ==
    ASSUME TransferInv, IdleUnlessUp, [Next]_vars
    PROVE  IdleUnlessUp'
<1>0. /\ conn \in [Session -> {"down", "opening", "greeting", "up", "asking", "closing"}]
      /\ job \in [Session -> 0 .. NumPieces]
  BY DEF TransferInv, TransferTypeOK
<1>1. ASSUME NEW s \in Session, SessionStep(s) PROVE IdleUnlessUp'
  <2>1. CASE Connect(s) \/ MaybeRequestWork(s)
    BY <1>0, <2>1 DEF Connect, MaybeRequestWork, IdleUnlessUp
  <2>2. CASE HandleEvent(s)
    <3>1. conn' = conn /\ \A t \in Session : job'[t] = job[t] \/ job'[t] = NoPiece
      BY <1>0, <2>2 DEF HandleEvent
    <3> QED
      BY <3>1 DEF IdleUnlessUp
  <2>3. CASE \/ \E choking \in BOOLEAN : HandleChoke(s, choking)
             \/ \E p \in Haves : HandleHave(s, p)
             \/ \E pieces \in Bitfields : HandleBitfield(s, pieces)
    BY <2>3 DEF HandleChoke, HandleHave, HandleBitfield, IdleUnlessUp
  <2>4. CASE Greet(s) \/ PieceCompletes(s) \/ HashMismatch(s) \/ GiveBackChokedJob(s) \/ SessionEnds(s)
             \/ FinishJob(s)
    BY <1>0, <2>4 DEF Greet, PieceCompletes, HashMismatch, GiveBackChokedJob, SessionEnds, FinishJob,
                      IdleUnlessUp
  <2>5. CASE FinishPeer(s) \/ Abort(s)
    <3>1. /\ conn' = [conn EXCEPT ![s] = "down"] /\ job' = [job EXCEPT ![s] = NoPiece]
      BY <2>5 DEF FinishPeer, Abort, Gone
    <3> QED
      BY <1>0, <3>1 DEF IdleUnlessUp
  <2> QED
    BY <1>1, <2>1, <2>2, <2>3, <2>4, <2>5 DEF SessionStep
<1>2. CASE OnGetCompletedPieces \/ OnRequestWork
  <2>1. Head(mailbox).from \in Session
    <3>1. Head(mailbox) \in GoodMsg
      BY <1>2, ReceiveEffect DEF MailboxStep
    <3> QED
      BY <3>1, GoodFields
  <2> DEFINE s == Head(mailbox).from
  <2>2. /\ conn' = [conn EXCEPT ![s] = "greeting"] \/ conn' = [conn EXCEPT ![s] = "up"]
        /\ \A t \in Session : t # s => job'[t] = job[t]
    BY <1>0, <1>2 DEF OnGetCompletedPieces, OnRequestWork
  <2> HIDE DEF s
  <2> QED
    BY <1>0, <2>1, <2>2 DEF IdleUnlessUp, s
<1>3. CASE \/ OnAvailability \/ OnPieceDownloaded \/ OnPieceFailed \/ OnCheckTick \/ UNCHANGED vars
           \/ \E files \in FileSet : OnSetSelection(files)
           \/ \E value \in BOOLEAN : OnSetPaused(value)
  <2>1. UNCHANGED <<conn, job>>
    BY <1>3 DEF OnAvailability, OnPieceDownloaded, OnPieceFailed, OnCheckTick, OnSetSelection,
                OnSetPaused, sessionVars, vars
  <2> QED
    BY <2>1 DEF IdleUnlessUp
<1> QED
  BY <1>1, <1>2, <1>3 DEF Next, MailboxStep

-----------------------------------------------------------------------------
(* Reservations, while the selection stays as it is and no session is      *)
(* aborted: after an abort nobody gives the piece back, and after a change *)
(* of the selection a late PieceCompleted makes a session drop a piece it  *)
(* has been given again.                                                   *)

Undisturbed == MaxEdits = 0 /\ "abort" \notin Behaviours

\* What the sessions are told is still so when they hear it.
EventsTrue ==
    \A s \in Session : \A i \in DOMAIN events[s] :
        events[s][i].type = "PieceCompleted" => events[s][i].piece \in completed

\* The selection does not change.
LEMMA NoEdits ==
    ASSUME MaxEdits = 0, TransferInv, NEW files, OnSetSelection(files)
    PROVE  FALSE
BY DEF OnSetSelection, TransferInv, TransferTypeOK

\* So a completed piece stays completed.
LEMMA CompletedStays ==
    ASSUME MaxEdits = 0, TransferInv, [Next]_vars
    PROVE  completed \subseteq completed'
<1>1. CASE OnCheckTick
  BY <1>1 DEF OnCheckTick, CheckTick, MarkCompleted, managerVars
<1>2. CASE OnPieceDownloaded
  BY <1>2 DEF OnPieceDownloaded, PieceDownloaded, MarkCompleted, ReturnWork, coordinatorVars, managerVars
<1>3. CASE OnRequestWork
  BY <1>3 DEF OnRequestWork, RequestWork, NextWorkFor, NoWorkFor, managerVars
<1>4. CASE OnAvailability
  BY <1>4 DEF OnAvailability, PeerBitfield, PeerHave, PeerGone, AddPeerPieces, RemovePeerPieces
<1>5. CASE OnPieceFailed
  BY <1>5 DEF OnPieceFailed, PieceFailed, ReturnWork, managerVars
<1>6. CASE OnGetCompletedPieces \/ UNCHANGED vars \/ \E value \in BOOLEAN : OnSetPaused(value)
  BY <1>6 DEF OnGetCompletedPieces, OnSetPaused, SetPaused, vars, coordinatorVars, managerVars
<1>7. ASSUME NEW s \in Session, SessionStep(s) PROVE completed' = completed
  BY <1>7, SessionSends DEF coordinatorVars, managerVars
<1> QED
  BY <1>1, <1>2, <1>3, <1>4, <1>5, <1>6, <1>7, NoEdits DEF Next, MailboxStep

\* Events stay true while they wait.
LEMMA StepKeepsEventsTrue ==
    ASSUME MaxEdits = 0, TransferInv, EventsTrue, [Next]_vars
    PROVE  EventsTrue'
<1>0. events \in [Session -> Seq(EventType)] /\ completed \subseteq completed'
  BY CompletedStays DEF TransferInv, TransferTypeOK
<1>1. ASSUME NEW s \in Session, SessionStep(s) PROVE EventsTrue'
  <2>1. ASSUME NEW t \in Session, NEW i \in DOMAIN events'[t]
        PROVE  \E j \in DOMAIN events[t] : events'[t][i] = events[t][j]
    <3>1. CASE HandleEvent(s)
      <4>1. events[s] # <<>> /\ events' = [events EXCEPT ![s] = Tail(@)]
        BY <3>1 DEF HandleEvent
      <4>2. CASE t = s
        <5> DEFINE q == events[s]
        <5>1. q \in Seq(EventType) /\ q # <<>> /\ events'[s] = Tail(q)
          BY <1>0, <4>1
        <5> HIDE DEF q, EventType
        <5>2. i + 1 \in DOMAIN q /\ Tail(q)[i] = q[i + 1]
          BY <2>1, <4>2, <5>1
        <5> QED
          BY <4>2, <5>1, <5>2 DEF q
      <4>3. CASE t # s
        BY <1>0, <2>1, <4>1, <4>3
      <4> QED
        BY <4>2, <4>3
    <3>2. CASE FinishPeer(s) \/ Abort(s)
      <4>1. events' = [events EXCEPT ![s] = <<>>]
        BY <3>2 DEF FinishPeer, Abort, Gone
      <4>2. t # s /\ events'[t] = events[t]
        BY <1>0, <2>1, <4>1
      <4> QED
        BY <2>1, <4>2
    <3>3. CASE events' = events
      BY <2>1, <3>3
    <3> QED
      BY <1>1, <3>1, <3>2, <3>3 DEF SessionStep, Connect, Greet, MaybeRequestWork, HandleChoke, HandleHave,
         HandleBitfield, PieceCompletes, HashMismatch, GiveBackChokedJob, SessionEnds, FinishJob
  <2> QED
    BY <1>0, <2>1 DEF EventsTrue
<1>2. ASSUME NEW new \in Seq(TrueEvent(completed')), Broadcast(new) PROVE EventsTrue'
  <2>1. new \in Seq(EventType)
    BY EventTypes
  <2>2. \A k \in DOMAIN new : new[k].type = "PieceCompleted" => new[k].piece \in completed'
    <3>1. \A k \in DOMAIN new : new[k] \in TrueEvent(completed')
      <4> HIDE DEF TrueEvent
      <4> QED
        OBVIOUS
    <3> QED
      BY <3>1 DEF TrueEvent
  <2>3. \A s \in Session : \A i \in DOMAIN events'[s] :
                \/ \E j \in DOMAIN events[s] : events'[s][i] = events[s][j]
                \/ \E k \in DOMAIN new : events'[s][i] = new[k]
    BY <1>2, <2>1, BroadcastEvents
  <2>4. ASSUME NEW s \in Session, NEW i \in DOMAIN events'[s],
               events'[s][i].type = "PieceCompleted"
        PROVE  events'[s][i].piece \in completed'
    <3>1. CASE \E j \in DOMAIN events[s] : events'[s][i] = events[s][j]
      BY <1>0, <2>4, <3>1 DEF EventsTrue
    <3>2. CASE \E k \in DOMAIN new : events'[s][i] = new[k]
      BY <2>2, <2>4, <3>2
    <3> QED
      BY <2>3, <2>4, <3>1, <3>2
  <2> QED
    BY <2>4 DEF EventsTrue
<1>3. CASE events' = events
  BY <1>0, <1>3 DEF EventsTrue
<1> QED
  BY <1>1, <1>2, <1>3, BroadcastsAreTrue DEF Next

\* The pieces on their way back.
Returns(p) == {m \in GoodMsg : m.type \in {"PieceDownloaded", "PieceFailed"} /\ m.piece = p}

\* Pending counts them.
LEMMA PendingIsCount ==
    ASSUME TransferInv, NEW p
    PROVE  Cardinality(Pending(p)) = Count(mailbox, Returns(p))
<1>1. \A i \in DOMAIN mailbox : mailbox[i] \in GoodMsg
  <2>1. mailbox \in Seq(GoodMsg)
    BY DEF TransferInv
  <2> HIDE DEF GoodMsg
  <2> QED
    BY <2>1
<1>2. Pending(p) = {i \in DOMAIN mailbox : mailbox[i] \in Returns(p)}
  BY <1>1 DEF Pending, Returns
<1> QED
  BY <1>2 DEF Count

\* Two sets of sessions that differ in one session at most.
LEMMA OneMember ==
    ASSUME NEW A \in SUBSET Session, NEW B \in SUBSET Session, NEW s, A \ {s} = B \ {s}
    PROVE  /\ Cardinality(A) \in Nat /\ Cardinality(B) \in Nat
           /\ (s \in A <=> s \in B) => Cardinality(B) = Cardinality(A)
           /\ s \in A /\ s \notin B => Cardinality(B) = Cardinality(A) - 1
           /\ s \notin A /\ s \in B => Cardinality(B) = Cardinality(A) + 1
<1>1. IsFiniteSet(A) /\ IsFiniteSet(B)
  BY FS_Subset, SessionsAssumption
<1>2. Cardinality(A) \in Nat /\ Cardinality(B) \in Nat
  BY <1>1, FS_CardinalityType
<1>3. /\ Cardinality(A \ {s}) = IF s \in A THEN Cardinality(A) - 1 ELSE Cardinality(A)
      /\ Cardinality(B \ {s}) = IF s \in B THEN Cardinality(B) - 1 ELSE Cardinality(B)
  BY <1>1, FS_RemoveElement
<1>4. Cardinality(A \ {s}) = Cardinality(B \ {s})
  OBVIOUS
<1> DEFINE a == Cardinality(A)
           b == Cardinality(B)
           c == Cardinality(A \ {s})
<1>5. /\ a \in Nat /\ b \in Nat
      /\ c = (IF s \in A THEN a - 1 ELSE a) /\ c = (IF s \in B THEN b - 1 ELSE b)
  BY <1>2, <1>3, <1>4
<1> HIDE DEF a, b, c
<1>6. /\ (s \in A <=> s \in B) => b = a
      /\ s \in A /\ s \notin B => b = a - 1
      /\ s \notin A /\ s \in B => b = a + 1
  BY <1>5
<1> QED
  BY <1>5, <1>6 DEF a, b

\* Who fetches a piece, given the jobs.
Fetches(jobs, p) == {s \in Session : jobs[s] = p}

\* One session changes its job.
LEMMA JobChange ==
    ASSUME NEW s \in Session, \A t \in Session : t # s => job'[t] = job[t], NEW p
    PROVE  /\ Cardinality(Fetches(job, p)) \in Nat /\ Cardinality(Fetches(job', p)) \in Nat
           /\ (job[s] = p <=> job'[s] = p) => Cardinality(Fetches(job', p)) = Cardinality(Fetches(job, p))
           /\ job[s] = p /\ job'[s] # p => Cardinality(Fetches(job', p)) = Cardinality(Fetches(job, p)) - 1
           /\ job[s] # p /\ job'[s] = p => Cardinality(Fetches(job', p)) = Cardinality(Fetches(job, p)) + 1
<1> DEFINE A == Fetches(job, p)
           B == Fetches(job', p)
<1>1. A \in SUBSET Session /\ B \in SUBSET Session
  BY DEF Fetches
<1>2. /\ s \in A <=> job[s] = p
      /\ s \in B <=> job'[s] = p
      /\ A \ {s} = B \ {s}
  BY DEF Fetches
<1> HIDE DEF A, B
<1>3. /\ Cardinality(A) \in Nat /\ Cardinality(B) \in Nat
      /\ (s \in A <=> s \in B) => Cardinality(B) = Cardinality(A)
      /\ s \in A /\ s \notin B => Cardinality(B) = Cardinality(A) - 1
      /\ s \notin A /\ s \in B => Cardinality(B) = Cardinality(A) + 1
  BY <1>1, <1>2, OneMember
<1> QED
  BY <1>2, <1>3 DEF A, B

\* A message that gives no piece back.
LEMMA NotReturned ==
    ASSUME NEW q \in Seq(GoodMsg), NEW m \in GoodMsg,
           m.type \notin {"PieceDownloaded", "PieceFailed"}, NEW p
    PROVE  /\ Count(Append(q, m), Returns(p)) = Count(q, Returns(p))
           /\ Append(q, m) \in Seq(GoodMsg)
<1>1. m \notin Returns(p)
  BY DEF Returns
<1>2. Count(q, Returns(p)) \in Nat
  BY CountIsNat
<1>3. Append(q, m) \in Seq(GoodMsg)
  <2> HIDE DEF GoodMsg
  <2> QED
    OBVIOUS
<1> HIDE DEF GoodMsg
<1> QED
  BY <1>1, <1>2, <1>3, CountAppend

\* One that does.
LEMMA Returned ==
    ASSUME NEW q \in Seq(GoodMsg), NEW m \in GoodMsg,
           m.type \in {"PieceDownloaded", "PieceFailed"}, NEW p
    PROVE  Count(Append(q, m), Returns(p)) = Count(q, Returns(p)) + One(m.piece = p)
<1>1. m \in Returns(p) <=> m.piece = p
  BY DEF Returns
<1>2. Count(q, Returns(p)) \in Nat
  BY CountIsNat
<1> HIDE DEF GoodMsg
<1> QED
  BY <1>1, <1>2, CountAppend DEF One

\* A session step leaves the job alone, drops a piece that is completed, or gives the
\* piece back to the coordinator.
LEMMA SessionJob ==
    ASSUME TransferInv, EventsTrue, "abort" \notin Behaviours, NEW s \in Session, SessionStep(s)
    PROVE  \E v \in {job[s], NoPiece} :
             /\ job' = [job EXCEPT ![s] = v]
             /\ \/ /\ v = job[s] \/ job[s] \in completed
                   /\ \A p : Count(mailbox', Returns(p)) = Count(mailbox, Returns(p))
                \/ /\ v = NoPiece /\ job[s] # NoPiece
                   /\ \A p : Count(mailbox', Returns(p)) = Count(mailbox, Returns(p)) + One(job[s] = p)
<1>0. /\ job \in [Session -> 0 .. NumPieces] /\ events \in [Session -> Seq(EventType)]
      /\ mailbox \in Seq(GoodMsg) /\ have[s] \in SUBSET Piece
  BY DEF TransferInv, TransferTypeOK
<1>1. job = [job EXCEPT ![s] = job[s]]
  BY <1>0
<1>2. \A type, p, pieces : /\ Msg(type, s, p, pieces).type = type
                           /\ Msg(type, s, p, pieces).piece = p
  BY DEF Msg
<1>3. /\ Msg("GetCompletedPieces", s, NoPiece, {}) \in GoodMsg
      /\ Msg("RequestWork", s, NoPiece, have[s]) \in GoodMsg
      /\ Msg("PeerGone", s, NoPiece, have[s]) \in GoodMsg
      /\ \A p \in Piece : Msg("PeerHave", s, p, {}) \in GoodMsg
      /\ \A pieces \in SUBSET Piece : Msg("PeerBitfield", s, NoPiece, pieces) \in GoodMsg
      /\ job[s] # NoPiece => /\ Msg("PieceDownloaded", s, job[s], {}) \in GoodMsg
                             /\ Msg("PieceFailed", s, job[s], {}) \in GoodMsg
  BY <1>0, MessagesAreGood, JobIsPiece DEF PieceMsg
<1> DEFINE Keeps == \A p : Count(mailbox', Returns(p)) = Count(mailbox, Returns(p))
           Gives == \A p : Count(mailbox', Returns(p)) = Count(mailbox, Returns(p)) + One(job[s] = p)
           Quiet == {m \in GoodMsg : m.type \notin {"PieceDownloaded", "PieceFailed"}}
<1>4. /\ Send(<<>>) => Keeps
      /\ \A m \in Quiet : Send(<<m>>) => Keeps
      /\ \A m, n \in Quiet : Send(<<m>> \o <<n>>) => Keeps
  <2>1. Send(<<>>) => Keeps
    BY SentMailbox
  <2>2. ASSUME NEW m \in Quiet, Send(<<m>>) PROVE Keeps
    <3>1. mailbox' = Append(mailbox, m)
      BY <2>2, SentMailbox
    <3> QED
      BY <1>0, <3>1, NotReturned
  <2>3. ASSUME NEW m \in Quiet, NEW n \in Quiet, Send(<<m>> \o <<n>>) PROVE Keeps
    <3>1. mailbox' = Append(Append(mailbox, m), n)
      BY <2>3, SentMailbox
    <3> DEFINE q == Append(mailbox, m)
    <3>2. q \in Seq(GoodMsg) /\ \A p : Count(q, Returns(p)) = Count(mailbox, Returns(p))
      BY <1>0, NotReturned
    <3>3. mailbox' = Append(q, n)
      BY <3>1
    <3> HIDE DEF q
    <3>4. \A p : Count(Append(q, n), Returns(p)) = Count(q, Returns(p))
      BY <3>2, NotReturned
    <3> QED
      BY <3>2, <3>3, <3>4
  <2> QED
    BY <2>1, <2>2, <2>3
<1>5. ASSUME job[s] # NoPiece,
             \/ Send(<<Msg("PieceDownloaded", s, job[s], {})>>)
             \/ Send(<<Msg("PieceFailed", s, job[s], {})>>)
      PROVE  Gives
  <2>1. PICK m \in GoodMsg : /\ Send(<<m>>) /\ m.piece = job[s]
                             /\ m.type \in {"PieceDownloaded", "PieceFailed"}
    BY <1>2, <1>3, <1>5
  <2>2. mailbox' = Append(mailbox, m)
    BY <2>1, SentMailbox
  <2> QED
    BY <1>0, <2>1, <2>2, Returned
<1>6. /\ Msg("GetCompletedPieces", s, NoPiece, {}) \in Quiet
      /\ Msg("RequestWork", s, NoPiece, have[s]) \in Quiet
      /\ Msg("PeerGone", s, NoPiece, have[s]) \in Quiet
      /\ \A p \in Piece : Msg("PeerHave", s, p, {}) \in Quiet
      /\ \A pieces \in SUBSET Piece : Msg("PeerBitfield", s, NoPiece, pieces) \in Quiet
  <2> HIDE DEF GoodMsg, Msg
  <2> QED
    BY <1>2, <1>3
<1> HIDE DEF Keeps, Gives, Quiet, GoodMsg, Msg
<1>7. \E v \in {job[s], NoPiece} :
         /\ job' = [job EXCEPT ![s] = v]
         /\ \/ (v = job[s] \/ job[s] \in completed) /\ Keeps
            \/ v = NoPiece /\ job[s] # NoPiece /\ Gives
  <2>1. CASE Connect(s) \/ MaybeRequestWork(s)
    BY <1>1, <1>4, <1>6, <2>1 DEF Connect, MaybeRequestWork
  <2>2. CASE HandleEvent(s)
    <3> DEFINE e == Head(events[s])
               v == IF e.type = "PieceCompleted" /\ e.piece = job[s] THEN NoPiece ELSE job[s]
    <3>1. events[s] # <<>> /\ mailbox' = mailbox /\ job' = [job EXCEPT ![s] = v]
      BY <1>0, <2>2 DEF HandleEvent
    <3>2. e.type = "PieceCompleted" => e.piece \in completed
      <4> DEFINE q == events[s]
      <4>1. q \in Seq(EventType) /\ q # <<>>
        BY <1>0, <3>1
      <4> HIDE DEF q, EventType
      <4>2. 1 \in DOMAIN q /\ Head(q) = q[1]
        BY <4>1
      <4> QED
        BY <4>2 DEF EventsTrue, q
    <3>3. v \in {job[s], NoPiece} /\ (v = job[s] \/ job[s] \in completed)
      BY <3>2
    <3>4. Keeps
      BY <3>1 DEF Keeps
    <3> HIDE DEF v
    <3> QED
      BY <3>1, <3>3, <3>4
  <2>3. CASE \/ \E choking \in BOOLEAN : HandleChoke(s, choking)
             \/ Greet(s) \/ SessionEnds(s)
    BY <1>1, <2>3 DEF HandleChoke, Greet, SessionEnds, Keeps
  <2>4. ASSUME NEW p \in Haves, HandleHave(s, p) PROVE <1>7!:
    BY <1>1, <1>4, <1>6, <2>4, BitfieldsAssumption DEF HandleHave
  <2>5. ASSUME NEW pieces \in Bitfields, HandleBitfield(s, pieces) PROVE <1>7!:
    <3> DEFINE n == Msg("PeerBitfield", s, NoPiece, pieces)
    <3>1. n \in Quiet
      BY <1>6, BitfieldsAssumption
    <3>2. Send(Withdraw(s) \o <<n>>) /\ job' = job
      BY <2>5 DEF HandleBitfield
    <3>3. <<>> \o <<n>> = <<n>>
      OBVIOUS
    <3> HIDE DEF n
    <3>4. Keeps
      BY <1>4, <1>6, <3>1, <3>2, <3>3 DEF Withdraw
    <3> QED
      BY <1>1, <3>2, <3>4
  <2>6. CASE PieceCompletes(s) \/ HashMismatch(s) \/ GiveBackChokedJob(s) \/ FinishJob(s)
    <3>1. Gives /\ job[s] # NoPiece /\ job' = [job EXCEPT ![s] = NoPiece]
      BY <1>5, <2>6 DEF PieceCompletes, HashMismatch, GiveBackChokedJob, FinishJob, GiveBack
    <3> QED
      BY <3>1
  <2>7. CASE FinishPeer(s)
    <3>1. job' = [job EXCEPT ![s] = NoPiece] /\ job[s] = NoPiece /\ Send(Withdraw(s))
      BY <2>7 DEF FinishPeer, Gone
    <3>2. Keeps
      BY <1>4, <1>6, <3>1 DEF Withdraw
    <3> QED
      BY <3>1, <3>2
  <2>8. CASE Abort(s)
    BY <2>8 DEF Abort
  <2> QED
    BY <2>1, <2>2, <2>3, <2>4, <2>5, <2>6, <2>7, <2>8 DEF SessionStep
<1> QED
  BY <1>7 DEF Keeps, Gives

\* Nobody fetches while the files are being checked.
NothingFetched ==
    phase = "checking" => /\ \A s \in Session : job[s] = NoPiece
                          /\ \A p \in Piece : Count(mailbox, Returns(p)) = 0

\* ReservationsExact, in the terms of this module.
ReservedExact ==
    \A p \in Piece \ completed :
        in_progress[p] = Cardinality(Fetching(p)) + Count(mailbox, Returns(p))

ReservedInv ==
    /\ TransferInv
    /\ AskedOnce
    /\ IdleUnlessUp
    /\ EventsTrue
    /\ NothingFetched
    /\ ReservedExact

\* What the coordinator's steps do to the messages on their way back.
LEMMA ReceivedReturn ==
    ASSUME TransferInv, MailboxStep, NEW p
    PROVE  /\ Count(mailbox', Returns(p)) \in Nat
           /\ Count(mailbox, Returns(p)) = Count(mailbox', Returns(p))
                + One(/\ Head(mailbox).type \in {"PieceDownloaded", "PieceFailed"}
                      /\ Head(mailbox).piece = p)
<1> DEFINE m == Head(mailbox)
<1>1. /\ mailbox # <<>> /\ m \in GoodMsg /\ mailbox' = Tail(mailbox)
      /\ mailbox \in Seq(GoodMsg) /\ mailbox' \in Seq(GoodMsg)
  BY ReceiveEffect DEF TransferInv
<1>2. Count(mailbox, Returns(p)) = Count(Tail(mailbox), Returns(p)) + (IF m \in Returns(p) THEN 1 ELSE 0)
  BY <1>1, CountTail
<1>3. Count(mailbox', Returns(p)) \in Nat
  BY <1>1, CountIsNat
<1> HIDE DEF m
<1>4. m \in Returns(p) <=> m.type \in {"PieceDownloaded", "PieceFailed"} /\ m.piece = p
  BY <1>1 DEF Returns
<1> QED
  BY <1>1, <1>2, <1>3, <1>4 DEF One, m

\* The file check does not start again.
LEMMA CheckNotResumed ==
    ASSUME TransferInv, [Next]_vars, phase' = "checking"
    PROVE  phase = "checking"
<1>1. CASE OnCheckTick
  BY <1>1 DEF OnCheckTick, CheckTick
<1>2. CASE OnPieceDownloaded
  BY <1>2 DEF OnPieceDownloaded, PieceDownloaded, coordinatorVars, controlVars
<1>3. CASE OnGetCompletedPieces \/ OnRequestWork \/ OnAvailability \/ OnPieceFailed \/ UNCHANGED vars
           \/ \E value \in BOOLEAN : OnSetPaused(value)
  BY <1>3 DEF OnGetCompletedPieces, OnRequestWork, OnAvailability, OnPieceFailed, OnSetPaused,
              SetPaused, RequestWork, PeerBitfield, PeerHave, PeerGone, PieceFailed,
              coordinatorVars, controlVars, vars
<1>4. ASSUME NEW files \in FileSet, OnSetSelection(files) PROVE phase' = phase
  BY <1>4 DEF OnSetSelection, SetSelection
<1>5. ASSUME NEW s \in Session, SessionStep(s) PROVE phase' = phase
  BY <1>5, SessionSends DEF coordinatorVars, controlVars
<1> QED
  BY <1>1, <1>2, <1>3, <1>4, <1>5 DEF Next, MailboxStep

\* During the file check no reservation is made.
LEMMA StepKeepsNothingFetched ==
    ASSUME "abort" \notin Behaviours, ReservedInv, [Next]_vars
    PROVE  NothingFetched'
<1> SUFFICES ASSUME phase' = "checking"
             PROVE  /\ \A s \in Session : job'[s] = NoPiece
                    /\ \A p \in Piece : Count(mailbox', Returns(p)) = 0
  BY DEF NothingFetched
<1>0. job \in [Session -> 0 .. NumPieces] /\ TransferInv
  BY DEF ReservedInv, TransferInv, TransferTypeOK
<1>1. phase = "checking"
  BY <1>0, CheckNotResumed
<1>2. /\ \A s \in Session : job[s] = NoPiece
      /\ \A p \in Piece : Count(mailbox, Returns(p)) = 0
  BY <1>1 DEF ReservedInv, NothingFetched
<1>3. ASSUME NEW s \in Session, SessionStep(s)
      PROVE  /\ \A t \in Session : job'[t] = NoPiece
             /\ \A p \in Piece : Count(mailbox', Returns(p)) = 0
  <2>1. \E v \in {job[s], NoPiece} :
             /\ job' = [job EXCEPT ![s] = v]
             /\ \/ \A p : Count(mailbox', Returns(p)) = Count(mailbox, Returns(p))
                \/ job[s] # NoPiece
    BY <1>3, SessionJob DEF ReservedInv
  <2> QED
    BY <1>0, <1>2, <2>1
<1>4. CASE MailboxStep
  <2>1. \A p \in Piece : Count(mailbox', Returns(p)) = 0
    <3> TAKE p \in Piece
    <3>1. /\ Count(mailbox', Returns(p)) \in Nat
          /\ \E k \in {0, 1} : Count(mailbox, Returns(p)) = Count(mailbox', Returns(p)) + k
      BY <1>0, <1>4, ReceivedReturn DEF One
    <3> QED
      BY <1>2, <3>1
  <2>2. job' = job \/ \E s : job' = [job EXCEPT ![s] = NoPiece]
    BY <1>1, <1>4 DEF MailboxStep, OnGetCompletedPieces, OnRequestWork, OnAvailability,
       OnPieceDownloaded, OnPieceFailed, RequestWork, Downloading
  <2> QED
    BY <1>0, <1>2, <2>1, <2>2
<1>5. CASE \/ OnCheckTick \/ UNCHANGED vars
           \/ \E files \in FileSet : OnSetSelection(files)
           \/ \E value \in BOOLEAN : OnSetPaused(value)
  <2>1. UNCHANGED <<mailbox, job>>
    BY <1>5 DEF OnCheckTick, OnSetSelection, OnSetPaused, sessionVars, vars
  <2> QED
    BY <1>2, <2>1
<1> QED
  BY <1>3, <1>4, <1>5 DEF Next

\* Cardinalities of the sets of sessions that fetch a piece.
LEMMA FetchingCount ==
    ASSUME NEW p
    PROVE  Cardinality(Fetching(p)) \in Nat
<1>1. Fetching(p) \in SUBSET Session
  BY DEF Fetching
<1> QED
  BY <1>1, SessionsAssumption, FS_Subset, FS_CardinalityType

\* The session whose request is read waits for the reply.
LEMMA HeadAsks ==
    ASSUME TransferInv, AskedOnce, OnRequestWork
    PROVE  Head(mailbox).from \in Session /\ conn[Head(mailbox).from] = "asking"
<1> DEFINE m == Head(mailbox)
           s == m.from
<1>0. mailbox \in Seq(GoodMsg) /\ mailbox # <<>>
  BY DEF TransferInv, OnRequestWork, Receive
<1>1. m \in GoodMsg /\ m.type = "RequestWork"
  BY ReceiveEffect DEF OnRequestWork, MailboxStep, Receive
<1>2. s \in Session /\ m \in Asks(s)
  BY <1>1, GoodFields DEF Asks
<1>3. m = mailbox[1] /\ 1 \in DOMAIN mailbox
  <2> HIDE DEF GoodMsg
  <2> QED
    BY <1>0
<1> HIDE DEF m, s, GoodMsg
<1>4. mailbox[1] \in Asks(s)
  BY <1>2, <1>3
<1>5. Count(mailbox, Asks(s)) = 0 <=> \A i \in DOMAIN mailbox : mailbox[i] \notin Asks(s)
  BY <1>0, CountIsNat
<1>6. conn[s] = "asking"
  BY <1>2, <1>3, <1>4, <1>5 DEF AskedOnce, One
<1> QED
  BY <1>2, <1>6 DEF s, m

\* A session that asks for work is idle and gets at most one piece; the piece is not
\* completed and has one holder more.
LEMMA WorkAssigned ==
    ASSUME ReservedInv, OnRequestWork
    PROVE  \E s \in Session, reply \in 0 .. NumPieces :
             /\ job[s] = NoPiece /\ job' = [job EXCEPT ![s] = reply]
             /\ completed' = completed
             /\ \A p \in Piece : in_progress'[p] = in_progress[p] + One(reply = p)
<1> DEFINE m == Head(mailbox)
           s == m.from
<1>0. /\ TransferInv /\ ManagerInv /\ mailbox \in Seq(GoodMsg) /\ mailbox # <<>>
      /\ in_progress \in [Piece -> 0 .. MaxHolders] /\ MaxHolders \in Nat
      /\ MissingIsUnassigned
  BY MaxHoldersAssumption DEF ReservedInv, TransferInv, ManagerInv, TypeOK, OnRequestWork, Receive
<1>1. m \in GoodMsg /\ m.type = "RequestWork"
  BY <1>0, ReceiveEffect DEF OnRequestWork, MailboxStep, Receive
<1>2. s \in Session
  BY <1>1, GoodFields
<1>3. PICK reply \in 0 .. NumPieces : RequestWork(m.pieces, reply) /\ job' = [job EXCEPT ![s] = reply]
  BY DEF OnRequestWork
<1>4. conn[s] = "asking"
  BY HeadAsks DEF ReservedInv
<1>5. job[s] = NoPiece
  BY <1>2, <1>4 DEF ReservedInv, IdleUnlessUp
<1> HIDE DEF m, s
<1>6. completed' = completed /\ \A p \in Piece : in_progress'[p] = in_progress[p] + One(reply = p)
  <2>1. CASE reply = NoPiece /\ (NoWorkFor(m.pieces) \/ UNCHANGED managerVars)
    <3>1. \A p \in Piece : reply # p
      BY <2>1, NumPiecesAssumption DEF NoPiece, Piece
    <3>2. completed' = completed /\ in_progress' = in_progress
      BY <2>1 DEF NoWorkFor, managerVars
    <3> QED
      BY <1>0, <3>1, <3>2 DEF One
  <2>2. CASE reply \in Piece /\ AssignUnassigned(m.pieces, reply) /\ completed' = completed
    <3>1. reply \in missing
      BY <1>0, <2>2, PurgedIsOpen DEF AssignUnassigned, Rarest
    <3>2. in_progress[reply] = 0
      BY <1>0, <2>2, <3>1 DEF MissingIsUnassigned, Held
    <3> QED
      BY <1>0, <2>2, <3>2 DEF AssignUnassigned, One
  <2>3. CASE reply \in Piece /\ AssignEndgame(m.pieces, reply) /\ completed' = completed
    BY <1>0, <2>3 DEF AssignEndgame, One
  <2> QED
    BY <1>3, <2>1, <2>2, <2>3 DEF RequestWork, NextWorkFor
<1> QED
  BY <1>2, <1>3, <1>5, <1>6

\* The coordinator's step, for one piece that is open before and after it.
LEMMA StepKeepsReserved ==
    ASSUME Undisturbed, ReservedInv, [Next]_vars
    PROVE  ReservedExact'
<1> SUFFICES ASSUME NEW p \in Piece, p \notin completed'
             PROVE  in_progress'[p] = Cardinality(Fetches(job', p)) + Count(mailbox', Returns(p))
  BY DEF ReservedExact, Fetches, Fetching
<1>0. /\ TransferInv /\ job \in [Session -> 0 .. NumPieces] /\ mailbox \in Seq(GoodMsg)
      /\ in_progress \in [Piece -> 0 .. MaxHolders] /\ MaxHolders \in Nat
      /\ "abort" \notin Behaviours /\ MaxEdits = 0
  BY MaxHoldersAssumption DEF ReservedInv, TransferInv, TransferTypeOK, ManagerInv, TypeOK, Undisturbed
<1>1. p \notin completed
  BY <1>0, CompletedStays
<1> DEFINE F == Cardinality(Fetches(job, p))
           R == Count(mailbox, Returns(p))
<1>2. F \in Nat /\ R \in Nat /\ in_progress[p] = F + R
  BY <1>0, <1>1, FetchingCount, CountIsNat DEF ReservedInv, ReservedExact, Fetches, Fetching
<1>3. p # NoPiece
  BY NumPiecesAssumption DEF NoPiece, Piece
<1>4. job' = job => Cardinality(Fetches(job', p)) = F
  BY DEF Fetches
<1> HIDE DEF F, R
<1>5. ASSUME NEW s \in Session, SessionStep(s)
      PROVE  in_progress'[p] = Cardinality(Fetches(job', p)) + Count(mailbox', Returns(p))
  <2>1. in_progress' = in_progress
    BY <1>0, <1>5, SessionSends DEF coordinatorVars, managerVars
  <2>2. PICK v \in {job[s], NoPiece} :
             /\ job' = [job EXCEPT ![s] = v]
             /\ \/ /\ v = job[s] \/ job[s] \in completed
                   /\ Count(mailbox', Returns(p)) = R
                \/ /\ v = NoPiece /\ job[s] # NoPiece
                   /\ Count(mailbox', Returns(p)) = R + One(job[s] = p)
    BY <1>0, <1>5, SessionJob DEF ReservedInv, R
  <2> DEFINE F2 == Cardinality(Fetches(job', p))
  <2>3. job'[s] = v /\ \A t \in Session : t # s => job'[t] = job[t]
    BY <1>0, <2>2
  <2>4. /\ F2 \in Nat
        /\ (job[s] = p <=> v = p) => F2 = F
        /\ job[s] = p /\ v # p => F2 = F - 1
    BY <2>3, JobChange DEF F
  <2> HIDE DEF F2
  <2>5. CASE (v = job[s] \/ job[s] \in completed) /\ Count(mailbox', Returns(p)) = R
    <3>1. job[s] = p <=> v = p
      BY <1>1, <1>3, <2>2, <2>5
    <3> QED
      BY <1>2, <2>1, <2>4, <2>5, <3>1 DEF F2
  <2>6. CASE v = NoPiece /\ job[s] = p /\ Count(mailbox', Returns(p)) = R + One(job[s] = p)
    <3>1. F2 = F - 1 /\ Count(mailbox', Returns(p)) = R + 1
      BY <1>3, <2>4, <2>6 DEF One
    <3> QED
      BY <1>2, <2>1, <2>4, <3>1 DEF F2
  <2>7. CASE v = NoPiece /\ job[s] # p /\ Count(mailbox', Returns(p)) = R + One(job[s] = p)
    <3>1. F2 = F /\ Count(mailbox', Returns(p)) = R
      BY <1>2, <1>3, <2>4, <2>7 DEF One
    <3> QED
      BY <1>2, <2>1, <2>4, <3>1 DEF F2
  <2> QED
    BY <2>2, <2>5, <2>6, <2>7
<1>6. ASSUME MailboxStep
      PROVE  /\ Count(mailbox', Returns(p)) \in Nat
             /\ R = Count(mailbox', Returns(p))
                     + One(/\ Head(mailbox).type \in {"PieceDownloaded", "PieceFailed"}
                           /\ Head(mailbox).piece = p)
  BY <1>0, <1>6, ReceivedReturn DEF R
<1>7. CASE OnRequestWork
  <2>1. PICK s \in Session, reply \in 0 .. NumPieces :
             /\ job[s] = NoPiece /\ job' = [job EXCEPT ![s] = reply]
             /\ in_progress'[p] = in_progress[p] + One(reply = p)
    BY <1>7, WorkAssigned
  <2>2. Count(mailbox', Returns(p)) = R
    <3>1. MailboxStep /\ Head(mailbox).type = "RequestWork"
      BY <1>7 DEF OnRequestWork, Receive, MailboxStep
    <3> QED
      BY <1>2, <1>6, <3>1 DEF One
  <2> DEFINE F2 == Cardinality(Fetches(job', p))
  <2>3. job'[s] = reply /\ \A t \in Session : t # s => job'[t] = job[t]
    BY <1>0, <2>1
  <2>4. /\ F2 \in Nat
        /\ (job[s] = p <=> reply = p) => F2 = F
        /\ job[s] # p /\ reply = p => F2 = F + 1
    BY <2>3, JobChange DEF F
  <2> HIDE DEF F2
  <2>5. CASE reply = p
    <3>1. F2 = F + 1 /\ in_progress'[p] = in_progress[p] + 1
      BY <1>3, <2>1, <2>4, <2>5 DEF One
    <3> QED
      BY <1>2, <2>2, <3>1 DEF F2
  <2>6. CASE reply # p
    <3>1. F2 = F /\ in_progress'[p] = in_progress[p]
      BY <1>2, <1>3, <2>1, <2>4, <2>6 DEF One
    <3> QED
      BY <1>2, <2>2, <3>1 DEF F2
  <2> QED
    BY <2>5, <2>6
<1>8. CASE OnGetCompletedPieces \/ OnAvailability
  <2>1. job' = job /\ in_progress' = in_progress
    BY <1>8 DEF OnGetCompletedPieces, OnAvailability, PeerBitfield, PeerHave, PeerGone,
                AddPeerPieces, RemovePeerPieces, coordinatorVars, managerVars
  <2>2. Count(mailbox', Returns(p)) = R
    BY <1>2, <1>6, <1>8 DEF OnGetCompletedPieces, OnAvailability, Receive, MailboxStep, One
  <2> QED
    BY <1>2, <1>4, <2>1, <2>2
<1>9. CASE OnPieceDownloaded \/ OnPieceFailed
  <2> DEFINE q == Head(mailbox).piece
             R2 == Count(mailbox', Returns(p))
  <2>1. job' = job
    BY <1>9 DEF OnPieceDownloaded, OnPieceFailed
  <2>2. R2 \in Nat /\ R = R2 + One(q = p)
    BY <1>6, <1>9 DEF OnPieceDownloaded, OnPieceFailed, Receive, MailboxStep
  <2>3. phase = "checking" => R = 0
    BY DEF ReservedInv, NothingFetched, R
  <2>4. phase \in {"checking", "downloading"}
    BY <1>0 DEF TransferInv, TransferTypeOK, ControlTypeOK
  <2>5. \/ (~Downloading \/ q \in completed) /\ in_progress' = in_progress
        \/ in_progress' = OneHolderLess(q)
        \/ q \in completed' /\ in_progress' = Released(q)
    BY <1>9 DEF OnPieceDownloaded, OnPieceFailed, PieceDownloaded, PieceFailed, IgnoresPiece,
                ReturnWork, MarkCompleted, coordinatorVars, managerVars
  <2> HIDE DEF q, R2
  <2>6. CASE q # p
    <3>1. in_progress'[p] = in_progress[p]
      BY <1>0, <2>5, <2>6 DEF OneHolderLess, Released
    <3> QED
      BY <1>2, <1>4, <2>1, <2>2, <2>6, <3>1 DEF One, R2
  <2>7. CASE q = p
    <3>1. R = R2 + 1 /\ Downloading
      BY <1>2, <2>2, <2>3, <2>4, <2>7 DEF One, Downloading
    <3>2. in_progress' = OneHolderLess(p)
      BY <1>1, <2>5, <2>7, <3>1
    <3>3. in_progress'[p] = in_progress[p] - 1
      BY <1>0, <1>2, <2>2, <3>1, <3>2 DEF OneHolderLess
    <3> QED
      BY <1>2, <1>4, <2>1, <2>2, <3>1, <3>3 DEF R2
  <2> QED
    BY <2>6, <2>7
<1>10. CASE OnCheckTick
  <2>1. job' = job /\ mailbox' = mailbox
    BY <1>10 DEF OnCheckTick, sessionVars
  <2>2. \/ in_progress' = in_progress
        \/ next_piece \in completed' /\ in_progress' = Released(next_piece)
    BY <1>10 DEF OnCheckTick, CheckTick, MarkCompleted, managerVars
  <2>3. in_progress'[p] = in_progress[p]
    BY <1>0, <2>2 DEF Released
  <2> QED
    BY <1>2, <1>4, <2>1, <2>3 DEF R
<1>11. CASE UNCHANGED vars \/ \E value \in BOOLEAN : OnSetPaused(value)
  <2>1. job' = job /\ mailbox' = mailbox /\ in_progress' = in_progress
    BY <1>11 DEF OnSetPaused, SetPaused, sessionVars, vars, coordinatorVars, managerVars
  <2> QED
    BY <1>2, <1>4, <2>1 DEF R
<1> QED
  BY <1>0, <1>5, <1>7, <1>8, <1>9, <1>10, <1>11, NoEdits DEF Next, MailboxStep

\* The invariant holds initially.
LEMMA InitIsReserved ==
    ASSUME Init
    PROVE  ReservedInv
<1>1. TransferInv
  BY InitIsTransferInv
<1>2. /\ mailbox = <<>> /\ job = [s \in Session |-> NoPiece] /\ events = [s \in Session |-> <<>>]
      /\ conn = [s \in Session |-> "down"] /\ in_progress = [p \in Piece |-> 0]
  BY DEF Init, StartsFrom
<1>3. \A S : Count(mailbox, S) = 0
  <2>1. <<>> \in Seq(GoodMsg) /\ DOMAIN <<>> = {}
    <3> HIDE DEF GoodMsg
    <3> QED
      OBVIOUS
  <2> QED
    BY <1>2, <2>1, CountIsNat
<1>4. \A p \in Piece : Cardinality(Fetching(p)) = 0
  <2>1. \A p \in Piece : Fetching(p) = {}
    BY <1>2, NumPiecesAssumption DEF Fetching, NoPiece, Piece
  <2> QED
    BY <2>1, FS_EmptySet
<1>5. AskedOnce /\ IdleUnlessUp
  BY <1>2, <1>3 DEF AskedOnce, One, IdleUnlessUp
<1>6. EventsTrue
  <2>1. \A s \in Session : DOMAIN events[s] = {}
    BY <1>2
  <2> QED
    BY <2>1 DEF EventsTrue
<1>7. NothingFetched /\ ReservedExact
  BY <1>2, <1>3, <1>4 DEF NothingFetched, ReservedExact
<1> QED
  BY <1>1, <1>5, <1>6, <1>7 DEF ReservedInv

\* Without aborts and changes of the selection, every reservation of the coordinator is
\* in the hands of a session or on its way back, for any number of sessions, whatever
\* their peers do: no piece is left reserved by nobody, and none is fetched uncounted.
THEOREM ReservationsAlwaysExact == Undisturbed /\ Spec => []ReservationsExact
<1> DEFINE I == Undisturbed /\ ReservedInv
<1>1. Undisturbed /\ Init => I
  BY InitIsReserved
<1>2. I /\ [Next]_vars => I'
  <2> SUFFICES ASSUME I, [Next]_vars PROVE ReservedInv'
    BY DEF Undisturbed
  <2>1. TransferInv' /\ AskedOnce' /\ IdleUnlessUp' /\ EventsTrue'
    BY StepKeepsTransferInv, StepKeepsAsked, StepKeepsIdle, StepKeepsEventsTrue
       DEF ReservedInv, Undisturbed
  <2>2. NothingFetched' /\ ReservedExact'
    BY StepKeepsNothingFetched, StepKeepsReserved DEF Undisturbed
  <2> QED
    BY <2>1, <2>2 DEF ReservedInv
<1>3. I => ReservationsExact
  BY PendingIsCount DEF ReservedInv, ReservedExact, ReservationsExact
<1> HIDE DEF I
<1>4. Undisturbed /\ Spec => []I
  BY <1>1, <1>2, PTL DEF Spec
<1> QED
  BY <1>3, <1>4, PTL

-----------------------------------------------------------------------------
(* Availability, while peers do not repeat a HAVE, no session is aborted   *)
(* and there are no more sessions than the counters can count.             *)
(*                                                                         *)
(* The counters saturate, so that the sums agree is not inductive: one     *)
(* needs that the messages about one session and one piece alternate       *)
(* between adding and removing it, for the coordinator never to remove a   *)
(* piece that it has not counted, nor to count one twice.                  *)

Counted(q, H, p, P, M, i) ==
    \/ \E j \in DOMAIN q : /\ j >= i /\ q[j] \in M
                           /\ \A k \in DOMAIN q : i <= k /\ k < j => q[k] \notin P \cup M
    \/ p \in H /\ \A k \in DOMAIN q : k >= i => q[k] \notin P \cup M

\* The messages P that add and M that remove piece p, in queue q, for a session that
\* advertises H now: whether p is counted before message i is read is what the next
\* message takes for granted.
Alternates(q, H, p, P, M) ==
    \A i \in DOMAIN q : /\ q[i] \in P => Counted(q, H, p, P, M, i + 1)
                        /\ q[i] \in M => ~Counted(q, H, p, P, M, i + 1)

\* A message is sent together with the change it tells.
LEMMA AlternatesAppend ==
    ASSUME NEW T, NEW q \in Seq(T), NEW e \in T, NEW H, NEW H2, NEW p, NEW P, NEW M,
           P \cap M = {},
           e \in P => p \notin H /\ p \in H2,
           e \in M => p \in H /\ p \notin H2,
           e \notin P \cup M => (p \in H <=> p \in H2),
           Alternates(q, H, p, P, M)
    PROVE  /\ Alternates(Append(q, e), H2, p, P, M)
           /\ Counted(Append(q, e), H2, p, P, M, 1) <=> Counted(q, H, p, P, M, 1)
<1> DEFINE r == Append(q, e)
           n == Len(q) + 1
<1>1. /\ n \in Nat \ {0} /\ DOMAIN q = 1 .. n - 1 /\ DOMAIN r = 1 .. n /\ r[n] = e
      /\ \A i \in DOMAIN q : r[i] = q[i]
  OBVIOUS
<1> HIDE DEF r, n
<1>2. ASSUME NEW i \in 1 .. n
      PROVE  Counted(r, H2, p, P, M, i) <=> Counted(q, H, p, P, M, i)
  <2>1. ASSUME Counted(q, H, p, P, M, i) PROVE Counted(r, H2, p, P, M, i)
    <3>1. CASE \E j \in DOMAIN q : /\ j >= i /\ q[j] \in M
                                   /\ \A k \in DOMAIN q : i <= k /\ k < j => q[k] \notin P \cup M
      <4>1. PICK j \in DOMAIN q : /\ j >= i /\ q[j] \in M
                                  /\ \A k \in DOMAIN q : i <= k /\ k < j => q[k] \notin P \cup M
        BY <3>1
      <4>2. j \in DOMAIN r /\ r[j] \in M
            /\ \A k \in DOMAIN r : i <= k /\ k < j => r[k] \notin P \cup M
        BY <1>1, <4>1
      <4> QED
        BY <4>1, <4>2 DEF Counted
    <3>2. CASE p \in H /\ \A k \in DOMAIN q : k >= i => q[k] \notin P \cup M
      <4>1. CASE e \in M
        <5>1. /\ n \in DOMAIN r /\ n >= i /\ r[n] \in M
              /\ \A k \in DOMAIN r : i <= k /\ k < n => r[k] \notin P \cup M
          BY <1>1, <3>2, <4>1
        <5> QED
          BY <5>1 DEF Counted
      <4>2. CASE e \notin M
        <5>1. p \in H2 /\ e \notin P \cup M
          BY <3>2, <4>2
        <5>2. \A k \in DOMAIN r : k >= i => r[k] \notin P \cup M
          BY <1>1, <3>2, <5>1
        <5> QED
          BY <5>1, <5>2 DEF Counted
      <4> QED
        BY <4>1, <4>2
    <3> QED
      BY <2>1, <3>1, <3>2 DEF Counted
  <2>2. ASSUME Counted(r, H2, p, P, M, i) PROVE Counted(q, H, p, P, M, i)
    <3>1. CASE \E j \in DOMAIN r : /\ j >= i /\ r[j] \in M
                                   /\ \A k \in DOMAIN r : i <= k /\ k < j => r[k] \notin P \cup M
      <4>1. PICK j \in DOMAIN r : /\ j >= i /\ r[j] \in M
                                  /\ \A k \in DOMAIN r : i <= k /\ k < j => r[k] \notin P \cup M
        BY <3>1
      <4>2. CASE j = n
        <5>1. e \in M /\ p \in H
          BY <1>1, <4>1, <4>2
        <5>2. \A k \in DOMAIN q : k >= i => q[k] \notin P \cup M
          BY <1>1, <4>1, <4>2
        <5> QED
          BY <5>1, <5>2 DEF Counted
      <4>3. CASE j # n
        <5>1. j \in DOMAIN q /\ q[j] \in M
              /\ \A k \in DOMAIN q : i <= k /\ k < j => q[k] \notin P \cup M
          BY <1>1, <4>1, <4>3
        <5> QED
          BY <4>1, <5>1 DEF Counted
      <4> QED
        BY <4>2, <4>3
    <3>2. CASE p \in H2 /\ \A k \in DOMAIN r : k >= i => r[k] \notin P \cup M
      <4>1. e \notin P \cup M
        BY <1>1, <3>2
      <4>2. p \in H /\ \A k \in DOMAIN q : k >= i => q[k] \notin P \cup M
        BY <1>1, <3>2, <4>1
      <4> QED
        BY <4>2 DEF Counted
    <3> QED
      BY <2>2, <3>1, <3>2 DEF Counted
  <2> QED
    BY <2>1, <2>2
<1>3. Counted(r, H2, p, P, M, n + 1) <=> p \in H2
  BY <1>1 DEF Counted
<1>4. ASSUME NEW i \in DOMAIN r
      PROVE  /\ r[i] \in P => Counted(r, H2, p, P, M, i + 1)
             /\ r[i] \in M => ~Counted(r, H2, p, P, M, i + 1)
  <2>1. CASE i = n
    BY <1>1, <1>3, <2>1
  <2>2. CASE i # n
    <3>1. i \in DOMAIN q /\ r[i] = q[i] /\ i + 1 \in 1 .. n
      BY <1>1, <2>2
    <3>2. /\ q[i] \in P => Counted(q, H, p, P, M, i + 1)
          /\ q[i] \in M => ~Counted(q, H, p, P, M, i + 1)
      BY <3>1 DEF Alternates
    <3> QED
      BY <1>2, <3>1, <3>2
  <2> QED
    BY <2>1, <2>2
<1>5. 1 \in 1 .. n
  BY <1>1
<1> QED
  BY <1>2, <1>4, <1>5 DEF Alternates, r

\* The coordinator reads a message: what it adds was not counted, what it removes was.
LEMMA AlternatesTail ==
    ASSUME NEW T, NEW q \in Seq(T), q # <<>>, NEW H, NEW p, NEW P, NEW M, P \cap M = {},
           Alternates(q, H, p, P, M)
    PROVE  /\ Alternates(Tail(q), H, p, P, M)
           /\ Head(q) \in P => /\ ~Counted(q, H, p, P, M, 1)
                               /\ Counted(Tail(q), H, p, P, M, 1)
           /\ Head(q) \in M => /\ Counted(q, H, p, P, M, 1)
                               /\ ~Counted(Tail(q), H, p, P, M, 1)
           /\ Head(q) \notin P \cup M =>
                (Counted(q, H, p, P, M, 1) <=> Counted(Tail(q), H, p, P, M, 1))
<1> DEFINE r == Tail(q)
           n == Len(q)
<1>1. /\ n \in Nat \ {0} /\ DOMAIN q = 1 .. n /\ DOMAIN r = 1 .. n - 1 /\ Head(q) = q[1]
      /\ \A i \in 1 .. n - 1 : r[i] = q[i + 1]
  OBVIOUS
<1> HIDE DEF r, n
<1>2. ASSUME NEW i \in 1 .. n
      PROVE  Counted(r, H, p, P, M, i) <=> Counted(q, H, p, P, M, i + 1)
  <2>0. \A k \in DOMAIN r : k + 1 \in DOMAIN q /\ r[k] = q[k + 1]
    BY <1>1
  <2>00. \A k \in DOMAIN q : k >= i + 1 => k - 1 \in DOMAIN r /\ r[k - 1] = q[k]
    BY <1>1
  <2>1. ASSUME Counted(r, H, p, P, M, i) PROVE Counted(q, H, p, P, M, i + 1)
    <3>1. CASE \E j \in DOMAIN r : /\ j >= i /\ r[j] \in M
                                   /\ \A k \in DOMAIN r : i <= k /\ k < j => r[k] \notin P \cup M
      <4>1. PICK j \in DOMAIN r : /\ j >= i /\ r[j] \in M
                                  /\ \A k \in DOMAIN r : i <= k /\ k < j => r[k] \notin P \cup M
        BY <3>1
      <4>2. j + 1 \in DOMAIN q /\ j + 1 >= i + 1 /\ q[j + 1] \in M
        BY <1>1, <4>1, <2>0
      <4>3. \A k \in DOMAIN q : i + 1 <= k /\ k < j + 1 => q[k] \notin P \cup M
        <5> SUFFICES ASSUME NEW k \in DOMAIN q, i + 1 <= k, k < j + 1 PROVE q[k] \notin P \cup M
          OBVIOUS
        <5>1. k - 1 \in DOMAIN r /\ r[k - 1] = q[k] /\ i <= k - 1 /\ k - 1 < j
          BY <1>1, <2>00, <4>1
        <5> QED
          BY <4>1, <5>1
      <4> QED
        BY <4>2, <4>3 DEF Counted
    <3>2. CASE p \in H /\ \A k \in DOMAIN r : k >= i => r[k] \notin P \cup M
      <4>1. \A k \in DOMAIN q : k >= i + 1 => q[k] \notin P \cup M
        <5> SUFFICES ASSUME NEW k \in DOMAIN q, k >= i + 1 PROVE q[k] \notin P \cup M
          OBVIOUS
        <5>1. k - 1 \in DOMAIN r /\ r[k - 1] = q[k] /\ k - 1 >= i
          BY <1>1, <2>00
        <5> QED
          BY <3>2, <5>1
      <4> QED
        BY <3>2, <4>1 DEF Counted
    <3> QED
      BY <2>1, <3>1, <3>2 DEF Counted
  <2>2. ASSUME Counted(q, H, p, P, M, i + 1) PROVE Counted(r, H, p, P, M, i)
    <3>1. CASE \E j \in DOMAIN q : /\ j >= i + 1 /\ q[j] \in M
                                   /\ \A k \in DOMAIN q : i + 1 <= k /\ k < j => q[k] \notin P \cup M
      <4>1. PICK j \in DOMAIN q : /\ j >= i + 1 /\ q[j] \in M
                                  /\ \A k \in DOMAIN q : i + 1 <= k /\ k < j => q[k] \notin P \cup M
        BY <3>1
      <4>2. j - 1 \in DOMAIN r /\ j - 1 >= i /\ r[j - 1] \in M
        BY <1>1, <4>1, <2>00
      <4>3. \A k \in DOMAIN r : i <= k /\ k < j - 1 => r[k] \notin P \cup M
        <5> SUFFICES ASSUME NEW k \in DOMAIN r, i <= k, k < j - 1 PROVE r[k] \notin P \cup M
          OBVIOUS
        <5>1. k + 1 \in DOMAIN q /\ r[k] = q[k + 1] /\ i + 1 <= k + 1 /\ k + 1 < j
          BY <1>1, <2>0, <4>1
        <5> QED
          BY <4>1, <5>1
      <4> QED
        BY <4>2, <4>3 DEF Counted
    <3>2. CASE p \in H /\ \A k \in DOMAIN q : k >= i + 1 => q[k] \notin P \cup M
      <4>1. \A k \in DOMAIN r : k >= i => r[k] \notin P \cup M
        <5> SUFFICES ASSUME NEW k \in DOMAIN r, k >= i PROVE r[k] \notin P \cup M
          OBVIOUS
        <5>1. k + 1 \in DOMAIN q /\ r[k] = q[k + 1] /\ k + 1 >= i + 1
          BY <1>1, <2>0
        <5> QED
          BY <3>2, <5>1
      <4> QED
        BY <3>2, <4>1 DEF Counted
    <3> QED
      BY <2>2, <3>1, <3>2 DEF Counted
  <2> QED
    BY <2>1, <2>2
<1>3. Alternates(r, H, p, P, M)
  <2> SUFFICES ASSUME NEW i \in DOMAIN r
               PROVE  /\ r[i] \in P => Counted(r, H, p, P, M, i + 1)
                      /\ r[i] \in M => ~Counted(r, H, p, P, M, i + 1)
    BY DEF Alternates
  <2>1. i + 1 \in DOMAIN q /\ r[i] = q[i + 1] /\ i + 1 \in 1 .. n
    BY <1>1
  <2>2. /\ q[i + 1] \in P => Counted(q, H, p, P, M, (i + 1) + 1)
        /\ q[i + 1] \in M => ~Counted(q, H, p, P, M, (i + 1) + 1)
    BY <2>1 DEF Alternates
  <2> QED
    BY <1>2, <2>1, <2>2
<1>4. Counted(r, H, p, P, M, 1) <=> Counted(q, H, p, P, M, 1 + 1)
  BY <1>1, <1>2
<1>5. 1 \in DOMAIN q
  BY <1>1
<1>6. /\ q[1] \in P => Counted(q, H, p, P, M, 1 + 1)
      /\ q[1] \in M => ~Counted(q, H, p, P, M, 1 + 1)
  BY <1>5 DEF Alternates
<1>7. q[1] \in P => ~Counted(q, H, p, P, M, 1)
  BY <1>1, <1>5 DEF Counted
<1>8. q[1] \in M => Counted(q, H, p, P, M, 1)
  BY <1>1, <1>5 DEF Counted
<1>9. q[1] \notin P \cup M => (Counted(q, H, p, P, M, 1) <=> Counted(q, H, p, P, M, 2))
  BY <1>1, <1>5 DEF Counted
<1> QED
  BY <1>1, <1>3, <1>4, <1>6, <1>7, <1>8, <1>9 DEF r

\* The messages of session s that add, and that remove, piece p.
Plus(s, p) == {m \in GoodMsg : /\ m.from = s
                               /\ \/ m.type = "PeerBitfield" /\ p \in m.pieces
                                  \/ m.type = "PeerHave" /\ m.piece = p}
Minus(s, p) == {m \in GoodMsg : m.from = s /\ m.type = "PeerGone" /\ p \in m.pieces}

\* The messages of a type about piece p, of all sessions.
Marks(type, p) == {m \in GoodMsg : m.type = type /\ p \in m.pieces \cup {m.piece}}

Alternating(q, hv) ==
    \A s \in Session, p \in Piece : Alternates(q, hv[s], p, Plus(s, p), Minus(s, p))

\* The sessions for which the coordinator has counted piece p, and those that have it.
CountedFor(q, hv, p) == {s \in Session : Counted(q, hv[s], p, Plus(s, p), Minus(s, p), 1)}
Holding(hv, p) == {s \in Session : p \in hv[s]}

CountedExact(q, hv, av) == \A p \in Piece : av[p] = Cardinality(CountedFor(q, hv, p))

SumsExact(q, hv, av) ==
    \A p \in Piece :
        av[p] + Count(q, Marks("PeerBitfield", p)) + Count(q, Marks("PeerHave", p))
            = Cardinality(Holding(hv, p)) + Count(q, Marks("PeerGone", p))

AdvertInv(q, hv, av) ==
    Alternating(q, hv) /\ CountedExact(q, hv, av) /\ SumsExact(q, hv, av)

\* A session sends a message and changes what it takes its peer to have from H to H2.
Tells(s, q, H, r, H2) ==
    \E m \in GoodMsg :
        /\ m.from = s /\ r = Append(q, m)
        /\ \/ m.type = "PeerHave" /\ m.piece \notin H /\ H2 = H \cup {m.piece}
           \/ m.type = "PeerBitfield" /\ H = {} /\ H2 = m.pieces
           \/ m.type = "PeerGone" /\ H = m.pieces /\ H2 = {}
           \/ m.type \notin {"PeerHave", "PeerBitfield", "PeerGone"} /\ H2 = H

\* Telling keeps the invariant.
LEMMA TellsKeepsAdvert ==
    ASSUME NEW q \in Seq(GoodMsg), NEW hv \in [Session -> SUBSET Piece], NEW av \in [Piece -> Nat],
           NEW s \in Session, NEW r, NEW H2 \in SUBSET Piece,
           Tells(s, q, hv[s], r, H2), AdvertInv(q, hv, av)
    PROVE  r \in Seq(GoodMsg) /\ AdvertInv(r, [hv EXCEPT ![s] = H2], av)
<1> DEFINE g == [hv EXCEPT ![s] = H2]
           H == hv[s]
<1>1. PICK m \in GoodMsg :
        /\ m.from = s /\ r = Append(q, m)
        /\ \/ m.type = "PeerHave" /\ m.piece \notin H /\ H2 = H \cup {m.piece}
           \/ m.type = "PeerBitfield" /\ H = {} /\ H2 = m.pieces
           \/ m.type = "PeerGone" /\ H = m.pieces /\ H2 = {}
           \/ m.type \notin {"PeerHave", "PeerBitfield", "PeerGone"} /\ H2 = H
  BY DEF Tells
<1>2. r \in Seq(GoodMsg)
  <2> HIDE DEF GoodMsg
  <2> QED
    BY <1>1
<1>3. g \in [Session -> SUBSET Piece] /\ g[s] = H2 /\ \A t \in Session : t # s => g[t] = hv[t]
  OBVIOUS
<1>4. /\ m.type = "PeerHave" => m.piece \in Piece /\ m.pieces = {}
      /\ m.type \in {"PeerBitfield", "PeerGone"} => m.piece = NoPiece
      /\ NoPiece \notin Piece
  BY GoodFields, NumPiecesAssumption DEF PieceMsg, NoPiece, Piece
<1>5. ASSUME NEW p \in Piece
      PROVE  /\ m \in Plus(s, p) => p \notin H /\ p \in H2
             /\ m \in Minus(s, p) => p \in H /\ p \notin H2
             /\ m \notin Plus(s, p) \cup Minus(s, p) => (p \in H <=> p \in H2)
             /\ \A t : Plus(t, p) \cap Minus(t, p) = {}
             /\ \A t : t # s => m \notin Plus(t, p) \cup Minus(t, p)
             /\ m \in Plus(s, p) <=> m \in Marks("PeerBitfield", p) \cup Marks("PeerHave", p)
             /\ Marks("PeerBitfield", p) \cap Marks("PeerHave", p) = {}
             /\ m \in Minus(s, p) <=> m \in Marks("PeerGone", p)
  BY <1>1, <1>4 DEF Plus, Minus, Marks
<1> HIDE DEF g, H
<1>6. ASSUME NEW t \in Session, NEW p \in Piece
      PROVE  /\ Alternates(r, g[t], p, Plus(t, p), Minus(t, p))
             /\ Counted(r, g[t], p, Plus(t, p), Minus(t, p), 1)
                  <=> Counted(q, hv[t], p, Plus(t, p), Minus(t, p), 1)
  <2> DEFINE P == Plus(t, p)
             M == Minus(t, p)
             J == hv[t]
             J2 == g[t]
  <2>1. /\ m \in P => p \notin J /\ p \in J2
        /\ m \in M => p \in J /\ p \notin J2
        /\ m \notin P \cup M => (p \in J <=> p \in J2)
        /\ P \cap M = {}
    BY <1>3, <1>5 DEF H
  <2>2. Alternates(q, J, p, P, M)
    BY DEF AdvertInv, Alternating
  <2> HIDE DEF P, M, J, J2, GoodMsg
  <2>3. /\ Alternates(Append(q, m), J2, p, P, M)
        /\ Counted(Append(q, m), J2, p, P, M, 1) <=> Counted(q, J, p, P, M, 1)
    BY <2>1, <2>2, AlternatesAppend
  <2> QED
    BY <1>1, <2>3 DEF P, M, J, J2
<1>7. CountedExact(r, g, av)
  <2> SUFFICES ASSUME NEW p \in Piece PROVE av[p] = Cardinality(CountedFor(r, g, p))
    BY DEF CountedExact
  <2>1. CountedFor(r, g, p) = CountedFor(q, hv, p)
    BY <1>6 DEF CountedFor
  <2> QED
    BY <2>1 DEF AdvertInv, CountedExact
<1>8. SumsExact(r, g, av)
  <2> SUFFICES ASSUME NEW p \in Piece
               PROVE  av[p] + Count(r, Marks("PeerBitfield", p)) + Count(r, Marks("PeerHave", p))
                        = Cardinality(Holding(g, p)) + Count(r, Marks("PeerGone", p))
    BY DEF SumsExact
  <2> DEFINE B == Marks("PeerBitfield", p)
             V == Marks("PeerHave", p)
             G == Marks("PeerGone", p)
             A == Holding(hv, p)
             A2 == Holding(g, p)
  <2>1. /\ av[p] + Count(q, B) + Count(q, V) = Cardinality(A) + Count(q, G)
        /\ av[p] \in Nat
    BY DEF AdvertInv, SumsExact
  <2>2. /\ A \in SUBSET Session /\ A2 \in SUBSET Session /\ A \ {s} = A2 \ {s}
        /\ s \in A <=> p \in H
        /\ s \in A2 <=> p \in H2
    BY <1>3 DEF Holding, H
  <2>3. /\ m \in B \cup V => p \notin H /\ p \in H2 /\ m \notin G
        /\ m \in G => p \in H /\ p \notin H2 /\ m \notin B \cup V
        /\ m \notin B \cup V \cup G => (p \in H <=> p \in H2)
        /\ B \cap V = {}
    BY <1>5
  <2> HIDE DEF B, V, G, A, A2, GoodMsg
  <2>4. /\ Count(q, B) \in Nat /\ Count(q, V) \in Nat /\ Count(q, G) \in Nat
    BY CountIsNat
  <2>5. /\ Count(r, B) = Count(q, B) + (IF m \in B THEN 1 ELSE 0)
        /\ Count(r, V) = Count(q, V) + (IF m \in V THEN 1 ELSE 0)
        /\ Count(r, G) = Count(q, G) + (IF m \in G THEN 1 ELSE 0)
    BY <1>1, CountAppend
  <2>6. /\ Cardinality(A) \in Nat /\ Cardinality(A2) \in Nat
        /\ (s \in A <=> s \in A2) => Cardinality(A2) = Cardinality(A)
        /\ s \in A /\ s \notin A2 => Cardinality(A2) = Cardinality(A) - 1
        /\ s \notin A /\ s \in A2 => Cardinality(A2) = Cardinality(A) + 1
    BY <2>2, OneMember
  <2>7. CASE m \in B \cup V
    <3>1. Cardinality(A2) = Cardinality(A) + 1
      BY <2>2, <2>3, <2>6, <2>7
    <3>2. Count(r, B) + Count(r, V) = Count(q, B) + Count(q, V) + 1 /\ Count(r, G) = Count(q, G)
      BY <2>3, <2>4, <2>5, <2>7
    <3>3. Count(r, B) \in Nat /\ Count(r, V) \in Nat
      BY <2>4, <2>5
    <3>4. av[p] + Count(r, B) + Count(r, V) = (Cardinality(A) + 1) + Count(q, G)
      <4> DEFINE x == av[p]
                 k == Cardinality(A)
                 b1 == Count(q, B)
                 v1 == Count(q, V)
                 g1 == Count(q, G)
                 b2 == Count(r, B)
                 v2 == Count(r, V)
      <4>1. /\ x \in Nat /\ k \in Nat /\ b1 \in Nat /\ v1 \in Nat /\ g1 \in Nat
            /\ b2 \in Nat /\ v2 \in Nat
        BY <2>1, <2>4, <2>6, <3>3
      <4>2. x + b1 + v1 = k + g1 /\ b2 + v2 = b1 + v1 + 1
        BY <2>1, <3>2
      <4> HIDE DEF x, k, b1, v1, g1, b2, v2
      <4>3. x + b2 + v2 = (k + 1) + g1
        BY <4>1, <4>2
      <4> QED
        BY <4>3 DEF x, k, b2, v2, g1
    <3> QED
      BY <3>1, <3>2, <3>4 DEF B, V, G, A2
  <2>8. CASE m \in G
    <3>1. Cardinality(A2) = Cardinality(A) - 1
      BY <2>2, <2>3, <2>6, <2>8
    <3>2. Count(r, B) = Count(q, B) /\ Count(r, V) = Count(q, V) /\ Count(r, G) = Count(q, G) + 1
      BY <2>3, <2>4, <2>5, <2>8
    <3> QED
      BY <2>1, <2>4, <2>6, <3>1, <3>2 DEF B, V, G, A2
  <2>9. CASE m \notin B \cup V \cup G
    <3>1. Cardinality(A2) = Cardinality(A)
      BY <2>2, <2>3, <2>6, <2>9
    <3>2. Count(r, B) = Count(q, B) /\ Count(r, V) = Count(q, V) /\ Count(r, G) = Count(q, G)
      BY <2>4, <2>5, <2>9
    <3> QED
      BY <2>1, <3>1, <3>2 DEF B, V, G, A2
  <2> QED
    BY <2>7, <2>8, <2>9
<1> QED
  BY <1>2, <1>6, <1>7, <1>8 DEF AdvertInv, Alternating, g

\* Reading a message keeps the invariant; the counters neither saturate nor go below
\* zero, because of the order of the messages.
LEMMA ReadKeepsAdvert ==
    ASSUME NEW q \in Seq(GoodMsg), q # <<>>, NEW hv \in [Session -> SUBSET Piece],
           NEW av \in [Piece -> Nat], NEW av2, AdvertInv(q, hv, av), Cardinality(Session) <= MaxAvail,
           \A p \in Piece :
             av2[p] = IF Head(q) \in Marks("PeerBitfield", p) \cup Marks("PeerHave", p)
                      THEN Saturated(av[p] + 1)
                      ELSE IF Head(q) \in Marks("PeerGone", p) THEN Saturated(av[p] - 1) ELSE av[p]
    PROVE  AdvertInv(Tail(q), hv, av2)
<1> DEFINE m == Head(q)
           s == m.from
           r == Tail(q)
<1>1. m \in GoodMsg
  <2> HIDE DEF GoodMsg
  <2> QED
    OBVIOUS
<1>2. s \in Session
  BY <1>1, GoodFields
<1> HIDE DEF m
<1>3. /\ m.type = "PeerHave" => m.piece \in Piece /\ m.pieces = {}
      /\ m.type \in {"PeerBitfield", "PeerGone"} => m.piece = NoPiece
      /\ NoPiece \notin Piece
  BY <1>1, GoodFields, NumPiecesAssumption DEF PieceMsg, NoPiece, Piece
<1>4. ASSUME NEW p \in Piece
      PROVE  /\ \A t : Plus(t, p) \cap Minus(t, p) = {}
             /\ \A t : t # s => m \notin Plus(t, p) \cup Minus(t, p)
             /\ m \in Plus(s, p) <=> m \in Marks("PeerBitfield", p) \cup Marks("PeerHave", p)
             /\ Marks("PeerBitfield", p) \cap Marks("PeerHave", p) = {}
             /\ m \in Minus(s, p) <=> m \in Marks("PeerGone", p)
  BY <1>1, <1>3 DEF Plus, Minus, Marks
<1> HIDE DEF s, r
<1>5. ASSUME NEW t \in Session, NEW p \in Piece
      PROVE  /\ Alternates(r, hv[t], p, Plus(t, p), Minus(t, p))
             /\ m \in Plus(t, p) => /\ t \notin CountedFor(q, hv, p)
                                    /\ t \in CountedFor(r, hv, p)
             /\ m \in Minus(t, p) => /\ t \in CountedFor(q, hv, p)
                                     /\ t \notin CountedFor(r, hv, p)
             /\ m \notin Plus(t, p) \cup Minus(t, p) =>
                  (t \in CountedFor(q, hv, p) <=> t \in CountedFor(r, hv, p))
  <2> DEFINE P == Plus(t, p)
             M == Minus(t, p)
             J == hv[t]
  <2>1. P \cap M = {} /\ Alternates(q, J, p, P, M)
    BY <1>4 DEF AdvertInv, Alternating
  <2>2. /\ t \in CountedFor(q, hv, p) <=> Counted(q, J, p, P, M, 1)
        /\ t \in CountedFor(r, hv, p) <=> Counted(r, J, p, P, M, 1)
    BY DEF CountedFor
  <2> HIDE DEF P, M, J, GoodMsg
  <2>3. /\ Alternates(r, J, p, P, M)
        /\ m \in P => ~Counted(q, J, p, P, M, 1) /\ Counted(r, J, p, P, M, 1)
        /\ m \in M => Counted(q, J, p, P, M, 1) /\ ~Counted(r, J, p, P, M, 1)
        /\ m \notin P \cup M => (Counted(q, J, p, P, M, 1) <=> Counted(r, J, p, P, M, 1))
    BY <2>1, AlternatesTail DEF m, r
  <2> QED
    BY <2>2, <2>3 DEF P, M, J
<1>6. ASSUME NEW p \in Piece
      PROVE  /\ av2[p] = Cardinality(CountedFor(r, hv, p))
             /\ av2[p] = IF m \in Plus(s, p) THEN av[p] + 1
                         ELSE IF m \in Minus(s, p) THEN av[p] - 1 ELSE av[p]
  <2> DEFINE C == CountedFor(q, hv, p)
             D == CountedFor(r, hv, p)
  <2>1. C \in SUBSET Session /\ D \in SUBSET Session /\ av[p] = Cardinality(C) /\ av[p] \in Nat
    BY DEF CountedFor, AdvertInv, CountedExact
  <2>2. /\ C \ {s} = D \ {s}
        /\ m \in Plus(s, p) => s \notin C /\ s \in D
        /\ m \in Minus(s, p) => s \in C /\ s \notin D
        /\ m \notin Plus(s, p) \cup Minus(s, p) => (s \in C <=> s \in D)
    <3>1. \A t \in Session : t # s => (t \in C <=> t \in D)
      BY <1>4, <1>5
    <3>2. /\ m \in Plus(s, p) => s \notin C /\ s \in D
          /\ m \in Minus(s, p) => s \in C /\ s \notin D
          /\ m \notin Plus(s, p) \cup Minus(s, p) => (s \in C <=> s \in D)
      BY <1>2, <1>5
    <3> HIDE DEF C, D
    <3> QED
      BY <2>1, <3>1, <3>2
  <2>3. av2[p] = IF m \in Plus(s, p) THEN Saturated(av[p] + 1)
                 ELSE IF m \in Minus(s, p) THEN Saturated(av[p] - 1) ELSE av[p]
    BY <1>4 DEF m
  <2> HIDE DEF C, D
  <2>4. /\ Cardinality(C) \in Nat /\ Cardinality(D) \in Nat
        /\ (s \in C <=> s \in D) => Cardinality(D) = Cardinality(C)
        /\ s \in C /\ s \notin D => Cardinality(D) = Cardinality(C) - 1
        /\ s \notin C /\ s \in D => Cardinality(D) = Cardinality(C) + 1
    BY <2>1, <2>2, OneMember
  <2>5. Cardinality(C) <= MaxAvail /\ Cardinality(D) <= MaxAvail /\ MaxAvail \in Nat
    <3>1. Cardinality(C) <= Cardinality(Session) /\ Cardinality(D) <= Cardinality(Session)
      BY <2>1, SessionsAssumption, FS_Subset
    <3>2. Cardinality(Session) \in Nat /\ MaxAvail \in Nat
      BY SessionsAssumption, MaxAvailAssumption, FS_CardinalityType
    <3> QED
      BY <2>4, <3>1, <3>2
  <2>6. CASE m \in Plus(s, p)
    <3>1. Cardinality(D) = Cardinality(C) + 1
      BY <2>2, <2>4, <2>6
    <3>2. Saturated(av[p] + 1) = av[p] + 1
      BY <2>1, <2>5, <3>1 DEF Saturated
    <3> QED
      BY <2>1, <2>3, <2>6, <3>1, <3>2 DEF D
  <2>7. CASE m \notin Plus(s, p) /\ m \in Minus(s, p)
    <3>1. Cardinality(D) = Cardinality(C) - 1
      BY <2>2, <2>4, <2>7
    <3>2. Saturated(av[p] - 1) = av[p] - 1
      BY <2>1, <2>4, <2>5, <3>1 DEF Saturated
    <3> QED
      BY <2>1, <2>3, <2>7, <3>1, <3>2 DEF D
  <2>8. CASE m \notin Plus(s, p) \cup Minus(s, p)
    BY <2>1, <2>2, <2>3, <2>4, <2>8 DEF D
  <2> QED
    BY <2>6, <2>7, <2>8
<1>7. CountedExact(r, hv, av2)
  BY <1>6 DEF CountedExact
<1>8. SumsExact(r, hv, av2)
  <2> SUFFICES ASSUME NEW p \in Piece
               PROVE  av2[p] + Count(r, Marks("PeerBitfield", p)) + Count(r, Marks("PeerHave", p))
                        = Cardinality(Holding(hv, p)) + Count(r, Marks("PeerGone", p))
    BY DEF SumsExact
  <2> DEFINE B == Marks("PeerBitfield", p)
             V == Marks("PeerHave", p)
             G == Marks("PeerGone", p)
             A == Cardinality(Holding(hv, p))
  <2>1. /\ av[p] + Count(q, B) + Count(q, V) = A + Count(q, G)
        /\ av[p] \in Nat
    BY DEF AdvertInv, SumsExact
  <2>2. A \in Nat
    <3>1. Holding(hv, p) \in SUBSET Session
      BY DEF Holding
    <3> QED
      BY <3>1, OneMember
  <2>3. /\ B \cap V = {} /\ (m \in G => m \notin B \cup V)
        /\ m \in Plus(s, p) <=> m \in B \cup V
        /\ m \in Minus(s, p) <=> m \in G
    BY <1>4
  <2> HIDE DEF B, V, G, A, GoodMsg
  <2>4. r \in Seq(GoodMsg)
    BY DEF r
  <2>5. /\ Count(r, B) \in Nat /\ Count(r, V) \in Nat /\ Count(r, G) \in Nat
    BY <2>4, CountIsNat
  <2>6. /\ Count(q, B) = Count(r, B) + (IF m \in B THEN 1 ELSE 0)
        /\ Count(q, V) = Count(r, V) + (IF m \in V THEN 1 ELSE 0)
        /\ Count(q, G) = Count(r, G) + (IF m \in G THEN 1 ELSE 0)
    BY CountTail DEF r, m
  <2>7. av2[p] = IF m \in B \cup V THEN av[p] + 1 ELSE IF m \in G THEN av[p] - 1 ELSE av[p]
    BY <1>6, <2>3
  <2>8. av2[p] + Count(r, B) + Count(r, V) = A + Count(r, G)
    <3>1. CASE m \in B
      BY <2>1, <2>2, <2>3, <2>5, <2>6, <2>7, <3>1
    <3>2. CASE m \in V
      BY <2>1, <2>2, <2>3, <2>5, <2>6, <2>7, <3>2
    <3>3. CASE m \in G
      <4>1. /\ Count(q, B) = Count(r, B) /\ Count(q, V) = Count(r, V)
            /\ Count(q, G) = Count(r, G) + 1 /\ av2[p] = av[p] - 1
        BY <2>3, <2>5, <2>6, <2>7, <3>3
      <4>2. av[p] + Count(r, B) + Count(r, V) = A + (Count(r, G) + 1)
        BY <2>1, <4>1
      <4>3. (av[p] - 1) + Count(r, B) + Count(r, V) = A + Count(r, G)
        <5> DEFINE x == av[p]
                   b2 == Count(r, B)
                   v2 == Count(r, V)
                   g2 == Count(r, G)
        <5>1. /\ x \in Nat /\ A \in Nat /\ b2 \in Nat /\ v2 \in Nat /\ g2 \in Nat
              /\ x + b2 + v2 = A + (g2 + 1)
          BY <2>1, <2>2, <2>5, <4>2
        <5> HIDE DEF x, b2, v2, g2
        <5>2. (x - 1) + b2 + v2 = A + g2
          BY <5>1
        <5> QED
          BY <5>2 DEF x, b2, v2, g2
      <4> QED
        BY <4>1, <4>3
    <3>4. CASE m \notin B \cup V \cup G
      BY <2>1, <2>2, <2>5, <2>6, <2>7, <3>4
    <3> QED
      BY <3>1, <3>2, <3>3, <3>4
  <2> QED
    BY <2>8 DEF B, V, G, A
<1> QED
  BY <1>5, <1>7, <1>8 DEF AdvertInv, Alternating, r

\* What a session sends tells what it does to the pieces of its peer.
LEMMA SessionTells ==
    ASSUME TransferInv, "rehave" \notin Behaviours, "abort" \notin Behaviours,
           NEW s \in Session, SessionStep(s)
    PROVE  \E H2 \in SUBSET Piece :
             /\ have' = [have EXCEPT ![s] = H2]
             /\ \/ mailbox' = mailbox /\ H2 = have[s]
                \/ Tells(s, mailbox, have[s], mailbox', H2)
                \/ \E q : /\ Tells(s, mailbox, have[s], q, {})
                          /\ Tells(s, q, {}, mailbox', H2)
<1>0. /\ have \in [Session -> SUBSET Piece] /\ mailbox \in Seq(GoodMsg)
      /\ have = [have EXCEPT ![s] = have[s]] /\ have[s] \in SUBSET Piece
  BY DEF TransferInv, TransferTypeOK
<1>1. \A type, p, pieces : /\ Msg(type, s, p, pieces).type = type
                           /\ Msg(type, s, p, pieces).from = s
                           /\ Msg(type, s, p, pieces).piece = p
                           /\ Msg(type, s, p, pieces).pieces = pieces
  BY DEF Msg
<1>2. /\ Msg("GetCompletedPieces", s, NoPiece, {}) \in GoodMsg
      /\ Msg("RequestWork", s, NoPiece, have[s]) \in GoodMsg
      /\ Msg("PeerGone", s, NoPiece, have[s]) \in GoodMsg
      /\ \A p \in Piece : Msg("PeerHave", s, p, {}) \in GoodMsg
      /\ \A pieces \in SUBSET Piece : Msg("PeerBitfield", s, NoPiece, pieces) \in GoodMsg
      /\ job[s] # NoPiece => /\ Msg("PieceDownloaded", s, job[s], {}) \in GoodMsg
                             /\ Msg("PieceFailed", s, job[s], {}) \in GoodMsg
  BY <1>0, MessagesAreGood, JobIsPiece DEF PieceMsg
<1>3. /\ Send(<<>>) => mailbox' = mailbox
      /\ \A m \in GoodMsg : Send(<<m>>) => mailbox' = Append(mailbox, m)
      /\ \A m, n \in GoodMsg : Send(<<m>> \o <<n>>) => mailbox' = Append(Append(mailbox, m), n)
  BY SentMailbox
<1>4. ASSUME have' = have,
             \E m \in GoodMsg : /\ m.from = s /\ Send(<<m>>)
                                /\ m.type \notin {"PeerHave", "PeerBitfield", "PeerGone"}
      PROVE  have' = [have EXCEPT ![s] = have[s]] /\ Tells(s, mailbox, have[s], mailbox', have[s])
  <2> HIDE DEF GoodMsg
  <2> QED
    BY <1>0, <1>3, <1>4 DEF Tells
<1>5. Tells(s, mailbox, have[s], Append(mailbox, Msg("PeerGone", s, NoPiece, have[s])), {})
  <2> HIDE DEF GoodMsg, Msg
  <2> QED
    BY <1>1, <1>2 DEF Tells
<1> HIDE DEF GoodMsg, Msg
<1>6. CASE Connect(s) \/ MaybeRequestWork(s)
  <2>1. have' = have
    BY <1>6 DEF Connect, MaybeRequestWork
  <2>2. \/ Send(<<Msg("GetCompletedPieces", s, NoPiece, {})>>)
        \/ Send(<<Msg("RequestWork", s, NoPiece, have[s])>>)
    BY <1>6 DEF Connect, MaybeRequestWork
  <2> HIDE DEF Send
  <2>3. \E m \in GoodMsg : /\ m.from = s /\ Send(<<m>>)
                           /\ m.type \notin {"PeerHave", "PeerBitfield", "PeerGone"}
    BY <1>1, <1>2, <2>2
  <2> QED
    BY <1>0, <1>4, <2>1, <2>3
<1>7. CASE PieceCompletes(s) \/ HashMismatch(s) \/ GiveBackChokedJob(s) \/ FinishJob(s)
  <2>1. have' = have /\ job[s] # NoPiece
    BY <1>7 DEF PieceCompletes, HashMismatch, GiveBackChokedJob, FinishJob
  <2>2. \/ Send(<<Msg("PieceDownloaded", s, job[s], {})>>)
        \/ Send(<<Msg("PieceFailed", s, job[s], {})>>)
    BY <1>7 DEF PieceCompletes, HashMismatch, GiveBackChokedJob, FinishJob, GiveBack
  <2> HIDE DEF Send
  <2>3. \E m \in GoodMsg : /\ m.from = s /\ Send(<<m>>)
                           /\ m.type \notin {"PeerHave", "PeerBitfield", "PeerGone"}
    <3>1. CASE Send(<<Msg("PieceDownloaded", s, job[s], {})>>)
      <4> DEFINE n == Msg("PieceDownloaded", s, job[s], {})
      <4>1. n \in GoodMsg /\ n.from = s /\ n.type = "PieceDownloaded" /\ Send(<<n>>)
        BY <1>1, <1>2, <2>1, <3>1
      <4> HIDE DEF n
      <4> QED
        BY <4>1
    <3>2. CASE Send(<<Msg("PieceFailed", s, job[s], {})>>)
      <4> DEFINE n == Msg("PieceFailed", s, job[s], {})
      <4>1. n \in GoodMsg /\ n.from = s /\ n.type = "PieceFailed" /\ Send(<<n>>)
        BY <1>1, <1>2, <2>1, <3>2
      <4> HIDE DEF n
      <4> QED
        BY <4>1
    <3> QED
      BY <2>2, <3>1, <3>2
  <2> QED
    BY <1>0, <1>4, <2>1, <2>3
<1>8. CASE HandleEvent(s) \/ Greet(s) \/ SessionEnds(s)
           \/ \E choking \in BOOLEAN : HandleChoke(s, choking)
  BY <1>0, <1>8 DEF HandleEvent, Greet, SessionEnds, HandleChoke
<1>9. ASSUME NEW p \in Haves, HandleHave(s, p)
      PROVE  \E H2 \in SUBSET Piece : /\ have' = [have EXCEPT ![s] = H2]
                                      /\ Tells(s, mailbox, have[s], mailbox', H2)
  <2> DEFINE m == Msg("PeerHave", s, p, {})
             H2 == have[s] \cup {p}
  <2>1. /\ have' = [have EXCEPT ![s] = H2] /\ p \notin have[s] /\ p \in Piece /\ Send(<<m>>)
    BY <1>0, <1>9, BitfieldsAssumption DEF HandleHave
  <2>2. m \in GoodMsg /\ mailbox' = Append(mailbox, m)
    BY <1>2, <1>3, <2>1
  <2>3. m.type = "PeerHave" /\ m.from = s /\ m.piece = p
    BY <1>1
  <2>4. H2 \in SUBSET Piece /\ Tells(s, mailbox, have[s], mailbox', H2)
    BY <1>0, <2>1, <2>2, <2>3 DEF Tells
  <2> HIDE DEF H2
  <2> QED
    BY <2>1, <2>4
<1>10. ASSUME NEW pieces \in Bitfields, HandleBitfield(s, pieces)
       PROVE  /\ pieces \in SUBSET Piece /\ have' = [have EXCEPT ![s] = pieces]
              /\ \/ Tells(s, mailbox, have[s], mailbox', pieces)
                 \/ \E q : /\ Tells(s, mailbox, have[s], q, {})
                           /\ Tells(s, q, {}, mailbox', pieces)
  <2> DEFINE n == Msg("PeerBitfield", s, NoPiece, pieces)
             g == Msg("PeerGone", s, NoPiece, have[s])
  <2>1. /\ pieces \in SUBSET Piece /\ have' = [have EXCEPT ![s] = pieces]
        /\ Send(Withdraw(s) \o <<n>>)
    BY <1>10, BitfieldsAssumption DEF HandleBitfield
  <2>2. n \in GoodMsg /\ g \in GoodMsg
    BY <1>2, <2>1
  <2>3. n.type = "PeerBitfield" /\ n.from = s /\ n.pieces = pieces
    BY <1>1
  <2> HIDE DEF n, g
  <2>4. \A q : Tells(s, q, {}, Append(q, n), pieces)
    BY <2>2, <2>3 DEF Tells
  <2>5. CASE have[s] = {}
    <3>1. Withdraw(s) \o <<n>> = <<n>>
      BY <2>2, <2>5 DEF Withdraw
    <3>2. mailbox' = Append(mailbox, n)
      BY <1>3, <2>1, <2>2, <3>1
    <3> QED
      BY <2>1, <2>4, <2>5, <3>2
  <2>6. CASE have[s] # {}
    <3>1. mailbox' = Append(Append(mailbox, g), n)
      BY <1>3, <2>1, <2>2, <2>6 DEF Withdraw, g
    <3> QED
      BY <1>5, <2>1, <2>4, <3>1 DEF g
  <2> QED
    BY <2>5, <2>6
<1>11. CASE FinishPeer(s)
  <2>1. have' = [have EXCEPT ![s] = {}] /\ Send(Withdraw(s))
    BY <1>11 DEF FinishPeer, Gone
  <2>2. CASE have[s] = {}
    <3>1. mailbox' = mailbox
      BY <1>3, <2>1, <2>2 DEF Withdraw
    <3> QED
      BY <2>1, <2>2, <3>1
  <2>3. CASE have[s] # {}
    <3>1. mailbox' = Append(mailbox, Msg("PeerGone", s, NoPiece, have[s]))
      BY <1>2, <1>3, <2>1, <2>3 DEF Withdraw
    <3> QED
      BY <1>5, <2>1, <3>1
  <2> QED
    BY <2>2, <2>3
<1>12. CASE Abort(s)
  BY <1>12 DEF Abort
<1> QED
  BY <1>6, <1>7, <1>8, <1>9, <1>10, <1>11, <1>12 DEF SessionStep

\* The hypotheses: the largest number of peers fits the counters (u16).
Counting == /\ Cardinality(Session) <= MaxAvail
            /\ "rehave" \notin Behaviours /\ "abort" \notin Behaviours

\* Every step keeps the coordinator's count of the peers that have a piece.
LEMMA StepKeepsAdvert ==
    ASSUME Counting, TransferInv, AdvertInv(mailbox, have, availability), [Next]_vars
    PROVE  AdvertInv(mailbox', have', availability')
<1>0. /\ have \in [Session -> SUBSET Piece] /\ mailbox \in Seq(GoodMsg)
      /\ availability \in [Piece -> Nat]
  BY MaxAvailAssumption DEF TransferInv, TransferTypeOK, ManagerInv, TypeOK
<1>1. ASSUME NEW s \in Session, SessionStep(s)
      PROVE  AdvertInv(mailbox', have', availability')
  <2>1. availability' = availability
    BY <1>1, SessionSends DEF coordinatorVars, managerVars
  <2>2. PICK H2 \in SUBSET Piece :
             /\ have' = [have EXCEPT ![s] = H2]
             /\ \/ mailbox' = mailbox /\ H2 = have[s]
                \/ Tells(s, mailbox, have[s], mailbox', H2)
                \/ \E q : /\ Tells(s, mailbox, have[s], q, {})
                          /\ Tells(s, q, {}, mailbox', H2)
    BY <1>1, SessionTells DEF Counting
  <2>3. CASE mailbox' = mailbox /\ H2 = have[s]
    <3>1. have' = have
      BY <1>0, <2>2, <2>3
    <3> QED
      BY <2>1, <2>3, <3>1
  <2>4. CASE Tells(s, mailbox, have[s], mailbox', H2)
    <3>1. AdvertInv(mailbox', [have EXCEPT ![s] = H2], availability)
      BY <1>0, <2>4, TellsKeepsAdvert
    <3> QED
      BY <2>1, <2>2, <3>1
  <2>5. ASSUME NEW q, Tells(s, mailbox, have[s], q, {}), Tells(s, q, {}, mailbox', H2)
        PROVE  AdvertInv(mailbox', have', availability')
    <3> DEFINE g == [have EXCEPT ![s] = {}]
    <3>1. q \in Seq(GoodMsg) /\ AdvertInv(q, g, availability)
      BY <1>0, <2>5, TellsKeepsAdvert
    <3>2. g \in [Session -> SUBSET Piece] /\ g[s] = {} /\ [g EXCEPT ![s] = H2] = have'
      BY <1>0, <2>2
    <3> HIDE DEF g
    <3>3. AdvertInv(mailbox', [g EXCEPT ![s] = H2], availability)
      BY <1>0, <2>5, <3>1, <3>2, TellsKeepsAdvert
    <3> QED
      BY <2>1, <3>2, <3>3
  <2> QED
    BY <2>2, <2>3, <2>4, <2>5
<1>2. ASSUME MailboxStep
      PROVE  AdvertInv(mailbox', have', availability')
  <2> DEFINE m == Head(mailbox)
  <2>1. /\ mailbox # <<>> /\ mailbox' = Tail(mailbox) /\ have' = have /\ m \in GoodMsg
    BY <1>2, ReceiveEffect
  <2>2. \/ m.type = "PeerBitfield" /\ AddPeerPieces(m.pieces)
        \/ m.type = "PeerHave" /\ AddPeerPieces({m.piece})
        \/ m.type = "PeerGone" /\ RemovePeerPieces(m.pieces)
        \/ m.type \notin {"PeerBitfield", "PeerHave", "PeerGone"} /\ availability' = availability
    <3>1. CASE OnAvailability
      BY <3>1 DEF OnAvailability, Receive, PeerBitfield, PeerHave, PeerGone
    <3>2. CASE OnGetCompletedPieces \/ OnRequestWork
      BY <3>2 DEF OnGetCompletedPieces, OnRequestWork, Receive, RequestWork, NextWorkFor, NoWorkFor,
                  coordinatorVars, managerVars
    <3>3. CASE OnPieceDownloaded \/ OnPieceFailed
      BY <3>3 DEF OnPieceDownloaded, OnPieceFailed, Receive, PieceDownloaded, PieceFailed, ReturnWork,
                  MarkCompleted, coordinatorVars, managerVars
    <3> QED
      BY <1>2, <3>1, <3>2, <3>3 DEF MailboxStep
  <2> HIDE DEF m
  <2>3. /\ m.type = "PeerHave" => m.pieces = {}
        /\ m.type \in {"PeerBitfield", "PeerGone"} => m.piece = NoPiece
        /\ NoPiece \notin Piece
    BY <2>1, GoodFields, NumPiecesAssumption DEF PieceMsg, NoPiece, Piece
  <2>4. ASSUME NEW p \in Piece
        PROVE  availability'[p]
                 = IF m \in Marks("PeerBitfield", p) \cup Marks("PeerHave", p)
                   THEN Saturated(availability[p] + 1)
                   ELSE IF m \in Marks("PeerGone", p)
                        THEN Saturated(availability[p] - 1) ELSE availability[p]
    <3>1. /\ m \in Marks("PeerBitfield", p) <=> m.type = "PeerBitfield" /\ p \in m.pieces
          /\ m \in Marks("PeerHave", p) <=> m.type = "PeerHave" /\ p = m.piece
          /\ m \in Marks("PeerGone", p) <=> m.type = "PeerGone" /\ p \in m.pieces
      BY <2>1, <2>3 DEF Marks
    <3> QED
      BY <2>2, <3>1 DEF AddPeerPieces, RemovePeerPieces
  <2>5. Cardinality(Session) <= MaxAvail
    BY DEF Counting
  <2>6. AdvertInv(Tail(mailbox), have, availability')
    BY <1>0, <2>1, <2>4, <2>5, ReadKeepsAdvert DEF m
  <2> QED
    BY <2>1, <2>6
<1>3. CASE \/ OnCheckTick \/ UNCHANGED vars
           \/ \E files \in FileSet : OnSetSelection(files)
           \/ \E value \in BOOLEAN : OnSetPaused(value)
  <2>1. UNCHANGED <<mailbox, have, availability>>
    BY <1>3 DEF OnCheckTick, CheckTick, MarkCompleted, OnSetSelection, SetSelection, ApplySelection,
                OnSetPaused, SetPaused, sessionVars, vars, coordinatorVars, managerVars
  <2> QED
    BY <2>1
<1> QED
  BY <1>1, <1>2, <1>3 DEF Next

\* Nothing is counted at the start.
LEMMA InitIsAdvert ==
    ASSUME Init
    PROVE  AdvertInv(mailbox, have, availability)
<1>1. /\ mailbox = <<>> /\ DOMAIN mailbox = {} /\ have = [s \in Session |-> {}]
      /\ availability = [p \in Piece |-> 0]
  BY DEF Init, StartsFrom
<1>2. \A S : Count(mailbox, S) = 0
  <2>1. <<>> \in Seq(GoodMsg) /\ DOMAIN <<>> = {}
    <3> HIDE DEF GoodMsg
    <3> QED
      OBVIOUS
  <2> QED
    BY <1>1, <2>1, CountIsNat
<1>3. ASSUME NEW p \in Piece
      PROVE  CountedFor(mailbox, have, p) = {} /\ Holding(have, p) = {}
  BY <1>1 DEF CountedFor, Counted, Holding
<1>4. Alternating(mailbox, have)
  BY <1>1 DEF Alternating, Alternates
<1>5. CountedExact(mailbox, have, availability) /\ SumsExact(mailbox, have, availability)
  <2>1. ASSUME NEW p \in Piece
        PROVE  /\ availability[p] = 0 /\ Cardinality(CountedFor(mailbox, have, p)) = 0
               /\ Cardinality(Holding(have, p)) = 0
    BY <1>1, <1>3, FS_EmptySet
  <2>2. 0 + 0 + 0 = 0 + 0
    OBVIOUS
  <2> QED
    BY <1>2, <2>1, <2>2 DEF CountedExact, SumsExact
<1> QED
  BY <1>4, <1>5 DEF AdvertInv

\* For any number of sessions that the counters can count, peers that do not repeat a
\* HAVE and no aborts, the coordinator's availability of a piece is the number of
\* connected peers that advertise it, up to the messages still in the mailbox, in
\* whatever order the sessions connect, replace their BITFIELD and leave.
THEOREM AvailabilityAlwaysExact == Counting /\ Spec => []AvailabilityExact
<1> DEFINE I == Counting /\ TransferInv /\ AdvertInv(mailbox, have, availability)
<1>1. Counting /\ Init => I
  BY InitIsAdvert, InitIsTransferInv
<1>2. I /\ [Next]_vars => I'
  <2> SUFFICES ASSUME I, [Next]_vars PROVE I'
    OBVIOUS
  <2>1. Counting'
    BY DEF Counting
  <2> QED
    BY <2>1, StepKeepsAdvert, StepKeepsTransferInv
<1>3. I => AvailabilityExact
  <2> SUFFICES ASSUME I PROVE AvailabilityExact
    OBVIOUS
  <2>1. \A i \in DOMAIN mailbox : mailbox[i] \in GoodMsg
    <3>1. mailbox \in Seq(GoodMsg)
      BY DEF TransferInv
    <3> HIDE DEF GoodMsg
    <3> QED
      BY <3>1
  <2>2. ASSUME NEW p, NEW type PROVE Advertised(p, type) = Count(mailbox, Marks(type, p))
    <3>1. {i \in DOMAIN mailbox : /\ mailbox[i].type = type
                                  /\ p \in mailbox[i].pieces \cup {mailbox[i].piece}}
            = {i \in DOMAIN mailbox : mailbox[i] \in Marks(type, p)}
      BY <2>1 DEF Marks
    <3> QED
      BY <3>1 DEF Advertised, Count
  <2> QED
    BY <2>2 DEF AdvertInv, SumsExact, Holding, AvailabilityExact
<1> HIDE DEF I
<1>4. Counting /\ Spec => []I
  BY <1>1, <1>2, PTL DEF Spec
<1> QED
  BY <1>3, <1>4, PTL

-----------------------------------------------------------------------------
(* What the sessions learn from the events, while none of them is so far   *)
(* behind that a broadcast pushes an event out of its queue.               *)

NoLag == \A s \in Session : Len(events[s]) + 2 <= MaxEvents

\* A queue of events that makes a session interested, and one that leaves it so.
Renewed(ev) == \E i \in DOMAIN ev : /\ ev[i].type = "SelectionChanged"
                                    /\ \A j \in DOMAIN ev : j > i => ev[j].type # "DownloadComplete"
Calm(ev) == \A j \in DOMAIN ev : ev[j].type # "DownloadComplete"

Finished == Downloading /\ IsDone

\* A session will be interested once it has handled its events, unless all is done.
WillWant(s) ==
    \/ Renewed(events[s])
    \/ Calm(events[s]) /\ (am_interested[s] \/ conn[s] \in {"opening", "greeting", "closing"})

InterestOwed == \A s \in Session : conn[s] # "down" => Finished \/ WillWant(s)

\* A session that is not connected has no events.
DownQuiet == \A s \in Session : conn[s] = "down" => events[s] = <<>>

\* A peer knows a piece, or the event that tells it is in the session's queue.
Informed ==
    \A s \in Session : conn[s] \in {"greeting", "up", "asking"} =>
        \A p \in ServablePieces :
            p \in told[s] \/ \E i \in DOMAIN events[s] : events[s][i] = PieceCompletedEvent(p)

\* The coordinator's selection is the one of the files selected last.
SelectionCurrent == selection = SelectionOf(selected_files)

\* At most one event, and at most one that follows it.
Joined(r, A, B, e, f) ==
    /\ r \in Seq(EventType) /\ Len(r) <= 2
    /\ A = <<e>> => \E k \in DOMAIN r : r[k] = e
    /\ B = <<f>> => \E k \in DOMAIN r : r[k] = f /\ \A j \in DOMAIN r : ~(j > k)
    /\ B = <<>> => \A k \in DOMAIN r : r[k] = e

\* What two optional events are together.
LEMMA EventPair ==
    ASSUME NEW e \in EventType, NEW f \in EventType,
           NEW A \in {<<>>, <<e>>}, NEW B \in {<<>>, <<f>>}
    PROVE  Joined(A \o B, A, B, e, f)
<1> DEFINE r == A \o B
<1> HIDE DEF EventType
<1>0. /\ <<e>> \in Seq(EventType) /\ <<f>> \in Seq(EventType) /\ <<>> \in Seq(EventType)
      /\ Len(<<e>>) = 1 /\ Len(<<f>>) = 1 /\ Len(<<>>) = 0 /\ <<f>> # <<>> /\ <<e>> # <<>>
      /\ <<e>>[1] = e /\ <<f>>[1] = f /\ DOMAIN <<e>> = {1} /\ DOMAIN <<f>> = {1} /\ DOMAIN <<>> = {}
  OBVIOUS
<1>1. CASE A = <<e>> /\ B = <<f>>
  <2>1. r = <<e>> \o <<f>>
    BY <1>1
  <2>2. Len(r) = 2 /\ r[1] = e /\ r[2] = f /\ r \in Seq(EventType)
    BY <1>0, <2>1, ConcatProperties
  <2>3. DOMAIN r = {1, 2}
    BY <2>2
  <2> HIDE DEF r
  <2>4. 1 \in DOMAIN r /\ 2 \in DOMAIN r /\ Len(r) <= 2 /\ \A j \in DOMAIN r : ~(j > 2)
    BY <2>2, <2>3
  <2> QED
    BY <1>0, <1>1, <2>2, <2>4 DEF r, Joined
<1>2. CASE A = <<e>> /\ B = <<>>
  <2>1. r = <<e>> \o <<>>
    BY <1>2
  <2>2. r = <<e>>
    BY <1>0, <2>1, ConcatEmptySeq
  <2> HIDE DEF r
  <2> QED
    BY <1>0, <1>2, <2>2 DEF r, Joined
<1>3. CASE A = <<>> /\ B = <<f>>
  <2>1. r = <<>> \o <<f>>
    BY <1>3
  <2>2. r = <<f>>
    BY <1>0, <2>1, ConcatEmptySeq
  <2> HIDE DEF r
  <2> QED
    BY <1>0, <1>3, <2>2 DEF r, Joined
<1>4. CASE A = <<>> /\ B = <<>>
  <2>1. r = <<>> \o <<>>
    BY <1>4
  <2>2. r = <<>>
    BY <1>0, <2>1, ConcatEmptySeq
  <2> HIDE DEF r
  <2> QED
    BY <1>0, <1>4, <2>2 DEF r, Joined
<1> QED
  BY <1>1, <1>2, <1>3, <1>4

\* With room in its queue a session gets every event.
LEMMA AllHeard ==
    ASSUME TransferInv, NoLag, NEW new \in Seq(EventType), Len(new) <= 2, Broadcast(new),
           NEW s \in Session
    PROVE  events'[s] = IF conn[s] = "down" THEN <<>> ELSE events[s] \o new
<1> DEFINE q == events[s]
           r == q \o new
<1>1. q \in Seq(EventType) /\ Len(q) + 2 <= MaxEvents /\ MaxEvents \in Nat
  BY CapacityAssumption DEF TransferInv, TransferTypeOK, NoLag
<1>2. events'[s] = IF conn[s] = "down" THEN <<>> ELSE Newest(r)
  BY DEF Broadcast
<1> HIDE DEF q, EventType
<1>3. r \in Seq(EventType) /\ Len(r) = Len(q) + Len(new) /\ Len(q) \in Nat /\ Len(new) \in Nat
  BY <1>1
<1>4. ~(Len(r) > MaxEvents)
  BY <1>1, <1>3
<1> HIDE DEF r
<1>5. Newest(r) = SubSeq(r, 1, Len(r))
  BY <1>4 DEF Newest
<1>6. SubSeq(r, 1, Len(r)) = r
  BY <1>3
<1> QED
  BY <1>2, <1>5, <1>6 DEF r, q

\* Events that follow others.
LEMMA EventsFollow ==
    ASSUME NEW q \in Seq(EventType), NEW new \in Seq(EventType)
    PROVE  /\ Calm(q) /\ Calm(new) => Calm(q \o new)
           /\ Renewed(q) /\ Calm(new) => Renewed(q \o new)
           /\ Renewed(new) => Renewed(q \o new)
           /\ \A i \in DOMAIN q : \E j \in DOMAIN (q \o new) : (q \o new)[j] = q[i]
           /\ \A i \in DOMAIN new : \E j \in DOMAIN (q \o new) : (q \o new)[j] = new[i]
<1> DEFINE r == q \o new
           m == Len(q)
           n == Len(new)
<1> HIDE DEF EventType
<1>1. /\ m \in Nat /\ n \in Nat /\ DOMAIN q = 1 .. m /\ DOMAIN new = 1 .. n /\ DOMAIN r = 1 .. m + n
      /\ \A i \in 1 .. m : r[i] = q[i]
      /\ \A i \in 1 .. n : r[m + i] = new[i]
  OBVIOUS
<1> HIDE DEF r, m, n
<1>2. \A j \in DOMAIN r : j > m => j - m \in DOMAIN new /\ r[j] = new[j - m]
  <2> SUFFICES ASSUME NEW j \in DOMAIN r, j > m PROVE j - m \in DOMAIN new /\ r[j] = new[j - m]
    OBVIOUS
  <2>1. j - m \in 1 .. n /\ m + (j - m) = j
    BY <1>1
  <2> QED
    BY <1>1, <2>1
<1>3. \A i \in DOMAIN q : i \in DOMAIN r /\ r[i] = q[i]
  BY <1>1
<1>4. \A i \in DOMAIN new : m + i \in DOMAIN r /\ r[m + i] = new[i]
  BY <1>1
<1>5. \A j \in DOMAIN r : j > m \/ j \in DOMAIN q
  BY <1>1
<1>6. ASSUME Calm(q), Calm(new) PROVE Calm(r)
  BY <1>2, <1>3, <1>5, <1>6 DEF Calm
<1>7. ASSUME Renewed(q), Calm(new) PROVE Renewed(r)
  <2>1. PICK i \in DOMAIN q : /\ q[i].type = "SelectionChanged"
                              /\ \A j \in DOMAIN q : j > i => q[j].type # "DownloadComplete"
    BY <1>7 DEF Renewed
  <2>2. \A j \in DOMAIN r : j > i => r[j].type # "DownloadComplete"
    BY <1>2, <1>3, <1>5, <1>7, <2>1 DEF Calm
  <2>3. i \in DOMAIN r /\ r[i].type = "SelectionChanged"
    BY <1>3, <2>1
  <2> QED
    BY <2>2, <2>3 DEF Renewed
<1>8. ASSUME Renewed(new) PROVE Renewed(r)
  <2>1. PICK i \in DOMAIN new : /\ new[i].type = "SelectionChanged"
                                /\ \A j \in DOMAIN new : j > i => new[j].type # "DownloadComplete"
    BY <1>8 DEF Renewed
  <2>2. m + i \in DOMAIN r /\ r[m + i].type = "SelectionChanged"
    BY <1>4, <2>1
  <2>3. ASSUME NEW j \in DOMAIN r, j > m + i PROVE r[j].type # "DownloadComplete"
    <3>1. j > m /\ j - m > i
      BY <1>1, <2>1, <2>3
    <3>2. j - m \in DOMAIN new /\ r[j] = new[j - m]
      BY <1>2, <3>1
    <3> QED
      BY <2>1, <3>1, <3>2
  <2> QED
    BY <2>2, <2>3 DEF Renewed
<1> QED
  BY <1>3, <1>4, <1>6, <1>7, <1>8 DEF r

\* The oldest event is taken.
LEMMA EventTaken ==
    ASSUME NEW q \in Seq(EventType), q # <<>>
    PROVE  /\ Calm(q) => Calm(Tail(q)) /\ Head(q).type # "DownloadComplete"
           /\ Renewed(q) => \/ Renewed(Tail(q))
                            \/ Head(q).type = "SelectionChanged" /\ Calm(Tail(q))
           /\ \A i \in DOMAIN q : q[i] = Head(q) \/ \E j \in DOMAIN Tail(q) : Tail(q)[j] = q[i]
<1> DEFINE r == Tail(q)
<1> HIDE DEF EventType
<1>1. /\ Head(q) = q[1] /\ 1 \in DOMAIN q /\ DOMAIN q \subseteq Nat /\ DOMAIN r \subseteq Nat
      /\ \A j \in DOMAIN r : j + 1 \in DOMAIN q /\ r[j] = q[j + 1]
      /\ \A i \in DOMAIN q : i = 1 \/ (i > 1 /\ i - 1 \in DOMAIN r /\ r[i - 1] = q[i])
  OBVIOUS
<1> HIDE DEF r
<1>2. ASSUME Calm(q) PROVE Calm(r) /\ q[1].type # "DownloadComplete"
  BY <1>1, <1>2 DEF Calm
<1>3. ASSUME Renewed(q) PROVE Renewed(r) \/ (q[1].type = "SelectionChanged" /\ Calm(r))
  <2>1. PICK i \in DOMAIN q : /\ q[i].type = "SelectionChanged"
                              /\ \A j \in DOMAIN q : j > i => q[j].type # "DownloadComplete"
    BY <1>3 DEF Renewed
  <2>2. CASE i = 1
    <3>1. \A j \in DOMAIN r : r[j].type # "DownloadComplete"
      <4> TAKE j \in DOMAIN r
      <4>1. j + 1 \in DOMAIN q /\ r[j] = q[j + 1] /\ j \in Nat /\ 1 \in DOMAIN q
        BY <1>1
      <4>2. j \in DOMAIN r /\ j # 0
        BY DEF r
      <4>3. j + 1 > i
        BY <2>2, <4>1, <4>2
      <4> QED
        BY <2>1, <4>1, <4>3
    <3> QED
      BY <2>1, <2>2, <3>1 DEF Calm
  <2>3. CASE i # 1
    <3>1. i - 1 \in DOMAIN r /\ r[i - 1] = q[i]
      BY <1>1, <2>3
    <3>2. ASSUME NEW j \in DOMAIN r, j > i - 1 PROVE r[j].type # "DownloadComplete"
      <4>1. j + 1 \in DOMAIN q /\ r[j] = q[j + 1] /\ j + 1 > i
        BY <1>1, <3>2
      <4> QED
        BY <2>1, <4>1
    <3> QED
      BY <2>1, <3>1, <3>2 DEF Renewed
  <2> QED
    BY <2>2, <2>3
<1> QED
  BY <1>1, <1>2, <1>3 DEF r

\* A done torrent stays done when a piece is completed.
LEMMA DoneStays ==
    ASSUME ManagerInv, NEW p, MarkCompleted(p), IsDone
    PROVE  IsDone'
<1>1. selection.wanted \subseteq completed
  BY CountersDecideDone DEF DoneMeansAllWanted
<1>2. ~Counts(p)
  BY <1>1 DEF Counts
<1> QED
  BY <1>2 DEF MarkCompleted, IsDone

\* What a broadcast contains: sessions lose their interest only when all is done, get
\* it back when it is not, and hear of every piece that has become servable.
TellsAll(new) ==
    /\ new \in Seq(EventType) /\ Len(new) <= 2
    /\ Finished' \/ Renewed(new) \/ (Calm(new) /\ ~Finished)
    /\ \A p \in ServablePieces' : p \in ServablePieces
                                  \/ \E k \in DOMAIN new : new[k] = PieceCompletedEvent(p)

\* A broadcast when a piece has been written.
LEMMA DownloadTellsAll ==
    ASSUME TransferInv, OnPieceDownloaded
    PROVE  TellsAll(PieceDownloadedEvents(Head(mailbox).piece))
<1> DEFINE p == Head(mailbox).piece
           new == PieceDownloadedEvents(p)
           c == p \notin completed /\ BecomesServable(p)
           d == has_completed' /\ ~has_completed
           e == PieceCompletedEvent(p)
           f == DownloadCompleteEvent
<1>0. ManagerInv /\ has_completed \in BOOLEAN
  BY DEF TransferInv, TransferTypeOK, ControlTypeOK
<1>1. p \in Piece /\ \E written : PieceDownloaded(p, written)
  <2>1. Head(mailbox) \in GoodMsg /\ Head(mailbox).type = "PieceDownloaded"
    BY ReceiveEffect DEF MailboxStep, OnPieceDownloaded, Receive
  <2> QED
    BY <2>1, GoodFields DEF PieceMsg, OnPieceDownloaded
<1> HIDE DEF p
<1>2. e \in EventType /\ f \in EventType /\ e.type # "DownloadComplete"
  BY <1>1 DEF EventType, PieceCompletedEvent
<1>3. new = When(c, e) \o When(d, f)
  BY DEF PieceDownloadedEvents
<1>4. \/ UNCHANGED coordinatorVars
      \/ ReturnWork(p) /\ UNCHANGED controlVars
      \/ /\ Downloading /\ p \notin completed /\ MarkCompleted(p)
         /\ has_completed' = (has_completed \/ IsDone')
         /\ UNCHANGED <<phase, next_piece, paused>>
  BY <1>1 DEF PieceDownloaded, IgnoresPiece
<1>5. d => Finished'
  BY <1>4 DEF Finished, Downloading, coordinatorVars, controlVars
<1>6. Finished => Finished'
  <2>1. CASE MarkCompleted(p) /\ phase' = phase
    BY <1>0, <2>1, DoneStays DEF Finished, Downloading
  <2>2. CASE UNCHANGED coordinatorVars
    BY <2>2 DEF Finished, Downloading, IsDone, coordinatorVars, managerVars, controlVars
  <2>3. CASE ReturnWork(p) /\ UNCHANGED controlVars
    BY <2>3 DEF Finished, Downloading, IsDone, ReturnWork, controlVars
  <2> QED
    BY <1>4, <2>1, <2>2, <2>3
<1>7. \A q \in ServablePieces' : q \in ServablePieces \/ (q = p /\ c)
  <2>1. CASE MarkCompleted(p)
    BY <1>1, <2>1 DEF MarkCompleted, ServablePieces, IsServable, BecomesServable
  <2>2. CASE UNCHANGED coordinatorVars \/ ReturnWork(p)
    <3>1. UNCHANGED <<completed, selection>>
      BY <2>2 DEF coordinatorVars, managerVars, ReturnWork
    <3> QED
      BY <3>1 DEF ServablePieces, IsServable
  <2> QED
    BY <1>4, <2>1, <2>2
<1> DEFINE A == When(c, e)
           B == When(d, f)
<1>8. (c => A = <<e>>) /\ (B = <<>> \/ Finished')
  BY <1>5 DEF When
<1>13. A \in {<<>>, <<e>>} /\ B \in {<<>>, <<f>>}
  BY DEF When
<1>11. new = A \o B
  BY <1>3
<1> HIDE DEF e, f, A, B, new, EventType
<1>9. /\ new \in Seq(EventType) /\ Len(new) <= 2
      /\ A = <<e>> => \E k \in DOMAIN new : new[k] = e
      /\ B = <<>> => \A k \in DOMAIN new : new[k] = e
  <2>1. e \in EventType /\ f \in EventType
    BY <1>2
  <2>2. Joined(A \o B, A, B, e, f)
    BY <1>13, <2>1, EventPair
  <2> QED
    BY <1>11, <2>2 DEF Joined
<1>10. Finished' \/ Calm(new)
  BY <1>2, <1>8, <1>9 DEF Calm
<1>12. \A q \in ServablePieces' : q \in ServablePieces
                                  \/ \E k \in DOMAIN new : new[k] = PieceCompletedEvent(q)
  <2>1. c => \E k \in DOMAIN new : new[k] = PieceCompletedEvent(p)
    BY <1>8, <1>9 DEF e
  <2> QED
    BY <1>7, <2>1
<1> QED
  BY <1>6, <1>9, <1>10, <1>12 DEF TellsAll, new, p

\* A broadcast during the file check.
LEMMA CheckTellsAll ==
    ASSUME TransferInv, NEW verified \in BOOLEAN, CheckTick(verified)
    PROVE  TellsAll(CheckTickEvents(verified))
<1> DEFINE p == next_piece
           new == CheckTickEvents(verified)
           c == verified /\ p \in selection.wanted /\ BecomesServable(p)
           d == phase' = "downloading" /\ IsDone'
           e == PieceCompletedEvent(p)
           f == DownloadCompleteEvent
<1>1. p \in Piece /\ ~Downloading
  BY NumPiecesAssumption DEF CheckTick, TransferInv, TransferTypeOK, ControlTypeOK, Piece, Downloading
<1>2. e \in EventType /\ f \in EventType /\ e.type # "DownloadComplete"
  BY <1>1 DEF EventType, PieceCompletedEvent
<1>3. new = When(c, e) \o When(d, f)
  BY DEF CheckTickEvents
<1>5. d => Finished'
  BY DEF Finished, Downloading
<1>6. ~Finished
  BY <1>1 DEF Finished
<1>7. \A q \in ServablePieces' : q \in ServablePieces \/ (q = p /\ c)
  <2>1. CASE verified /\ p \in selection.wanted /\ MarkCompleted(p)
    BY <1>1, <2>1 DEF MarkCompleted, ServablePieces, IsServable, BecomesServable
  <2>2. CASE UNCHANGED managerVars
    BY <2>2 DEF ServablePieces, IsServable, managerVars
  <2> QED
    BY <2>1, <2>2 DEF CheckTick
<1> DEFINE A == When(c, e)
           B == When(d, f)
<1>8. (c => A = <<e>>) /\ (B = <<>> \/ Finished')
  BY <1>5 DEF When
<1>13. A \in {<<>>, <<e>>} /\ B \in {<<>>, <<f>>}
  BY DEF When
<1>11. new = A \o B
  BY <1>3
<1> HIDE DEF e, f, A, B, new, EventType
<1>9. /\ new \in Seq(EventType) /\ Len(new) <= 2
      /\ A = <<e>> => \E k \in DOMAIN new : new[k] = e
      /\ B = <<>> => \A k \in DOMAIN new : new[k] = e
  <2>1. e \in EventType /\ f \in EventType
    BY <1>2
  <2>2. Joined(A \o B, A, B, e, f)
    BY <1>13, <2>1, EventPair
  <2> QED
    BY <1>11, <2>2 DEF Joined
<1>10. Finished' \/ Calm(new)
  BY <1>2, <1>8, <1>9 DEF Calm
<1>12. \A q \in ServablePieces' : q \in ServablePieces
                                  \/ \E k \in DOMAIN new : new[k] = PieceCompletedEvent(q)
  <2>1. c => \E k \in DOMAIN new : new[k] = PieceCompletedEvent(p)
    BY <1>8, <1>9 DEF e
  <2> QED
    BY <1>7, <2>1
<1> QED
  BY <1>6, <1>9, <1>10, <1>12 DEF TellsAll, new

\* A broadcast after a change of the selection: a piece is servable after it only if it
\* was before, because what a newly selected file holds is fetched again.
LEMMA SelectionTellsAll ==
    ASSUME TransferInv, SelectionCurrent, NEW files \in FileSet, OnSetSelection(files)
    PROVE  TellsAll(SetSelectionEvents(TRUE))
<1> DEFINE new == SetSelectionEvents(TRUE)
           c == IsDone' /\ ~has_completed
           d == ~IsDone'
           e == DownloadCompleteEvent
           f == SelectionChangedEvent
<1>1. /\ ApplySelection(SelectionOf(files), ToRefetch(selected_files, files)) /\ phase' = phase
  BY DEF OnSetSelection, SetSelection
<1>2. e \in EventType /\ f \in EventType /\ f.type = "SelectionChanged"
  BY DEF EventType, SelectionChangedEvent
<1>3. /\ ~Downloading => new = <<>>
      /\ Downloading => new = When(c, e) \o When(d, f)
  BY DEF SetSelectionEvents
<1>4. \A q \in ServablePieces' : q \in ServablePieces
  BY <1>1, LayoutAssumption DEF ApplySelection, ServablePieces, IsServable, SelectionCurrent,
     SelectionOf, ToRefetch
<1>5. CASE ~Downloading
  <2>1. new \in Seq(EventType) /\ Len(new) <= 2 /\ DOMAIN new = {}
    <3> HIDE DEF new, EventType
    <3> QED
      BY <1>3, <1>5
  <2> HIDE DEF new
  <2>2. Calm(new) /\ ~Finished
    BY <1>5, <2>1 DEF Calm, Finished
  <2> QED
    BY <1>4, <2>1, <2>2 DEF TellsAll, new
<1>6. CASE Downloading
  <2>1. d \/ Finished'
    BY <1>1, <1>6 DEF Finished, Downloading
  <2> DEFINE A == When(c, e)
             B == When(d, f)
  <2>2. A \in {<<>>, <<e>>} /\ B \in {<<>>, <<f>>} /\ (B = <<f>> \/ Finished')
    BY <2>1 DEF When
  <2> HIDE DEF e, f, A, B, new, EventType
  <2>3. /\ new \in Seq(EventType) /\ Len(new) <= 2
        /\ B = <<f>> => \E k \in DOMAIN new : new[k] = f /\ \A j \in DOMAIN new : ~(j > k)
    <3>1. Joined(A \o B, A, B, e, f)
      BY <1>2, <2>2, EventPair
    <3>2. new = A \o B
      BY <1>3, <1>6 DEF A, B
    <3> QED
      BY <3>1, <3>2 DEF Joined
  <2>4. Finished' \/ Renewed(new)
    BY <1>2, <2>2, <2>3 DEF Renewed
  <2> QED
    BY <1>4, <2>3, <2>4 DEF TellsAll, new
<1> QED
  BY <1>5, <1>6

\* Steps with a broadcast, and the other steps, which leave what is completed,
\* selected and done as it is.
LEMMA Broadcasting ==
    ASSUME TransferInv, SelectionCurrent,
           OnPieceDownloaded \/ OnCheckTick \/ \E files \in FileSet : OnSetSelection(files)
    PROVE  /\ UNCHANGED <<conn, am_interested, told>>
           /\ \E new : TellsAll(new) /\ Broadcast(new)
<1>1. CASE OnPieceDownloaded
  BY <1>1, DownloadTellsAll DEF OnPieceDownloaded
<1>2. CASE OnCheckTick
  BY <1>2, CheckTellsAll DEF OnCheckTick, sessionVars
<1>3. ASSUME NEW files \in FileSet, OnSetSelection(files)
      PROVE  /\ UNCHANGED <<conn, am_interested, told>>
             /\ \E new : TellsAll(new) /\ Broadcast(new)
  BY <1>3, SelectionTellsAll DEF OnSetSelection, sessionVars
<1> QED
  BY <1>1, <1>2, <1>3

\* The other steps.
LEMMA NotBroadcasting ==
    ASSUME TransferInv,
           \/ \E s \in Session : SessionStep(s)
           \/ OnGetCompletedPieces \/ OnRequestWork \/ OnAvailability \/ OnPieceFailed
           \/ (\E value \in BOOLEAN : OnSetPaused(value)) \/ UNCHANGED vars
    PROVE  UNCHANGED <<phase, completed, selection, wanted_total, wanted_completed, selected_files>>
<1>1. ASSUME NEW s \in Session, SessionStep(s)
      PROVE  UNCHANGED <<phase, completed, selection, wanted_total, wanted_completed, selected_files>>
  BY <1>1, SessionSends DEF coordinatorVars, managerVars, controlVars
<1>2. CASE OnGetCompletedPieces \/ OnRequestWork \/ OnAvailability \/ OnPieceFailed
  BY <1>2 DEF OnGetCompletedPieces, OnRequestWork, OnAvailability, OnPieceFailed, Receive,
     RequestWork, NextWorkFor, NoWorkFor, PeerBitfield, PeerHave, PeerGone, AddPeerPieces,
     RemovePeerPieces, PieceFailed, ReturnWork, coordinatorVars, managerVars, controlVars
<1>3. CASE (\E value \in BOOLEAN : OnSetPaused(value)) \/ UNCHANGED vars
  BY <1>3 DEF OnSetPaused, SetPaused, vars, coordinatorVars, managerVars, controlVars
<1> QED
  BY <1>1, <1>2, <1>3

\* The selection is the one asked for last.
LEMMA StepKeepsCurrent ==
    ASSUME TransferInv, SelectionCurrent, [Next]_vars
    PROVE  SelectionCurrent'
<1>1. CASE OnPieceDownloaded
  BY <1>1 DEF OnPieceDownloaded, Receive, PieceDownloaded, ReturnWork, MarkCompleted, coordinatorVars,
     managerVars, SelectionCurrent
<1>2. CASE OnCheckTick
  BY <1>2 DEF OnCheckTick, CheckTick, MarkCompleted, managerVars, SelectionCurrent
<1>3. ASSUME NEW files \in FileSet, OnSetSelection(files) PROVE SelectionCurrent'
  BY <1>3 DEF OnSetSelection, SetSelection, ApplySelection, SelectionCurrent
<1>4. CASE UNCHANGED <<phase, completed, selection, wanted_total, wanted_completed, selected_files>>
  BY <1>4 DEF SelectionCurrent
<1> QED
  BY <1>1, <1>2, <1>3, <1>4, NotBroadcasting DEF Next, MailboxStep

\* Who hears what: a session handles its oldest event, or leaves, or nothing changes.
LEMMA SessionEvents ==
    ASSUME TransferInv, NEW s \in Session, SessionStep(s)
    PROVE  /\ \/ HandleEvent(s) \/ Greet(s)
              \/ /\ events' = [events EXCEPT ![s] = <<>>]
                 /\ conn' = [conn EXCEPT ![s] = "down"]
              \/ events' = events /\ UNCHANGED <<told, am_interested>>
           /\ \A t \in Session : t # s => /\ conn'[t] = conn[t] /\ events'[t] = events[t]
                                          /\ am_interested'[t] = am_interested[t]
                                          /\ told'[t] = told[t]
           /\ \/ conn' = conn
              \/ conn' = [conn EXCEPT ![s] = "down"]
              \/ conn[s] = "down" /\ conn' = [conn EXCEPT ![s] = "opening"]
              \/ conn[s] = "up" /\ conn' = [conn EXCEPT ![s] = "asking"]
              \/ Greet(s)
              \/ conn[s] \in {"greeting", "up"} /\ conn' = [conn EXCEPT ![s] = "closing"]
<1>0. /\ conn \in [Session -> {"down", "opening", "greeting", "up", "asking", "closing"}]
      /\ events \in [Session -> Seq(EventType)] /\ am_interested \in [Session -> BOOLEAN]
      /\ told \in [Session -> SUBSET Piece]
  BY DEF TransferInv, TransferTypeOK
<1> HIDE DEF EventType
<1>1. CASE Connect(s) \/ MaybeRequestWork(s)
  BY <1>0, <1>1 DEF Connect, MaybeRequestWork
<1>2. CASE HandleEvent(s) \/ Greet(s)
  BY <1>0, <1>2 DEF HandleEvent, Greet
<1>3. CASE \/ \E choking \in BOOLEAN : HandleChoke(s, choking)
           \/ \E p \in Haves : HandleHave(s, p)
           \/ \E pieces \in Bitfields : HandleBitfield(s, pieces)
           \/ PieceCompletes(s) \/ GiveBackChokedJob(s) \/ FinishJob(s)
  BY <1>3 DEF HandleChoke, HandleHave, HandleBitfield, PieceCompletes, GiveBackChokedJob, FinishJob
<1>4. CASE HashMismatch(s) \/ SessionEnds(s)
  BY <1>0, <1>4 DEF HashMismatch, SessionEnds
<1>5. CASE FinishPeer(s) \/ Abort(s)
  <2>1. Gone(s)
    BY <1>5 DEF FinishPeer, Abort
  <2> QED
    BY <1>0, <2>1 DEF Gone
<1> QED
  BY <1>1, <1>2, <1>3, <1>4, <1>5 DEF SessionStep

\* A session without a connection has no events.
LEMMA StepKeepsDownQuiet ==
    ASSUME TransferInv, DownQuiet, [Next]_vars
    PROVE  DownQuiet'
<1>0. /\ conn \in [Session -> {"down", "opening", "greeting", "up", "asking", "closing"}]
      /\ events \in [Session -> Seq(EventType)]
  BY DEF TransferInv, TransferTypeOK
<1>1. ASSUME NEW s \in Session, SessionStep(s) PROVE DownQuiet'
  <2>1. \A t \in Session : t # s => conn'[t] = conn[t] /\ events'[t] = events[t]
    BY <1>1, SessionEvents
  <2>2. conn'[s] = "down" => events'[s] = <<>>
    <3>1. CASE HandleEvent(s)
      BY <3>1 DEF HandleEvent
    <3>2. CASE events' = [events EXCEPT ![s] = <<>>]
      BY <1>0, <3>2
    <3>3. CASE events' = events \/ Greet(s)
      <4>1. conn' = conn /\ ~Greet(s) => (conn'[s] = "down" => events'[s] = <<>>)
        BY <3>3 DEF DownQuiet
      <4>2. CASE Connect(s) \/ Greet(s) \/ MaybeRequestWork(s) \/ HashMismatch(s) \/ SessionEnds(s)
        BY <1>0, <4>2 DEF Connect, Greet, MaybeRequestWork, HashMismatch, SessionEnds
      <4>3. CASE FinishPeer(s) \/ Abort(s)
        <5>1. events' = [events EXCEPT ![s] = <<>>]
          BY <4>3 DEF FinishPeer, Abort, Gone
        <5> QED
          BY <3>2, <5>1
      <4> QED
        BY <1>1, <3>1, <4>1, <4>2, <4>3 DEF SessionStep, HandleChoke, HandleHave, HandleBitfield,
           PieceCompletes, GiveBackChokedJob, FinishJob
    <3> QED
      BY <1>1, <3>1, <3>2, <3>3, SessionEvents
  <2> QED
    BY <2>1, <2>2 DEF DownQuiet
<1>2. CASE OnGetCompletedPieces \/ OnRequestWork
  <2>1. /\ events' = events
        /\ \E c \in {"greeting", "up"} : conn' = [conn EXCEPT ![Head(mailbox).from] = c]
    BY <1>2 DEF OnGetCompletedPieces, OnRequestWork
  <2> QED
    BY <1>0, <2>1 DEF DownQuiet
<1>3. CASE OnAvailability \/ OnPieceFailed \/ (\E value \in BOOLEAN : OnSetPaused(value)) \/ UNCHANGED vars
  BY <1>3 DEF OnAvailability, OnPieceFailed, OnSetPaused, sessionVars, vars, DownQuiet
<1>4. ASSUME conn' = conn, NEW new, Broadcast(new) PROVE DownQuiet'
  BY <1>4 DEF Broadcast, DownQuiet
<1>5. CASE OnPieceDownloaded \/ OnCheckTick \/ \E files \in FileSet : OnSetSelection(files)
  BY <1>4, <1>5 DEF OnPieceDownloaded, OnCheckTick, OnSetSelection, sessionVars
<1> QED
  BY <1>1, <1>2, <1>3, <1>5 DEF Next, MailboxStep

\* No step makes a session lose the interest it owes.
LEMMA StepKeepsInterest ==
    ASSUME TransferInv, AskedOnce, SelectionCurrent, DownQuiet, NoLag, InterestOwed, [Next]_vars
    PROVE  InterestOwed'
<1>0. /\ conn \in [Session -> {"down", "opening", "greeting", "up", "asking", "closing"}]
      /\ events \in [Session -> Seq(EventType)] /\ am_interested \in [Session -> BOOLEAN]
  BY DEF TransferInv, TransferTypeOK
<1>1. UNCHANGED <<phase, completed, selection, wanted_total, wanted_completed, selected_files>>
        => (Finished' <=> Finished)
  BY DEF Finished, Downloading, IsDone
<1>2. ASSUME NEW t \in Session, conn'[t] = conn[t], events'[t] = events[t],
             am_interested'[t] = am_interested[t]
      PROVE  WillWant(t)' <=> WillWant(t)
  BY <1>2 DEF WillWant
<1>3. Renewed(<<>>) = FALSE /\ Calm(<<>>)
  BY DEF Renewed, Calm
<1>4. ASSUME NEW s \in Session, SessionStep(s) PROVE InterestOwed'
  <2>1. Finished' <=> Finished
    BY <1>1, <1>4, NotBroadcasting
  <2>2. ASSUME NEW t \in Session, t # s, conn'[t] # "down" PROVE Finished' \/ WillWant(t)'
    <3>1. conn'[t] = conn[t] /\ events'[t] = events[t] /\ am_interested'[t] = am_interested[t]
      BY <1>4, <2>2, SessionEvents
    <3>2. Finished \/ WillWant(t)
      BY <2>2, <3>1 DEF InterestOwed
    <3> QED
      BY <1>2, <2>1, <3>1, <3>2
  <2>3. ASSUME conn'[s] # "down" PROVE Finished' \/ WillWant(s)'
    <3>1. CASE HandleEvent(s)
      <4> DEFINE q == events[s]
                 h == Head(q)
      <4>1. /\ conn[s] = "up" /\ conn'[s] = "up" /\ q # <<>> /\ events'[s] = Tail(q)
            /\ am_interested'[s] = (\/ h.type = "SelectionChanged"
                                    \/ (am_interested[s] /\ h.type # "DownloadComplete"))
        BY <1>0, <3>1 DEF HandleEvent
      <4>2. Finished \/ Renewed(q) \/ (Calm(q) /\ am_interested[s])
        BY <4>1 DEF InterestOwed, WillWant
      <4>3. q \in Seq(EventType) /\ q # <<>>
        BY <1>0, <4>1
      <4> HIDE DEF q, h
      <4>4. /\ Calm(q) => Calm(Tail(q)) /\ h.type # "DownloadComplete"
            /\ Renewed(q) => \/ Renewed(Tail(q))
                             \/ h.type = "SelectionChanged" /\ Calm(Tail(q))
        BY <4>3, EventTaken DEF h
      <4>5. Finished \/ Renewed(events'[s]) \/ (Calm(events'[s]) /\ am_interested'[s])
        BY <4>1, <4>2, <4>4
      <4> QED
        BY <2>1, <4>5 DEF WillWant
    <3>2. CASE Greet(s)
      <4>1. conn[s] = "greeting" /\ events'[s] = events[s] /\ am_interested'[s]
        BY <1>0, <3>2 DEF Greet
      <4> QED
        BY <2>1, <4>1 DEF InterestOwed, WillWant
    <3>3. CASE events' = events /\ UNCHANGED <<told, am_interested>>
      <4>1. CASE conn[s] = "down"
        <5>1. conn'[s] = "opening"
          BY <1>0, <1>4, <2>3, <4>1, SessionEvents DEF Greet
        <5>2. events'[s] = <<>>
          BY <3>3, <4>1 DEF DownQuiet
        <5> QED
          BY <1>3, <5>1, <5>2 DEF WillWant
      <4>2. CASE conn[s] # "down"
        <5>1. Finished \/ WillWant(s)
          BY <4>2 DEF InterestOwed
        <5>2. conn[s] \in {"opening", "greeting", "closing"} /\ ~Greet(s)
                => conn'[s] \in {"opening", "greeting", "closing"}
          BY <1>0, <1>4, <2>3, SessionEvents
        <5> QED
          BY <2>1, <3>2, <3>3, <5>1, <5>2 DEF WillWant
      <4> QED
        BY <4>1, <4>2
    <3>4. CASE conn' = [conn EXCEPT ![s] = "down"]
      BY <1>0, <2>3, <3>4
    <3> QED
      BY <1>4, <3>1, <3>2, <3>3, <3>4, SessionEvents
  <2> QED
    BY <2>2, <2>3 DEF InterestOwed
<1>5. CASE OnGetCompletedPieces
  <2> DEFINE s == Head(mailbox).from
  <2>1. Finished' <=> Finished
    BY <1>1, <1>5, NotBroadcasting
  <2>2. conn' = [conn EXCEPT ![s] = "greeting"] /\ UNCHANGED <<events, am_interested>>
    BY <1>5 DEF OnGetCompletedPieces
  <2> HIDE DEF s
  <2>3. ASSUME NEW t \in Session, conn'[t] # "down" PROVE Finished' \/ WillWant(t)'
    <3>1. CASE t = s
      <4>1. conn'[t] = "greeting" /\ events'[t] = events[t]
        BY <1>0, <2>2, <3>1
      <4>2. Finished \/ Renewed(events[t]) \/ Calm(events[t])
        BY <1>3 DEF InterestOwed, WillWant, DownQuiet
      <4> QED
        BY <2>1, <4>1, <4>2 DEF WillWant
    <3>2. CASE t # s
      <4>1. conn'[t] = conn[t] /\ events'[t] = events[t] /\ am_interested'[t] = am_interested[t]
        BY <1>0, <2>2, <3>2
      <4> QED
        BY <1>2, <2>1, <2>3, <4>1 DEF InterestOwed
    <3> QED
      BY <3>1, <3>2
  <2> QED
    BY <2>3 DEF InterestOwed
<1>6. CASE OnRequestWork
  <2> DEFINE s == Head(mailbox).from
  <2>1. Finished' <=> Finished
    BY <1>1, <1>6, NotBroadcasting
  <2>2. /\ conn' = [conn EXCEPT ![s] = "up"] /\ events' = events /\ am_interested' = am_interested
    BY <1>6 DEF OnRequestWork
  <2>3. conn[s] = "asking"
    BY <1>6, HeadAsks
  <2> HIDE DEF s
  <2>4. ASSUME NEW t \in Session, conn'[t] # "down" PROVE Finished' \/ WillWant(t)'
    <3>1. conn[t] \in {"opening", "greeting", "closing"} => conn'[t] = conn[t]
      BY <1>0, <2>2, <2>3, <2>4
    <3>2. conn[t] # "down"
      BY <1>0, <2>2, <2>3, <2>4
    <3> QED
      BY <2>1, <2>2, <3>1, <3>2 DEF InterestOwed, WillWant
  <2> QED
    BY <2>4 DEF InterestOwed
<1>7. CASE OnAvailability \/ OnPieceFailed \/ (\E value \in BOOLEAN : OnSetPaused(value)) \/ UNCHANGED vars
  <2>1. Finished' <=> Finished
    BY <1>1, <1>7, NotBroadcasting
  <2>2. UNCHANGED <<conn, events, am_interested>>
    BY <1>7 DEF OnAvailability, OnPieceFailed, OnSetPaused, sessionVars, vars
  <2> QED
    BY <1>2, <2>1, <2>2 DEF InterestOwed
<1>8. CASE OnPieceDownloaded \/ OnCheckTick \/ \E files \in FileSet : OnSetSelection(files)
  <2>1. UNCHANGED <<conn, am_interested>>
    BY <1>8, Broadcasting
  <2>2. PICK new : TellsAll(new) /\ Broadcast(new)
    BY <1>8, Broadcasting
  <2>3. ASSUME NEW t \in Session, conn'[t] # "down" PROVE Finished' \/ WillWant(t)'
    <3> DEFINE q == events[t]
    <3>1. events'[t] = q \o new /\ q \in Seq(EventType) /\ new \in Seq(EventType)
      BY <1>0, <2>1, <2>2, <2>3, AllHeard DEF TellsAll
    <3>2. Finished' \/ Renewed(new) \/ (Calm(new) /\ ~Finished)
      BY <2>2 DEF TellsAll
    <3>3. Finished \/ Renewed(q) \/ (Calm(q) /\ (am_interested[t] \/ conn[t] \in {"opening", "greeting", "closing"}))
      BY <2>1, <2>3 DEF InterestOwed, WillWant
    <3> HIDE DEF q
    <3>4. /\ Calm(q) /\ Calm(new) => Calm(q \o new)
          /\ Renewed(q) /\ Calm(new) => Renewed(q \o new)
          /\ Renewed(new) => Renewed(q \o new)
      BY <3>1, EventsFollow
    <3> QED
      BY <2>1, <3>1, <3>2, <3>3, <3>4 DEF WillWant
  <2> QED
    BY <2>3 DEF InterestOwed
<1> QED
  BY <1>4, <1>5, <1>6, <1>7, <1>8 DEF Next, MailboxStep

\* What holds of the events, with all that may happen to the sessions.
EventInv == TransferInv /\ AskedOnce /\ SelectionCurrent /\ DownQuiet

\* It holds initially, and nobody is interested or informed of anything.
LEMMA InitIsEventInv ==
    ASSUME Init
    PROVE  EventInv /\ InterestOwed /\ Informed /\ phase \in {"checking", "downloading"}
<1>1. TransferInv /\ AskedOnce
  BY InitIsReserved DEF ReservedInv
<1>2. /\ conn = [s \in Session |-> "down"] /\ events = [s \in Session |-> <<>>]
      /\ selection = SelectionOf(selected_files)
  BY DEF Init, StartsFrom
<1> QED
  BY <1>1, <1>2 DEF EventInv, SelectionCurrent, DownQuiet, InterestOwed, Informed, TransferInv,
     TransferTypeOK, ControlTypeOK

\* Every step keeps it.
LEMMA StepKeepsEventInv ==
    ASSUME EventInv, [Next]_vars
    PROVE  EventInv'
BY StepKeepsTransferInv, StepKeepsAsked, StepKeepsCurrent, StepKeepsDownQuiet DEF EventInv

\* While no session lags, a session that has caught up with the events is interested
\* unless every wanted piece is there: NOT_INTERESTED, sent when the download was
\* complete, is taken back by any change of the selection that makes it incomplete.
THEOREM InterestAlwaysKept == Spec /\ []NoLag => []InterestKept
<1> DEFINE I == EventInv /\ InterestOwed
<1>1. Init => I
  BY InitIsEventInv
<1>2. I /\ NoLag /\ [Next]_vars => I'
  BY StepKeepsEventInv, StepKeepsInterest DEF EventInv
<1>3. I => InterestKept
  <2> SUFFICES ASSUME I, NEW s \in Session, Caught(s), ~am_interested[s]
               PROVE  IsDone
    BY DEF InterestKept
  <2>1. conn[s] \in {"up", "asking"} /\ events[s] = <<>>
    BY DEF Caught
  <2>2. ~Renewed(events[s])
    BY <2>1 DEF Renewed
  <2> QED
    BY <2>1, <2>2 DEF InterestOwed, WillWant, Finished
<1> HIDE DEF I
<1>4. Spec /\ []NoLag => []I
  BY <1>1, <1>2, PTL DEF Spec
<1> QED
  BY <1>3, <1>4, PTL

\* A session keeps a peer informed of a piece: what the peer knows stays known, and an
\* event that is taken is told.
Knows(t, p) ==
    p \in told[t] \/ \E i \in DOMAIN events[t] : events[t][i] = PieceCompletedEvent(p)

\* While no session lags, no step leaves a connected peer uninformed: the reply to
\* GetCompletedPieces covers what was completed before it, the events cover the rest.
LEMMA StepKeepsInformed ==
    ASSUME EventInv, NoLag, Downloading, Informed, [Next]_vars
    PROVE  Informed'
<1>0. /\ conn \in [Session -> {"down", "opening", "greeting", "up", "asking", "closing"}]
      /\ events \in [Session -> Seq(EventType)] /\ told \in [Session -> SUBSET Piece]
      /\ TransferInv /\ AskedOnce /\ SelectionCurrent
  BY DEF EventInv, TransferInv, TransferTypeOK
<1>1. UNCHANGED <<phase, completed, selection, wanted_total, wanted_completed, selected_files>>
        => ServablePieces' = ServablePieces
  BY DEF ServablePieces, IsServable
<1> DEFINE Up(t) == conn[t] \in {"greeting", "up", "asking"}
<1>2. ASSUME NEW t \in Session, Up(t), NEW p \in ServablePieces PROVE Knows(t, p)
  BY <1>2 DEF Informed, Knows
<1>3. ASSUME \A t \in Session : conn'[t] \in {"greeting", "up", "asking"} => \A p \in ServablePieces' : Knows(t, p)'
      PROVE  Informed'
  BY <1>3 DEF Informed, Knows
<1>4. ASSUME NEW s \in Session, SessionStep(s) PROVE Informed'
  <2>1. ServablePieces' = ServablePieces
    BY <1>0, <1>1, <1>4, NotBroadcasting
  <2>2. ASSUME NEW t \in Session, t # s, conn'[t] \in {"greeting", "up", "asking"}, NEW p \in ServablePieces
        PROVE  Knows(t, p)'
    <3>1. conn'[t] = conn[t] /\ events'[t] = events[t] /\ told'[t] = told[t]
      BY <1>0, <1>4, <2>2, SessionEvents
    <3> QED
      BY <1>2, <2>2, <3>1 DEF Knows
  <2>3. ASSUME conn'[s] \in {"greeting", "up", "asking"}, NEW p \in ServablePieces PROVE Knows(s, p)'
    <3>1. CASE HandleEvent(s)
      <4> DEFINE q == events[s]
                 h == Head(q)
      <4>1. /\ Up(s) /\ q # <<>> /\ events'[s] = Tail(q) /\ q \in Seq(EventType)
            /\ told'[s] = IF h.type = "PieceCompleted" THEN told[s] \cup {h.piece} ELSE told[s]
        BY <1>0, <3>1 DEF HandleEvent
      <4>2. p \in told[s] \/ \E i \in DOMAIN q : q[i] = PieceCompletedEvent(p)
        BY <1>2, <4>1 DEF Knows
      <4>3. h = PieceCompletedEvent(p) => h.type = "PieceCompleted" /\ h.piece = p
        BY DEF PieceCompletedEvent
      <4> HIDE DEF q, h
      <4>4. \A i \in DOMAIN q : q[i] = h \/ \E j \in DOMAIN Tail(q) : Tail(q)[j] = q[i]
        BY <4>1, EventTaken DEF h
      <4>5. p \in told'[s] \/ \E j \in DOMAIN events'[s] : events'[s][j] = PieceCompletedEvent(p)
        BY <4>1, <4>2, <4>3, <4>4
      <4> QED
        BY <4>5 DEF Knows
    <3>2. CASE events' = events /\ told' = told
      <4>1. Up(s)
        BY <1>0, <1>4, <2>3, SessionEvents DEF Greet
      <4> QED
        BY <1>2, <3>2, <4>1 DEF Knows
    <3>3. CASE conn' = [conn EXCEPT ![s] = "down"]
      BY <1>0, <2>3, <3>3
    <3> QED
      BY <1>0, <1>4, <3>1, <3>2, <3>3, SessionEvents DEF Greet
  <2> QED
    BY <1>3, <2>1, <2>2, <2>3
<1>5. CASE OnGetCompletedPieces
  <2> DEFINE s == Head(mailbox).from
  <2>1. ServablePieces' = ServablePieces
    BY <1>0, <1>1, <1>5, NotBroadcasting
  <2>2. /\ conn' = [conn EXCEPT ![s] = "greeting"] /\ events' = events
        /\ told' = [told EXCEPT ![s] = ServablePieces]
    BY <1>5 DEF OnGetCompletedPieces
  <2> HIDE DEF s
  <2>3. ASSUME NEW t \in Session, conn'[t] \in {"greeting", "up", "asking"}, NEW p \in ServablePieces
        PROVE  Knows(t, p)'
    <3>1. CASE t = s
      BY <1>0, <2>2, <3>1 DEF Knows
    <3>2. CASE t # s
      <4>1. Up(t) /\ events'[t] = events[t] /\ told'[t] = told[t]
        BY <1>0, <2>2, <2>3, <3>2
      <4> QED
        BY <1>2, <4>1 DEF Knows
    <3> QED
      BY <3>1, <3>2
  <2> QED
    BY <1>3, <2>1, <2>3
<1>6. CASE OnRequestWork
  <2> DEFINE s == Head(mailbox).from
  <2>1. ServablePieces' = ServablePieces
    BY <1>0, <1>1, <1>6, NotBroadcasting
  <2>2. conn' = [conn EXCEPT ![s] = "up"] /\ events' = events /\ told' = told
    BY <1>6 DEF OnRequestWork
  <2>3. conn[s] = "asking"
    BY <1>0, <1>6, HeadAsks
  <2> HIDE DEF s
  <2>4. ASSUME NEW t \in Session, conn'[t] \in {"greeting", "up", "asking"}, NEW p \in ServablePieces
        PROVE  Knows(t, p)'
    <3>1. Up(t)
      BY <1>0, <2>2, <2>3, <2>4
    <3> QED
      BY <1>2, <2>2, <3>1 DEF Knows
  <2> QED
    BY <1>3, <2>1, <2>4
<1>7. CASE OnAvailability \/ OnPieceFailed \/ (\E value \in BOOLEAN : OnSetPaused(value)) \/ UNCHANGED vars
  <2>1. ServablePieces' = ServablePieces
    BY <1>0, <1>1, <1>7, NotBroadcasting
  <2>2. UNCHANGED <<conn, events, told>>
    BY <1>7 DEF OnAvailability, OnPieceFailed, OnSetPaused, sessionVars, vars
  <2> QED
    BY <2>1, <2>2 DEF Informed
<1>8. CASE OnPieceDownloaded \/ OnCheckTick \/ \E files \in FileSet : OnSetSelection(files)
  <2>1. UNCHANGED <<conn, told>>
    BY <1>0, <1>8, Broadcasting
  <2>2. PICK new : TellsAll(new) /\ Broadcast(new)
    BY <1>0, <1>8, Broadcasting
  <2>3. ASSUME NEW t \in Session, conn'[t] \in {"greeting", "up", "asking"}, NEW p \in ServablePieces'
        PROVE  Knows(t, p)'
    <3> DEFINE q == events[t]
               e == PieceCompletedEvent(p)
    <3>1. events'[t] = q \o new /\ q \in Seq(EventType) /\ new \in Seq(EventType)
      BY <1>0, <2>1, <2>2, <2>3, AllHeard DEF TellsAll
    <3>2. p \in ServablePieces \/ \E k \in DOMAIN new : new[k] = e
      BY <2>2, <2>3 DEF TellsAll
    <3>3. p \in ServablePieces => p \in told[t] \/ \E i \in DOMAIN q : q[i] = e
      BY <1>2, <2>1, <2>3 DEF Knows
    <3> HIDE DEF q, e
    <3>4. /\ \A i \in DOMAIN q : \E j \in DOMAIN (q \o new) : (q \o new)[j] = q[i]
          /\ \A i \in DOMAIN new : \E j \in DOMAIN (q \o new) : (q \o new)[j] = new[i]
      BY <3>1, EventsFollow
    <3>5. p \in told'[t] \/ \E j \in DOMAIN events'[t] : events'[t][j] = e
      BY <2>1, <3>1, <3>2, <3>3, <3>4
    <3> QED
      BY <3>5 DEF Knows, e
  <2> QED
    BY <1>3, <2>3
<1> QED
  BY <1>4, <1>5, <1>6, <1>7, <1>8 DEF Next, MailboxStep

\* While no session lags, a peer that was sent every event knows every piece we serve,
\* whenever it connected.  A torrent that begins with a file check is excluded: a peer
\* that connects in its middle is sent no BITFIELD of what was verified before.
THEOREM ServableAlwaysAdvertised ==
    "check" \notin Behaviours /\ Spec /\ []NoLag => []ServableAdvertised
<1> DEFINE I == "check" \notin Behaviours /\ EventInv /\ Downloading /\ Informed
<1>1. "check" \notin Behaviours /\ Init => I
  BY InitIsEventInv DEF Init, Downloading
<1>2. I /\ NoLag /\ [Next]_vars => I'
  <2> SUFFICES ASSUME I, NoLag, [Next]_vars PROVE I'
    OBVIOUS
  <2>1. EventInv' /\ Informed'
    BY StepKeepsEventInv, StepKeepsInformed
  <2>2. Downloading'
    BY <2>1, CheckNotResumed DEF EventInv, TransferInv, TransferTypeOK, ControlTypeOK, Downloading
  <2> QED
    BY <2>1, <2>2
<1>3. I => ServableAdvertised
  <2> SUFFICES ASSUME I, NEW s \in Session, Caught(s), NEW p \in ServablePieces
               PROVE  p \in told[s]
    BY DEF ServableAdvertised
  <2>1. conn[s] \in {"up", "asking"} /\ DOMAIN events[s] = {}
    BY DEF Caught
  <2> QED
    BY <2>1 DEF Informed
<1> HIDE DEF I
<1>4. "check" \notin Behaviours /\ Spec /\ []NoLag => []I
  BY <1>1, <1>2, PTL DEF Spec
<1> QED
  BY <1>3, <1>4, PTL

=============================================================================
