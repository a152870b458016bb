----------------------------- MODULE BlockFetch -----------------------------
(***************************************************************************)
(* How one session fetches pieces block by block: the piece assembler      *)
(* (src/core/assembler.rs), the request pipeline and the handling of       *)
(* PIECE, CHOKE and UNCHOKE (session.rs), the incremental decoder          *)
(* (wire.rs) and the download limiter every connection reads through       *)
(* (shaper.rs).                                                            *)
(*                                                                         *)
(* The stream is a sequence of units of MIN_CHUNK bytes; a message is one  *)
(* or more units and its first unit carries the length prefix.  Time is    *)
(* discrete: a tick is a second, and the session does all it can before    *)
(* the next one.  The peer is external and honest: it sends every block it *)
(* is asked for, discards the requests it holds when it chokes us, and     *)
(* ignores requests while it does.  Each select! branch is followed by     *)
(* maybe_request_work and fill_pipeline, in the same step.                 *)
(*                                                                         *)
(* Another session may complete the piece first (endgame); the blocks that *)
(* were asked for arrive all the same.                                     *)
(***************************************************************************)
EXTENDS Integers, Sequences, FiniteSetsExt

CONSTANTS
    LastPiece,      \* pieces 1..LastPiece are fetched one after the other
    NumBlocks,      \* blocks of a piece
    BlockUnits,     \* units of a block (BLOCK_SIZE is 4 of them)
    LastUnits,      \* units of the last block of a piece
    PipelineDepth,  \* PIPELINE_DEPTH (16)
    RetryTimeout,   \* REQUEST_RETRY_TIMEOUT (5 s)
    StallTimeout,   \* BLOCK_STALL_TIMEOUT (60 s)
    ChokedTimeout,  \* CHOKED_JOB_TIMEOUT (30 s)
    ReadChunk,      \* READ_CHUNK (4 units)
    MinBurst,       \* MIN_BURST (4 units)
    Rates,          \* limits the user may set, in units per second; 0 is none
    MaxRateChanges, \* bound on changes of the limit
    MaxChokes       \* bound on how often the peer chokes us

ASSUME PiecesAssumption == {LastPiece, NumBlocks, BlockUnits, LastUnits} \subseteq Nat \ {0}
ASSUME TimeoutsAssumption == {PipelineDepth, RetryTimeout, StallTimeout, ChokedTimeout} \subseteq Nat
ASSUME LimitsAssumption ==
    {ReadChunk, MinBurst} \subseteq Nat \ {0} /\ Rates \subseteq Nat /\ Rates # {}
ASSUME FetchBoundsAssumption == {MaxRateChanges, MaxChokes} \subseteq Nat

VARIABLES
    todo,           \* pieces the coordinator has not assigned yet
    job,            \* the piece being fetched, or NoJob
    requested,      \* block -> seconds since it was requested, or Never
    completed,      \* blocks received
    buffer,         \* block -> the piece its data came from
    received,       \* received_bytes, in units
    silent,         \* seconds since the last new block
    peer_choking,
    assembled,      \* pieces reported with PieceDownloaded
    dropped,        \* the session ended with an error
    requests,       \* at the peer: requests it will answer
    choked,         \* at the peer: it is choking us
    chokes,
    socket,         \* units the peer sent and we have not read
    decoded,        \* units in the decoder's buffer
    rate,
    tokens,
    changes

assemblerVars == <<requested, completed, buffer, received>>
sessionVars == <<todo, job, assemblerVars, silent, peer_choking, assembled, dropped>>
peerVars == <<requests, choked, chokes>>
limiterVars == <<rate, tokens, changes>>
vars == <<sessionVars, peerVars, socket, decoded, limiterVars>>

NoJob == 0
Never == -1
Block == 1..NumBlocks
Units(b) == IF b = NumBlocks THEN LastUnits ELSE BlockUnits
\* The length of a set of blocks; only the last block of a piece is shorter.
Size(blocks) == BlockUnits * Cardinality(blocks \ {NumBlocks})
                + IF NumBlocks \in blocks THEN LastUnits ELSE 0
ExpectedLength == Size(Block)

------------------------------------------------------------------------------
\* PieceAssembler::new
Fresh == [requested |-> [b \in Block |-> Never], completed |-> {},
          buffer |-> [b \in Block |-> NoJob], received |-> 0]
Assembler == [requested |-> requested, completed |-> completed,
              buffer |-> buffer, received |-> received]

InFlight(a) == {b \in Block \ a.completed : a.requested[b] \in 0..RetryTimeout}
ResetRequests(a) ==
    [a EXCEPT !.requested = [b \in Block |-> IF b \in a.completed THEN @[b] ELSE Never]]
AddBlock(a, b, piece) ==
    [a EXCEPT !.completed = @ \cup {b}, !.buffer[b] = piece, !.received = @ + Units(b)]

\* fill_pipeline calls next_request until PIPELINE_DEPTH blocks are in flight: the
\* first ones that were not requested, or longer ago than the retry timeout.
NextRequests(a) ==
    LET wanted == Block \ (a.completed \cup InFlight(a))
        room == PipelineDepth - Cardinality(InFlight(a))
    IN {b \in wanted : Cardinality({c \in wanted : c < b}) < room}

Nth(set, i) == CHOOSE b \in set : Cardinality({c \in set : c < b}) = i - 1

\* The session after a select! branch: without a job it gets the next piece, then it
\* sends the requests there is room for, which a choking peer ignores.
Proceed(queue, piece, a, quiet, choking) ==
    LET starts == piece = NoJob /\ ~choking /\ queue # <<>>
        now == IF starts THEN Head(queue) ELSE piece
        base == IF starts THEN Fresh ELSE a
        asked == IF now = NoJob \/ choking THEN {} ELSE NextRequests(base)
    IN /\ todo' = IF starts THEN Tail(queue) ELSE queue
       /\ job' = now
       /\ requested' = [b \in Block |-> IF b \in asked THEN 0 ELSE base.requested[b]]
       /\ completed' = base.completed
       /\ buffer' = base.buffer
       /\ received' = base.received
       /\ silent' = IF starts THEN 0 ELSE quiet
       /\ peer_choking' = choking
       /\ requests' = IF choked THEN requests
                      ELSE requests \o [i \in 1..Cardinality(asked) |->
                             [piece |-> now, block |-> Nth(asked, i)]]

------------------------------------------------------------------------------
\* MessageDecoder: a message is decoded when all its units are in the buffer.
Complete == decoded # <<>> /\ Len(decoded) >= Head(decoded).len
Consumed == SubSeq(decoded, Head(decoded).len + 1, Len(decoded))
Decodes(type) ==
    /\ ~dropped /\ Complete /\ Head(decoded).type = type
    /\ decoded' = Consumed
    /\ UNCHANGED <<choked, chokes, socket, limiterVars>>

ChokeReceived ==
    /\ Decodes("choke")
    /\ Proceed(todo, job, ResetRequests(Assembler), silent, TRUE)
    /\ UNCHANGED <<assembled, dropped>>

UnchokeReceived ==
    /\ Decodes("unchoke")
    /\ Proceed(todo, job, Assembler, silent, FALSE)
    /\ UNCHANGED <<assembled, dropped>>

\* Mutant of ExpectedNew: the index of the piece is not compared.
ExpectedNewAnyPiece(piece, b) == job # NoJob /\ b \notin completed

\* classify_block, for a block of the piece the session is fetching.
ExpectedNew(piece, b) == job = piece /\ b \notin completed

\* handle_piece: duplicates and blocks of other pieces are counted and dropped; the
\* last missing block completes the piece, whose hash decides.
PieceReceived ==
    LET piece == Head(decoded).piece
        b == Head(decoded).block
        a == AddBlock(Assembler, b, piece)
        matches == \A c \in Block : a.buffer[c] = job
    IN /\ Decodes("piece")
       /\ IF ~ExpectedNew(piece, b)
          THEN Proceed(todo, job, Assembler, silent, peer_choking) /\ UNCHANGED <<assembled, dropped>>
          ELSE IF a.received # ExpectedLength
          THEN Proceed(todo, job, a, 0, peer_choking) /\ UNCHANGED <<assembled, dropped>>
          ELSE IF matches
          THEN /\ Proceed(todo, NoJob, Fresh, 0, peer_choking)
               /\ assembled' = assembled \cup {job}
               /\ UNCHANGED dropped
          ELSE /\ dropped' = TRUE
               /\ UNCHANGED <<todo, job, assemblerVars, silent, peer_choking, assembled, requests>>

\* PieceCompleted of the piece we are fetching: another session was faster.
OtherFinished ==
    /\ ~dropped /\ job # NoJob
    /\ Proceed(todo, NoJob, Fresh, silent, peer_choking)
    /\ assembled' = assembled \cup {job}
    /\ UNCHANGED <<dropped, choked, chokes, socket, decoded, limiterVars>>

------------------------------------------------------------------------------
Burst(r) == Max({r \div 4, MinBurst})

\* Limiter::acquire for a read of ReadChunk bytes, of at least one unit.
Allowed == IF rate = 0 THEN ReadChunk ELSE Min({tokens, ReadChunk})
CanRead == ~dropped /\ ~Complete /\ socket # <<>> /\ Allowed > 0

\* poll_read takes tokens, reads what is there and gives the rest back; the decoder
\* is fed with all of it, before anything else can happen to the session.
Read ==
    LET n == Min({Allowed, Len(socket)})
    IN /\ CanRead
       /\ decoded' = decoded \o SubSeq(socket, 1, n)
       /\ socket' = SubSeq(socket, n + 1, Len(socket))
       /\ tokens' = IF rate = 0 THEN tokens ELSE tokens - n
       /\ UNCHANGED <<sessionVars, peerVars, rate, changes>>

SetRate(r) ==
    /\ changes < MaxRateChanges /\ r # rate
    /\ rate' = r
    /\ tokens' = Min({tokens, Burst(r)})
    /\ changes' = changes + 1
    /\ UNCHANGED <<sessionVars, peerVars, socket, decoded>>

\* A second passes and the session does its housekeeping.  `decoder.next()` is
\* cancelled for it, which leaves the decoder's buffer alone.
Older(age, limit) == IF age = Never \/ age > limit THEN age ELSE age + 1

TooLongChoked(quiet) == job # NoJob /\ peer_choking /\ quiet > ChokedTimeout

Stalled(quiet) == job # NoJob /\ ~peer_choking /\ quiet > StallTimeout

\* Mutant of GivenBack: PieceFailed is not sent for a piece that is given up.
KeptBack == todo
GivenBack == Append(todo, job)

TickKeeping(units) ==
    LET quiet == IF silent > Max({StallTimeout, ChokedTimeout}) THEN silent ELSE silent + 1
        aged == [Assembler EXCEPT !.requested = [b \in Block |-> Older(@[b], RetryTimeout)]]
    IN /\ ~dropped /\ ~Complete /\ ~CanRead /\ requests = <<>>
       /\ Cardinality(assembled) < LastPiece
       /\ IF Stalled(quiet)
          THEN /\ dropped' = TRUE
               /\ UNCHANGED <<todo, job, assemblerVars, silent, peer_choking, requests>>
          ELSE /\ IF TooLongChoked(quiet)
                  THEN Proceed(GivenBack, NoJob, Fresh, quiet, peer_choking)
                  ELSE Proceed(todo, job, aged, quiet, peer_choking)
               /\ UNCHANGED dropped
       /\ tokens' = IF rate = 0 THEN tokens ELSE Min({tokens + rate, Burst(rate)})
       /\ decoded' = units
       /\ UNCHANGED <<assembled, choked, chokes, socket, rate, changes>>

\* Mutant of Tick: what was read of an unfinished message is lost with the future.
TickLosing == TickKeeping(<<>>)

Tick == TickKeeping(decoded)

------------------------------------------------------------------------------
\* The peer (external).
Message(type, piece, b, len) ==
    [k \in 1..len |-> [type |-> type, piece |-> piece, block |-> b, k |-> k, len |-> len]]

Serve ==
    /\ requests # <<>>
    /\ LET r == Head(requests)
       IN socket' = socket \o Message("piece", r.piece, r.block, Units(r.block))
    /\ requests' = Tail(requests)
    /\ UNCHANGED <<sessionVars, choked, chokes, decoded, limiterVars>>

PeerChokes ==
    /\ ~choked /\ chokes < MaxChokes
    /\ choked' = TRUE /\ chokes' = chokes + 1
    /\ requests' = <<>>
    /\ socket' = socket \o Message("choke", NoJob, 0, 1)
    /\ UNCHANGED <<sessionVars, decoded, limiterVars>>

PeerUnchokes ==
    /\ choked
    /\ choked' = FALSE
    /\ socket' = socket \o Message("unchoke", NoJob, 0, 1)
    /\ UNCHANGED <<sessionVars, requests, chokes, decoded, limiterVars>>

------------------------------------------------------------------------------
Init ==
    /\ todo = [i \in 1..LastPiece |-> i]
    /\ job = NoJob
    /\ requested = Fresh.requested /\ completed = {}
    /\ buffer = Fresh.buffer /\ received = 0
    /\ silent = 0
    /\ peer_choking = TRUE
    /\ assembled = {} /\ dropped = FALSE
    /\ requests = <<>> /\ choked = TRUE /\ chokes = 0
    /\ socket = <<>> /\ decoded = <<>>
    /\ rate \in Rates /\ tokens = Burst(rate) /\ changes = 0

Session == ChokeReceived \/ UnchokeReceived \/ PieceReceived \/ Read \/ Tick

Next ==
    \/ Session \/ OtherFinished
    \/ Serve \/ PeerChokes \/ PeerUnchokes
    \/ \E r \in Rates : SetRate(r)

\* The session and the peer go on, and the peer does not choke us for ever.
Fairness == WF_vars(Session \/ Serve) /\ WF_vars(PeerUnchokes)

Spec == Init /\ [][Next]_vars /\ Fairness

------------------------------------------------------------------------------
\* No byte is lost or read twice between the socket and the messages, however reads
\* are cut by the limiter and cancelled by the tick: the decoder's buffer begins with
\* a message and goes on without a gap into what the peer sent.
StreamWhole ==
    LET stream == decoded \o socket
    IN /\ decoded # <<>> => Head(decoded).k = 1
       /\ \A i \in 1..(Len(stream) - 1) :
            stream[i + 1].k = IF stream[i].k = stream[i].len THEN 1 ELSE stream[i].k + 1

\* The assembler holds data of the current piece only and has counted every block
\* once, although requests are repeated and late blocks of other pieces arrive.
BlocksExact ==
    /\ received = Size(completed)
    /\ \A b \in completed : buffer[b] = job

\* A peer that sends every block it is asked for is not dropped as stalled.  Whether
\* this holds is a matter of the limit and the time-outs: at the lowest limit and with
\* the time-outs of the code it does not.
GoodPeerKept == ~dropped

\* Every piece is assembled in the end.
PiecesAssembled == <>(assembled = 1..LastPiece)
==============================================================================
