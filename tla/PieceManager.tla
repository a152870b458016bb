---------------------------- MODULE PieceManager ----------------------------
(***************************************************************************)
(* The book-keeping of one torrent's pieces: TorrentManager of             *)
(* src/core/manager.rs.  A piece is missing (nobody fetches it), in        *)
(* progress (with the number of peers fetching it) or completed; only the  *)
(* pieces of the file selection are wanted.                                *)
(*                                                                         *)
(* The order of the `missing` deque never matters: next_work_for breaks    *)
(* ties at random.  It is a set here, and that it never holds a piece      *)
(* twice is MissingIsUnassigned below.                                     *)
(***************************************************************************)
EXTENDS Integers, FiniteSets

CONSTANTS
    NumPieces,      \* total_pieces
    MaxHolders,     \* MAX_ENDGAME_HOLDERS
    MaxAvail,       \* u16::MAX, where the availability counters saturate
    Selections      \* the selections the front end may ask for

Piece == 0 .. NumPieces - 1
SelectionType == [wanted : SUBSET Piece, unservable : SUBSET Piece]

ASSUME NumPiecesAssumption == NumPieces \in Nat
ASSUME MaxHoldersAssumption == MaxHolders \in Nat \ {0}
ASSUME MaxAvailAssumption == MaxAvail \in Nat
ASSUME SelectionsAssumption == Selections \subseteq SelectionType

VARIABLES
    missing,            \* wanted pieces nobody fetches, and, while
                        \* missing_dirty, pieces completed since
    in_progress,        \* piece -> peers fetching it; 0: not in the map
    completed,
    availability,       \* piece -> connected peers that advertise it
    missing_dirty,
    selection,
    wanted_total,
    wanted_completed

managerVars == <<missing, in_progress, completed, availability,
                 missing_dirty, selection, wanted_total, wanted_completed>>

Held == {p \in Piece : in_progress[p] > 0}

TypeOK ==
    /\ missing \subseteq Piece
    /\ in_progress \in [Piece -> 0 .. MaxHolders]
    /\ completed \subseteq Piece
    /\ availability \in [Piece -> 0 .. MaxAvail]
    /\ missing_dirty \in BOOLEAN
    /\ selection \in SelectionType
    /\ wanted_total \in Nat
    /\ wanted_completed \in Nat

-----------------------------------------------------------------------------
IsServable(p) == p \in completed /\ p \notin selection.unservable

ServablePieces == {p \in Piece : IsServable(p)}

IsDone == wanted_completed = wanted_total

\* The state with_selection builds from the pieces `have` of a resume file.
StartsFrom(have, sel) ==
    /\ completed = have \cap Piece
    /\ selection = sel
    /\ missing = sel.wanted \ have
    /\ in_progress = [p \in Piece |-> 0]
    /\ availability = [p \in Piece |-> 0]
    /\ missing_dirty = FALSE
    /\ wanted_total = Cardinality(sel.wanted)
    /\ wanted_completed = Cardinality(have \cap sel.wanted)

\* Mutant of Unassigned: the purge of completed pieces is forgotten.
UnassignedUnpurged == missing

\* The pieces nobody fetches, once next_work_for has dropped the ones
\* completed since the last purge.
Unassigned == IF missing_dirty THEN missing \ completed ELSE missing

Rarest(pieces) ==
    {p \in pieces : \A q \in pieces : availability[p] <= availability[q]}

\* Mutant of Joinable: off by one at the limit.
JoinableAtLimit(has) == {p \in Held : in_progress[p] <= MaxHolders /\ p \in has}

\* Pieces another peer may join in fetching during endgame, and the one that
\* min_by_key((holders, piece)) takes.
Joinable(has) == {p \in Held : in_progress[p] < MaxHolders /\ p \in has}

LeastHeld(pieces) ==
    {p \in pieces : \A q \in pieces :
        \/ in_progress[p] < in_progress[q]
        \/ in_progress[p] = in_progress[q] /\ p <= q}

\* next_work_for(has) = Some(p): a rarest unassigned piece, or in endgame the
\* piece in flight with the fewest holders.
AssignUnassigned(has, p) ==
    /\ p \in Rarest(Unassigned \cap has)
    /\ missing' = Unassigned \ {p}
    /\ in_progress' = [in_progress EXCEPT ![p] = 1]

AssignEndgame(has, p) ==
    /\ Unassigned = {}
    /\ p \in LeastHeld(Joinable(has))
    /\ missing' = Unassigned
    /\ in_progress' = [in_progress EXCEPT ![p] = @ + 1]

NextWorkFor(has, p) ==
    /\ AssignUnassigned(has, p) \/ AssignEndgame(has, p)
    /\ missing_dirty' = FALSE
    /\ UNCHANGED <<completed, availability, selection,
                   wanted_total, wanted_completed>>

\* next_work_for(has) = None: the purge still happens.
NoWorkFor(has) ==
    /\ Unassigned \cap has = {}
    /\ Unassigned # {} \/ Joinable(has) = {}
    /\ missing' = Unassigned
    /\ missing_dirty' = FALSE
    /\ UNCHANGED <<in_progress, completed, availability, selection,
                   wanted_total, wanted_completed>>

\* Mutant of OneHolderLess: the first holder to give up removes the entry.
NoHolderLeft(p) == [in_progress EXCEPT ![p] = 0]

\* Mutant of OneHolderLess: a piece without an entry is decremented, too.
OneHolderLessUnchecked(p) == [in_progress EXCEPT ![p] = @ - 1]

OneHolderLess(p) == [in_progress EXCEPT ![p] = IF @ > 0 THEN @ - 1 ELSE 0]

\* return_work(p): one holder less; the last one puts p back.
ReturnWork(p) ==
    /\ in_progress' = OneHolderLess(p)
    /\ missing' = IF /\ in_progress[p] = 1
                     /\ p \notin completed
                     /\ p \in selection.wanted
                  THEN missing \cup {p} ELSE missing
    /\ UNCHANGED <<completed, availability, missing_dirty, selection,
                   wanted_total, wanted_completed>>

\* Mutant of Requeued: pieces in flight are queued again.
RequeuedAll(sel, done) == sel.wanted \ done

\* apply_selection: the queue is rebuilt from the wanted pieces that are
\* neither completed nor in flight.
Requeued(sel, done) == {p \in sel.wanted : p \notin done /\ p \notin Held}

ApplySelection(sel, refetch) ==
    /\ completed' = completed \ refetch
    /\ selection' = sel
    /\ wanted_total' = Cardinality(sel.wanted)
    /\ wanted_completed' = Cardinality((completed \ refetch) \cap sel.wanted)
    /\ missing' = Requeued(sel, completed \ refetch)
    /\ missing_dirty' = FALSE
    /\ UNCHANGED <<in_progress, availability>>

\* Mutant of Released: the racing holders stay in the map.
NotReleased(p) == in_progress

Released(p) == [in_progress EXCEPT ![p] = 0]

\* Mutant of Counts: a piece completed twice is counted twice.
CountsAgain(p) == p \in selection.wanted

Counts(p) == p \notin completed /\ p \in selection.wanted

\* mark_completed(p): the racing holders are forgotten, the purge is left to
\* the next next_work_for.
MarkCompleted(p) ==
    /\ in_progress' = Released(p)
    /\ completed' = completed \cup {p}
    /\ missing_dirty' = (missing_dirty \/ p \notin completed)
    /\ wanted_completed' = IF Counts(p) THEN wanted_completed + 1
                           ELSE wanted_completed
    /\ UNCHANGED <<missing, availability, selection, wanted_total>>

Saturated(n) == IF n > MaxAvail THEN MaxAvail ELSE IF n < 0 THEN 0 ELSE n

\* add_peer_pieces, add_peer_piece (a singleton) and remove_peer_pieces.
AddPeerPieces(pieces) ==
    /\ availability' = [p \in Piece |-> IF p \in pieces
                        THEN Saturated(availability[p] + 1) ELSE availability[p]]
    /\ UNCHANGED <<missing, in_progress, completed, missing_dirty, selection,
                   wanted_total, wanted_completed>>

RemovePeerPieces(pieces) ==
    /\ availability' = [p \in Piece |-> IF p \in pieces
                        THEN Saturated(availability[p] - 1) ELSE availability[p]]
    /\ UNCHANGED <<missing, in_progress, completed, missing_dirty, selection,
                   wanted_total, wanted_completed>>

\* The torrent is started again: with_selection builds a new manager.
WithSelection(have, sel) ==
    /\ completed' = have \cap Piece
    /\ selection' = sel
    /\ missing' = sel.wanted \ have
    /\ in_progress' = [p \in Piece |-> 0]
    /\ availability' = [p \in Piece |-> 0]
    /\ missing_dirty' = FALSE
    /\ wanted_total' = Cardinality(sel.wanted)
    /\ wanted_completed' = Cardinality(have \cap sel.wanted)

-----------------------------------------------------------------------------
ManagerInit == \E have \in SUBSET Piece, sel \in Selections : StartsFrom(have, sel)

Assign == \E has \in SUBSET Piece, p \in Piece : NextWorkFor(has, p)
Refuse == \E has \in SUBSET Piece : NoWorkFor(has)
Return == \E p \in Piece : ReturnWork(p)
Select == \E sel \in Selections, refetch \in SUBSET Piece :
              ApplySelection(sel, refetch)
Complete == \E p \in Piece : MarkCompleted(p)
PeerJoins == \E pieces \in SUBSET Piece : AddPeerPieces(pieces)
PeerLeaves == \E pieces \in SUBSET Piece : RemovePeerPieces(pieces)
Restart == \E have \in SUBSET Piece, sel \in Selections :
               WithSelection(have, sel)

ManagerNext ==
    \/ Assign \/ Refuse \/ Return \/ Select
    \/ Complete \/ PeerJoins \/ PeerLeaves \/ Restart

ManagerSpec == ManagerInit /\ [][ManagerNext]_managerVars

-----------------------------------------------------------------------------
\* A wanted piece is completed, queued or being fetched, whatever sequence of
\* assignments, failures and selection changes happened: next_work_for,
\* return_work and apply_selection never lose one.
NoWantedPieceLost == selection.wanted \subseteq completed \cup missing \cup Held

\* A queued piece is wanted and nobody fetches it, so no piece is handed out
\* as fresh work while a peer is still on it (manager.rs, in_progress.insert
\* would reset its holder count to 1).
MissingIsUnassigned ==
    /\ missing \subseteq selection.wanted
    /\ missing \cap Held = {}

\* The two counters behind is_done agree with the sets: the torrent is done
\* exactly when every wanted piece is completed.
DoneMeansAllWanted == IsDone <=> selection.wanted \subseteq completed

\* A completed piece is on nobody's hands, and one still queued is only there
\* because the purge is pending (missing_dirty).
CompletedIsSettled ==
    /\ completed \cap Held = {}
    /\ completed \cap missing # {} => missing_dirty

\* No step hands out a piece that is already completed.
NeverAssignsCompleted ==
    [][\A p \in Piece : in_progress'[p] > in_progress[p] => p \notin completed]_managerVars

\* The inductive invariant: the above, and the exact values of the counters.
CountersExact ==
    /\ wanted_total = Cardinality(selection.wanted)
    /\ wanted_completed = Cardinality(completed \cap selection.wanted)

ManagerInv ==
    /\ TypeOK
    /\ NoWantedPieceLost
    /\ MissingIsUnassigned
    /\ CompletedIsSettled
    /\ CountersExact

=============================================================================
