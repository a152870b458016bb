------------------------- MODULE PieceManager_proofs -------------------------
(***************************************************************************)
(* Proofs about PieceManager, for any number of pieces, any holder limit   *)
(* and any set of selections.                                              *)
(***************************************************************************)
EXTENDS PieceManager, FiniteSetTheorems, TLAPS

USE NumPiecesAssumption, MaxHoldersAssumption, MaxAvailAssumption,
    SelectionsAssumption

\* There are finitely many pieces, so every set of pieces has a cardinality
\* in Nat.
LEMMA PieceSetsFinite ==
    ASSUME NEW S \in SUBSET Piece
    PROVE  IsFiniteSet(S) /\ Cardinality(S) \in Nat
<1>1. IsFiniteSet(Piece)
  BY FS_Interval DEF Piece
<1>2. IsFiniteSet(S)
  BY <1>1, FS_Subset
<1>3. QED
  BY <1>2, FS_CardinalityType

\* mark_completed on a new wanted piece raises the count of completed wanted
\* pieces by one; on any other piece the count is unchanged.
LEMMA CountAfterCompletion ==
    ASSUME NEW C \in SUBSET Piece, NEW W \in SUBSET Piece, NEW p \in Piece
    PROVE  Cardinality((C \cup {p}) \cap W) =
               IF p \notin C /\ p \in W
               THEN Cardinality(C \cap W) + 1 ELSE Cardinality(C \cap W)
<1>1. IsFiniteSet(C \cap W) /\ Cardinality(C \cap W) \in Nat
  BY PieceSetsFinite
<1>2. CASE p \notin C /\ p \in W
  <2>1. (C \cup {p}) \cap W = (C \cap W) \cup {p} /\ p \notin C \cap W
    BY <1>2
  <2>2. Cardinality((C \cap W) \cup {p}) = Cardinality(C \cap W) + 1
    BY <1>1, <2>1, FS_AddElement
  <2>3. QED
    BY <1>2, <2>1, <2>2
<1>3. CASE ~(p \notin C /\ p \in W)
  <2>1. (C \cup {p}) \cap W = C \cap W
    BY <1>3
  <2>2. QED
    BY <1>3, <2>1
<1>4. QED
  BY <1>2, <1>3

\* Two sets of pieces, one inside the other and of the same size, are equal.
LEMMA SameCountSameSet ==
    ASSUME NEW S \in SUBSET Piece, NEW T \in SUBSET S,
           Cardinality(T) = Cardinality(S)
    PROVE  T = S
<1>1. IsFiniteSet(S)
  BY PieceSetsFinite
<1>2. QED
  BY <1>1, FS_Subset

\* The state a new manager starts in satisfies the invariant.
LEMMA StartEstablishesInv ==
    ASSUME NEW have \in SUBSET Piece, NEW sel \in Selections,
           StartsFrom(have, sel)
    PROVE  ManagerInv
<1>1. sel \in SelectionType
  OBVIOUS
<1>2. /\ sel.wanted \in SUBSET Piece
      /\ Cardinality(sel.wanted) \in Nat
      /\ Cardinality(have \cap sel.wanted) \in Nat
  <2>1. sel.wanted \in SUBSET Piece
    BY <1>1 DEF SelectionType
  <2>2. QED
    BY <2>1, PieceSetsFinite
<1>3. Held = {}
  BY DEF StartsFrom, Held
<1>4. TypeOK
  <2>1. in_progress \in [Piece -> 0 .. MaxHolders]
    BY DEF StartsFrom
  <2>2. availability \in [Piece -> 0 .. MaxAvail]
    BY DEF StartsFrom
  <2>3. missing_dirty \in BOOLEAN
    BY DEF StartsFrom
  <2>4. missing \subseteq Piece /\ completed \subseteq Piece
    BY <1>2 DEF StartsFrom
  <2>5. QED
    BY <1>1, <1>2, <2>1, <2>2, <2>3, <2>4 DEF StartsFrom, TypeOK
<1>5. NoWantedPieceLost /\ MissingIsUnassigned /\ CompletedIsSettled
  BY <1>2, <1>3 DEF StartsFrom, NoWantedPieceLost, MissingIsUnassigned,
                    CompletedIsSettled
<1>6. CountersExact
  <2>1. have \cap Piece = have
    OBVIOUS
  <2>2. QED
    BY <2>1 DEF StartsFrom, CountersExact
<1>7. QED
  BY <1>4, <1>5, <1>6 DEF ManagerInv

\* A new manager built by a restart satisfies the invariant too.
LEMMA RestartPreservesInv ==
    ASSUME NEW have \in SUBSET Piece, NEW sel \in Selections,
           WithSelection(have, sel)
    PROVE  ManagerInv'
<1>1. sel \in SelectionType
  OBVIOUS
<1>2. /\ sel.wanted \in SUBSET Piece
      /\ Cardinality(sel.wanted) \in Nat
      /\ Cardinality(have \cap sel.wanted) \in Nat
  <2>1. sel.wanted \in SUBSET Piece
    BY <1>1 DEF SelectionType
  <2>2. QED
    BY <2>1, PieceSetsFinite
<1>3. Held' = {}
  BY DEF WithSelection, Held
<1>4. TypeOK'
  <2>1. (in_progress \in [Piece -> 0 .. MaxHolders])'
    BY DEF WithSelection
  <2>2. (availability \in [Piece -> 0 .. MaxAvail])'
    BY DEF WithSelection
  <2>3. (missing_dirty \in BOOLEAN)'
    BY DEF WithSelection
  <2>4. (missing \subseteq Piece /\ completed \subseteq Piece)'
    BY <1>2 DEF WithSelection
  <2>5. QED
    BY <1>1, <1>2, <2>1, <2>2, <2>3, <2>4 DEF WithSelection, TypeOK
<1>5. (NoWantedPieceLost /\ MissingIsUnassigned /\ CompletedIsSettled)'
  BY <1>2, <1>3 DEF WithSelection, NoWantedPieceLost, MissingIsUnassigned,
                    CompletedIsSettled
<1>6. CountersExact'
  <2>1. have \cap Piece = have
    OBVIOUS
  <2>2. QED
    BY <2>1 DEF WithSelection, CountersExact
<1>7. QED
  BY <1>4, <1>5, <1>6 DEF ManagerInv

\* After the purge next_work_for starts with, no queued piece is completed,
\* and every wanted piece is still accounted for.
LEMMA PurgedIsOpen ==
    ASSUME ManagerInv
    PROVE  /\ Unassigned \subseteq missing
           /\ Unassigned \cap completed = {}
           /\ missing \subseteq Unassigned \cup completed
BY DEF ManagerInv, TypeOK, CompletedIsSettled, Unassigned

\* next_work_for that hands out a piece preserves the invariant: the piece it
\* takes is open, so counting a holder for it breaks nothing.
LEMMA AssignPreservesInv ==
    ASSUME ManagerInv, NEW has \in SUBSET Piece, NEW p \in Piece,
           NextWorkFor(has, p)
    PROVE  ManagerInv'
<1> USE DEF ManagerInv
<1>1. /\ Unassigned \subseteq missing
      /\ Unassigned \cap completed = {}
      /\ missing \subseteq Unassigned \cup completed
  BY PurgedIsOpen
<1>2. /\ completed' = completed /\ availability' = availability
      /\ selection' = selection /\ wanted_total' = wanted_total
      /\ wanted_completed' = wanted_completed /\ missing_dirty' = FALSE
  BY DEF NextWorkFor
<1>3. CountersExact'
  BY <1>2 DEF CountersExact
<1>4. CASE AssignUnassigned(has, p)
  <2>1. p \in Unassigned /\ p \in missing /\ p \notin completed
    BY <1>1, <1>4 DEF AssignUnassigned, Rarest
  <2>2. in_progress' = [in_progress EXCEPT ![p] = 1] /\ missing' = Unassigned \ {p}
    BY <1>4 DEF AssignUnassigned
  <2>3. in_progress' \in [Piece -> 0 .. MaxHolders]
    BY <2>2 DEF TypeOK
  <2>4. Held' = Held \cup {p}
    BY <2>2, <2>3 DEF Held, TypeOK
  <2>5. TypeOK'
    BY <1>1, <1>2, <2>2, <2>3 DEF TypeOK
  <2>6. NoWantedPieceLost' /\ MissingIsUnassigned' /\ CompletedIsSettled'
    BY <1>1, <1>2, <2>1, <2>2, <2>4
       DEF NoWantedPieceLost, MissingIsUnassigned, CompletedIsSettled
  <2>7. QED
    BY <1>3, <2>5, <2>6
<1>5. CASE AssignEndgame(has, p)
  <2>1. Unassigned = {} /\ missing' = {}
    BY <1>5 DEF AssignEndgame
  <2>2. p \in Held /\ in_progress[p] < MaxHolders
    BY <1>5 DEF AssignEndgame, LeastHeld, Joinable
  <2>3. in_progress' = [in_progress EXCEPT ![p] = in_progress[p] + 1]
    BY <1>5 DEF AssignEndgame
  <2>4. in_progress' \in [Piece -> 0 .. MaxHolders]
    BY <2>2, <2>3 DEF TypeOK
  <2>5. Held' = Held
    BY <2>2, <2>3, <2>4 DEF Held, TypeOK
  <2>6. TypeOK'
    BY <1>2, <2>1, <2>4 DEF TypeOK
  <2>7. NoWantedPieceLost' /\ MissingIsUnassigned' /\ CompletedIsSettled'
    BY <1>1, <1>2, <2>1, <2>5
       DEF NoWantedPieceLost, MissingIsUnassigned, CompletedIsSettled
  <2>8. QED
    BY <1>3, <2>6, <2>7
<1>6. QED
  BY <1>4, <1>5 DEF NextWorkFor

\* next_work_for that finds nothing preserves it: only the purge happens.
LEMMA RefusePreservesInv ==
    ASSUME ManagerInv, NEW has \in SUBSET Piece, NoWorkFor(has)
    PROVE  ManagerInv'
<1> USE DEF ManagerInv
<1>1. /\ Unassigned \subseteq missing
      /\ Unassigned \cap completed = {}
      /\ missing \subseteq Unassigned \cup completed
  BY PurgedIsOpen
<1>2. Held' = Held
  BY DEF NoWorkFor, Held
<1>3. TypeOK'
  BY <1>1 DEF NoWorkFor, TypeOK
<1>4. NoWantedPieceLost' /\ MissingIsUnassigned' /\ CompletedIsSettled'
  BY <1>1, <1>2 DEF NoWorkFor, NoWantedPieceLost, MissingIsUnassigned,
                    CompletedIsSettled
<1>5. CountersExact'
  BY DEF NoWorkFor, CountersExact
<1>6. QED
  BY <1>3, <1>4, <1>5

\* return_work preserves it: the last holder of an open wanted piece puts it
\* back, any other leaves it with the remaining holders.
LEMMA ReturnPreservesInv ==
    ASSUME ManagerInv, NEW p \in Piece, ReturnWork(p)
    PROVE  ManagerInv'
<1> USE DEF ManagerInv
<1>1. /\ completed' = completed /\ availability' = availability
      /\ selection' = selection /\ wanted_total' = wanted_total
      /\ wanted_completed' = wanted_completed
      /\ missing_dirty' = missing_dirty
  BY DEF ReturnWork, OneHolderLess
<1>2. in_progress \in [Piece -> 0 .. MaxHolders]
  BY DEF TypeOK
<1>3. in_progress' = [in_progress EXCEPT ![p] =
                         IF in_progress[p] > 0 THEN in_progress[p] - 1 ELSE 0]
  BY DEF ReturnWork, OneHolderLess
<1>4. in_progress' \in [Piece -> 0 .. MaxHolders]
  BY <1>2, <1>3
<1>5. Held' = IF in_progress[p] <= 1 THEN Held \ {p} ELSE Held
  BY <1>2, <1>3, <1>4 DEF Held
<1>6. CountersExact'
  BY <1>1 DEF CountersExact
<1>7. CASE in_progress[p] = 1
  <2>1. Held' = Held \ {p} /\ p \in Held
    BY <1>5, <1>7 DEF Held
  <2>2. p \notin completed
    BY <2>1 DEF CompletedIsSettled
  <2>3. missing' = IF p \in selection.wanted THEN missing \cup {p} ELSE missing
    BY <1>7, <2>2 DEF ReturnWork, OneHolderLess
  <2>4. TypeOK'
    BY <1>1, <1>4, <2>3 DEF TypeOK
  <2>5. NoWantedPieceLost' /\ MissingIsUnassigned' /\ CompletedIsSettled'
    BY <1>1, <2>1, <2>2, <2>3
       DEF NoWantedPieceLost, MissingIsUnassigned, CompletedIsSettled
  <2>6. QED
    BY <1>6, <2>4, <2>5
<1>8. CASE in_progress[p] # 1
  <2>1. Held' = Held /\ missing' = missing
    BY <1>2, <1>5, <1>8 DEF Held, ReturnWork, OneHolderLess
  <2>2. TypeOK'
    BY <1>1, <1>4, <2>1 DEF TypeOK
  <2>3. NoWantedPieceLost' /\ MissingIsUnassigned' /\ CompletedIsSettled'
    BY <1>1, <2>1
       DEF NoWantedPieceLost, MissingIsUnassigned, CompletedIsSettled
  <2>4. QED
    BY <1>6, <2>2, <2>3
<1>9. QED
  BY <1>7, <1>8

\* apply_selection preserves it for every selection and refetch set: the
\* rebuilt queue and the pieces in flight cover what is wanted and open.
LEMMA SelectPreservesInv ==
    ASSUME ManagerInv, NEW sel \in SelectionType, NEW refetch \in SUBSET Piece,
           ApplySelection(sel, refetch)
    PROVE  ManagerInv'
<1> USE DEF ManagerInv
<1>1. /\ sel.wanted \in SUBSET Piece
      /\ Cardinality(sel.wanted) \in Nat
      /\ Cardinality((completed \ refetch) \cap sel.wanted) \in Nat
  <2>1. sel.wanted \in SUBSET Piece
    BY DEF SelectionType
  <2>2. QED
    BY <2>1, PieceSetsFinite DEF TypeOK
<1>2. Held' = Held
  BY DEF ApplySelection, Requeued, Held
<1>3. TypeOK'
  BY <1>1 DEF ApplySelection, Requeued, TypeOK
<1>4. NoWantedPieceLost' /\ MissingIsUnassigned' /\ CompletedIsSettled'
  BY <1>1, <1>2 DEF ApplySelection, Requeued, NoWantedPieceLost, MissingIsUnassigned,
                    CompletedIsSettled
<1>5. CountersExact'
  BY DEF ApplySelection, Requeued, CountersExact
<1>6. QED
  BY <1>3, <1>4, <1>5

\* mark_completed preserves it, for a piece that is missing, in flight or
\* already completed.
LEMMA CompletePreservesInv ==
    ASSUME ManagerInv, NEW p \in Piece, MarkCompleted(p)
    PROVE  ManagerInv'
<1> USE DEF ManagerInv
<1>1. /\ missing' = missing /\ availability' = availability
      /\ selection' = selection /\ wanted_total' = wanted_total
      /\ completed' = completed \cup {p}
      /\ in_progress' = [in_progress EXCEPT ![p] = 0]
  BY DEF MarkCompleted, Released, Counts
<1>2. in_progress' \in [Piece -> 0 .. MaxHolders]
  BY <1>1 DEF TypeOK
<1>3. Held' = Held \ {p}
  BY <1>1, <1>2 DEF Held, TypeOK
<1>4. missing_dirty' \in BOOLEAN
  BY DEF MarkCompleted, Released, Counts
<1>5. wanted_completed' \in Nat
  BY DEF MarkCompleted, Released, Counts, TypeOK
<1>6. TypeOK'
  BY <1>1, <1>2, <1>4, <1>5 DEF TypeOK
<1>7. NoWantedPieceLost' /\ MissingIsUnassigned'
  BY <1>1, <1>3 DEF NoWantedPieceLost, MissingIsUnassigned
<1>8. CompletedIsSettled'
  <2>1. (completed \cap Held = {})'
    BY <1>1, <1>3 DEF CompletedIsSettled
  <2>2. CASE p \in completed
    <3>1. completed' = completed
      BY <1>1, <2>2
    <3>2. missing_dirty => missing_dirty'
      BY DEF MarkCompleted, Released, Counts
    <3>3. QED
      BY <1>1, <2>1, <3>1, <3>2 DEF CompletedIsSettled
  <2>3. CASE p \notin completed
    <3>1. missing_dirty'
      BY <2>3 DEF MarkCompleted, Released, Counts
    <3>2. QED
      BY <2>1, <3>1 DEF CompletedIsSettled
  <2>4. QED
    BY <2>2, <2>3
<1>9. CountersExact'
  <2>1. completed \in SUBSET Piece /\ selection.wanted \in SUBSET Piece
    BY DEF TypeOK, SelectionType
  <2>2. Cardinality((completed \cup {p}) \cap selection.wanted) =
            IF p \notin completed /\ p \in selection.wanted
            THEN Cardinality(completed \cap selection.wanted) + 1
            ELSE Cardinality(completed \cap selection.wanted)
    BY <2>1, CountAfterCompletion
  <2>3. QED
    BY <1>1, <2>2 DEF CountersExact, MarkCompleted, Released, Counts
<1>10. QED
  BY <1>6, <1>7, <1>8, <1>9

\* add_peer_pieces and remove_peer_pieces preserve it: the counters saturate.
LEMMA AvailabilityPreservesInv ==
    ASSUME ManagerInv, NEW pieces \in SUBSET Piece,
           AddPeerPieces(pieces) \/ RemovePeerPieces(pieces)
    PROVE  ManagerInv'
<1> USE DEF ManagerInv
<1>1. availability' \in [Piece -> 0 .. MaxAvail]
  BY DEF AddPeerPieces, RemovePeerPieces, Saturated, TypeOK
<1>2. /\ missing' = missing /\ in_progress' = in_progress
      /\ completed' = completed /\ missing_dirty' = missing_dirty
      /\ selection' = selection /\ wanted_total' = wanted_total
      /\ wanted_completed' = wanted_completed
  BY DEF AddPeerPieces, RemovePeerPieces
<1>3. Held' = Held
  BY <1>2 DEF Held
<1>4. TypeOK'
  BY <1>1, <1>2 DEF TypeOK
<1>5. NoWantedPieceLost' /\ MissingIsUnassigned' /\ CompletedIsSettled'
  BY <1>2, <1>3 DEF NoWantedPieceLost, MissingIsUnassigned, CompletedIsSettled
<1>6. CountersExact'
  BY <1>2 DEF CountersExact
<1>7. QED
  BY <1>4, <1>5, <1>6

\* Every operation of the manager preserves the inductive invariant.
LEMMA NextPreservesInv == ManagerInv /\ [ManagerNext]_managerVars => ManagerInv'
<1> SUFFICES ASSUME ManagerInv, [ManagerNext]_managerVars
             PROVE  ManagerInv'
  OBVIOUS
<1>1. CASE Assign
  BY <1>1, AssignPreservesInv DEF Assign
<1>2. CASE Refuse
  BY <1>2, RefusePreservesInv DEF Refuse
<1>3. CASE Return
  BY <1>3, ReturnPreservesInv DEF Return
<1>4. CASE Select
  BY <1>4, SelectPreservesInv DEF Select
<1>5. CASE Complete
  BY <1>5, CompletePreservesInv DEF Complete
<1>6. CASE PeerJoins
  BY <1>6, AvailabilityPreservesInv DEF PeerJoins
<1>7. CASE PeerLeaves
  BY <1>7, AvailabilityPreservesInv DEF PeerLeaves
<1>8. CASE Restart
  BY <1>8, RestartPreservesInv DEF Restart
<1>9. CASE UNCHANGED managerVars
  BY <1>9 DEF managerVars, ManagerInv, TypeOK, Held, NoWantedPieceLost,
              MissingIsUnassigned, CompletedIsSettled, CountersExact
<1>10. QED
  BY <1>1, <1>2, <1>3, <1>4, <1>5, <1>6, <1>7, <1>8, <1>9 DEF ManagerNext

\* The inductive invariant holds in every reachable state of the manager.
THEOREM ManagerInvariant == ManagerSpec => []ManagerInv
<1>1. ManagerInit => ManagerInv
  BY StartEstablishesInv DEF ManagerInit
<1>2. QED
  BY <1>1, NextPreservesInv, PTL DEF ManagerSpec

\* Type correctness: in particular next_work_for never lets more than
\* MAX_ENDGAME_HOLDERS peers fetch one piece.
THEOREM TypeCorrect == ManagerSpec => []TypeOK
BY ManagerInvariant, PTL DEF ManagerInv

\* No sequence of manager operations loses a wanted piece.
THEOREM NoLoss == ManagerSpec => []NoWantedPieceLost
BY ManagerInvariant, PTL DEF ManagerInv

\* No piece is ever queued as fresh work while a peer is fetching it.
THEOREM NoDoubleBooking == ManagerSpec => []MissingIsUnassigned
BY ManagerInvariant, PTL DEF ManagerInv

\* The counters behind is_done tell whether every wanted piece is completed.
LEMMA CountersDecideDone == ManagerInv => DoneMeansAllWanted
<1> SUFFICES ASSUME ManagerInv PROVE DoneMeansAllWanted
  OBVIOUS
<1> DEFINE W == selection.wanted
<1>1. W \in SUBSET Piece /\ completed \cap W \in SUBSET W
  BY DEF ManagerInv, TypeOK, SelectionType
<1>2. IsDone <=> Cardinality(completed \cap W) = Cardinality(W)
  BY DEF ManagerInv, CountersExact, IsDone
<1>3. ASSUME Cardinality(completed \cap W) = Cardinality(W)
      PROVE  completed \cap W = W
  BY <1>1, <1>3, SameCountSameSet
<1>4. ASSUME W \subseteq completed
      PROVE  completed \cap W = W
  BY <1>4
<1>5. QED
  BY <1>2, <1>3, <1>4 DEF DoneMeansAllWanted

\* is_done, which compares two counters, is true exactly when every wanted
\* piece is completed.
THEOREM DoneIsExact == ManagerSpec => []DoneMeansAllWanted
BY CountersDecideDone, ManagerInvariant, PTL

\* No operation of the manager hands out a completed piece.
THEOREM AssignsOnlyOpenPieces == ManagerSpec => NeverAssignsCompleted
<1> DEFINE Open == \A p \in Piece : in_progress'[p] > in_progress[p] => p \notin completed
<1>1. ManagerInv /\ [ManagerNext]_managerVars => Open
  <2> SUFFICES ASSUME ManagerInv, [ManagerNext]_managerVars, NEW p \in Piece,
                      in_progress'[p] > in_progress[p]
               PROVE  p \notin completed
    OBVIOUS
  <2>0. in_progress \in [Piece -> 0 .. MaxHolders]
    BY DEF ManagerInv, TypeOK
  <2>1. CASE Assign
    <3>1. PICK has \in SUBSET Piece, q \in Piece : NextWorkFor(has, q)
      BY <2>1 DEF Assign
    <3>2. q = p
      BY <2>0, <3>1 DEF NextWorkFor, AssignUnassigned, AssignEndgame
    <3>3. p \in Unassigned \/ p \in Held
      BY <3>1, <3>2 DEF NextWorkFor, AssignUnassigned, AssignEndgame, Rarest,
                        LeastHeld, Joinable
    <3>4. Unassigned \cap completed = {} /\ Held \cap completed = {}
      BY PurgedIsOpen DEF ManagerInv, CompletedIsSettled
    <3>5. QED
      BY <3>3, <3>4
  <2>2. CASE Restart
    BY <2>0, <2>2 DEF Restart, WithSelection
  <2>3. CASE Return \/ Complete
    <3>1. PICK q \in Piece : \/ in_progress' = [in_progress EXCEPT ![q] = 0]
                             \/ in_progress' = [in_progress EXCEPT ![q] =
                                    IF in_progress[q] > 0 THEN in_progress[q] - 1 ELSE 0]
      BY <2>3 DEF Return, ReturnWork, OneHolderLess, Complete,
         MarkCompleted, Released, Counts
    <3>2. QED
      BY <2>0, <3>1
  <2>4. CASE Refuse \/ Select \/ PeerJoins \/ PeerLeaves \/ UNCHANGED managerVars
    <3>1. in_progress' = in_progress
      BY <2>4 DEF Refuse, NoWorkFor, Select, ApplySelection, Requeued, PeerJoins,
            AddPeerPieces, PeerLeaves, RemovePeerPieces, managerVars
    <3>2. QED
      BY <2>0, <3>1
  <2>5. QED
    BY <2>1, <2>2, <2>3, <2>4 DEF ManagerNext
<1>2. ManagerInv /\ [ManagerNext]_managerVars => [Open]_managerVars
  BY <1>1
<1>3. QED
  BY <1>2, ManagerInvariant, PTL DEF ManagerSpec, NeverAssignsCompleted

=============================================================================
