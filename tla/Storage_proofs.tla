--------------------------- MODULE Storage_proofs ---------------------------
(***************************************************************************)
(* The coordinator, with its disk, resume file, restarts and every fault,  *)
(* implements the piece manager: whatever a handler does to the manager's  *)
(* state is one of its operations, called with arguments it expects.  So   *)
(* the theorems of PieceManager_proofs hold of the running program.        *)
(*                                                                         *)
(* What has to be known beyond ManagerInv is that the values that travel   *)
(* (through the user interface, the session store, the mailbox and the     *)
(* resume file) before they reach the manager are still selections and     *)
(* pieces of this torrent: Carried.                                        *)
(***************************************************************************)
EXTENDS Storage, PieceManager_proofs

Carried ==
    /\ resume \in ResumeType
    /\ chosen \in FileSet
    /\ current_flags \in FileSet
    /\ set_selections \in Seq(SetSelectionMsg)

StorageInv == ManagerInv /\ Carried

\* Every selection of at least one file is one the manager may be given, and
\* all the files together are such a selection.
LEMMA FileSelectionsAllowed ==
    /\ \A files \in FileSet : SelectionOf(files) \in Selections
    /\ File \in FileSet
<1>1. \A files \in FileSet : SelectionOf(files) \in Selections
  BY SelectionsOfFiles
<1>2. 0 \in File
  BY NumFilesAssumption DEF File
<1> QED
  BY <1>1, <1>2 DEF FileSet

\* pieces_to_refetch names pieces of the torrent.
LEMMA RefetchIsPieces ==
    \A before, after : ToRefetch(before, after) \subseteq Piece
BY LayoutAssumption DEF ToRefetch

\* The files background_task starts with are the chosen ones, or all of them
\* when the others are empty; no piece can tell the difference.
LEMMA FilesAtStartAgree ==
    ASSUME chosen \in FileSet
    PROVE  /\ FilesAtStart \in FileSet /\ chosen \subseteq FilesAtStart
           /\ SelectionOf(FilesAtStart) = SelectionOf(chosen)
           /\ \A p \in Piece : FilesOf[p] \cap FilesAtStart = FilesOf[p] \cap chosen
<1>1. chosen \subseteq File /\ \A p \in Piece : FilesOf[p] \subseteq File
  BY LayoutAssumption, FilesOfAssumption DEF FileSet
<1>2. CASE IsAll(chosen)
  <2>1. \A p \in Piece : FilesOf[p] \subseteq chosen
    BY <1>2, LayoutAssumption DEF IsAll, SelectionOf
  <2>2. FilesAtStart = File
    BY <1>2 DEF FilesAtStart
  <2>3. \A p \in Piece : FilesOf[p] \cap File = FilesOf[p] \cap chosen
    BY <1>1, <2>1
  <2>4. \A p \in Piece : FilesOf[p] \ File = FilesOf[p] \ chosen
    BY <1>1, <2>1
  <2>5. SelectionOf(File) = SelectionOf(chosen)
    BY <2>3, <2>4, LayoutAssumption DEF SelectionOf
  <2> QED
    BY <1>1, <2>2, <2>3, <2>5, FileSelectionsAllowed
<1>3. CASE ~IsAll(chosen)
  BY <1>3 DEF FilesAtStart
<1> QED
  BY <1>2, <1>3

\* The initial state is an initial state of the manager.
LEMMA InitImplements == Init => ManagerInit /\ Carried
<1> SUFFICES ASSUME Init PROVE ManagerInit /\ Carried
  OBVIOUS
<1>1. ManagerInit
  <2>1. {} \in SUBSET Piece
    OBVIOUS
  <2>2. SelectionOf(File) \in Selections
    BY FileSelectionsAllowed
  <2>3. StartsFrom({}, SelectionOf(File))
    BY DEF Init
  <2> QED
    BY <2>1, <2>2, <2>3 DEF ManagerInit
<1>2. Carried
  BY FileSelectionsAllowed DEF Init, Carried, NoResume, ResumeType
<1> QED
  BY <1>1, <1>2

\* A stop, a crash or a power loss leaves the manager as a new one would be.
LEMMA ForgottenIsRestart == Forgotten => Restart
<1> SUFFICES ASSUME Forgotten PROVE Restart
  OBVIOUS
<1>1. WithSelection({}, SelectionOf(File))
  BY DEF Forgotten
<1>2. SelectionOf(File) \in Selections
  BY FileSelectionsAllowed
<1> QED
  BY <1>1, <1>2 DEF Restart

\* Each handler is an operation of the manager, or leaves it alone.
LEMMA StepImplements ==
    ASSUME StorageInv, Next
    PROVE  ManagerNext \/ UNCHANGED managerVars
<1> USE DEF coordinatorVars, controlVars
<1>1. ASSUME NEW files \in FileSet, ChooseFiles(files) PROVE UNCHANGED managerVars
  BY <1>1 DEF ChooseFiles
<1>2. CASE Unpause
  BY <1>2 DEF Unpause, SetPaused
<1>3. CASE Launch
  <2>1. PICK have \in {IF resume.exists /\ target_exists THEN resume.pieces ELSE {}} :
               WithSelection(have, SelectionOf(chosen))
    BY <1>3 DEF Launch
  <2>2. have \in SUBSET Piece
    BY <2>1 DEF StorageInv, Carried, ResumeType
  <2>3. SelectionOf(chosen) \in Selections
    BY FileSelectionsAllowed DEF StorageInv, Carried
  <2> QED
    BY <2>1, <2>2, <2>3 DEF ManagerNext, Restart
<1>4. CASE RelaySelection
  BY <1>4 DEF RelaySelection
<1>5. CASE HandleCheckTick
  <2>1. CheckTick(Verifies(disk, next_piece))
    BY <1>5 DEF HandleCheckTick
  <2>2. CASE ~(Verifies(disk, next_piece) /\ next_piece \in selection.wanted)
    BY <2>1, <2>2 DEF CheckTick
  <2>3. CASE Verifies(disk, next_piece) /\ next_piece \in selection.wanted
    <3>1. MarkCompleted(next_piece)
      BY <2>1, <2>3 DEF CheckTick
    <3>2. next_piece \in Piece
      BY <2>3 DEF StorageInv, ManagerInv, TypeOK, SelectionType
    <3> QED
      BY <3>1, <3>2 DEF ManagerNext, Complete
  <2> QED
    BY <2>2, <2>3
<1>6. CASE HandleRequestWork
  <2>1. PICK reply \in Piece : RequestWork(Piece, reply)
    BY <1>6 DEF HandleRequestWork
  <2>2. reply # NoPiece
    BY NumPiecesAssumption DEF Piece, NoPiece
  <2>3. NextWorkFor(Piece, reply)
    BY <2>1, <2>2 DEF RequestWork
  <2> QED
    BY <2>3 DEF ManagerNext, Assign
<1>7. ASSUME NEW p \in Piece, HandlePieceFailed(p)
      PROVE  ManagerNext \/ UNCHANGED managerVars
  BY <1>7 DEF HandlePieceFailed, PieceFailed, ManagerNext, Return
<1>8. ASSUME NEW p \in Piece, NEW written \in BOOLEAN, PieceDownloaded(p, written)
      PROVE  ManagerNext \/ UNCHANGED managerVars
  BY <1>8 DEF PieceDownloaded, ManagerNext, Return, Complete
<1>9. ASSUME NEW p \in Piece,
             HandlePieceWritten(p) \/ HandleWriteFailure(p) \/ HandleIgnoredPiece(p)
      PROVE  ManagerNext \/ UNCHANGED managerVars
  BY <1>8, <1>9 DEF HandlePieceWritten, HandleWriteFailure, HandleIgnoredPiece
<1>10. CASE HandleSetSelection
  <2> DEFINE m == Head(set_selections)
  <2>1. m \in SetSelectionMsg
    BY <1>10 DEF HandleSetSelection, StorageInv, Carried
  <2>2. SelectionOf(m.files) \in Selections /\ m.refetch \in SUBSET Piece
    BY <2>1, FileSelectionsAllowed DEF SetSelectionMsg
  <2>3. ApplySelection(SelectionOf(m.files), m.refetch)
    BY <1>10 DEF HandleSetSelection, SetSelection
  <2> QED
    BY <2>2, <2>3 DEF ManagerNext, Select
<1>11. CASE HandleSelectionFailure
  BY <1>11 DEF HandleSelectionFailure, SetSelection
<1>12. CASE Stop \/ Die
  BY <1>12, ForgottenIsRestart DEF Stop, Die, ManagerNext
<1>13. CASE DeleteFiles
  BY <1>13 DEF DeleteFiles
<1> QED
  BY <1>1, <1>2, <1>3, <1>4, <1>5, <1>6, <1>7, <1>9, <1>10, <1>11, <1>12, <1>13
     DEF Next

-----------------------------------------------------------------------------
\* The manager's invariant survives every step of the running program.
LEMMA StepKeepsManagerInv ==
    ASSUME StorageInv, [Next]_vars
    PROVE  ManagerInv'
<1>1. [ManagerNext]_managerVars
  BY StepImplements DEF vars, coordinatorVars
<1> QED
  BY <1>1, NextPreservesInv DEF StorageInv

\* What is saved is a set of pieces: SaveProgress and SavesOnStop write the
\* manager's completed pieces, or leave the resume file as it was.
LEMMA SavesCompleted ==
    ASSUME StorageInv, completed' \subseteq Piece,
           \/ UNCHANGED resume
           \/ resume' = [exists |-> TRUE, pieces |-> completed']
           \/ resume' = [exists |-> TRUE, pieces |-> completed]
    PROVE  resume' \in ResumeType
<1>1. resume \in ResumeType
  BY DEF StorageInv, Carried
<1>2. completed \subseteq Piece
  BY DEF StorageInv, ManagerInv, TypeOK
<1>3. ASSUME NEW pieces, pieces \subseteq Piece
      PROVE  [exists |-> TRUE, pieces |-> pieces] \in ResumeType
  BY <1>3 DEF ResumeType
<1> QED
  BY <1>1, <1>2, <1>3

\* The values on their way to the manager keep their shape.
LEMMA StepKeepsCarried ==
    ASSUME StorageInv, [Next]_vars
    PROVE  Carried'
<1> USE DEF Carried
<1>0. completed' \subseteq Piece
  BY StepKeepsManagerInv DEF ManagerInv, TypeOK
<1>1. CASE UNCHANGED vars
  BY <1>1 DEF StorageInv, vars, storageVars
<1>2. ASSUME NEW files \in FileSet, ChooseFiles(files) PROVE Carried'
  BY <1>2 DEF ChooseFiles, StorageInv
<1>3. CASE Unpause \/ HandleCheckTick \/ HandleRequestWork \/ DeleteFiles
  BY <1>3 DEF Unpause, HandleCheckTick, HandleRequestWork, DeleteFiles,
              storageVars, StorageInv
<1>4. CASE Launch
  BY <1>4, FilesAtStartAgree DEF Launch, InitialFlags, StorageInv
<1>5. CASE RelaySelection
  <2>1. UNCHANGED <<resume, chosen>> /\ current_flags' \in FileSet
    BY <1>5 DEF RelaySelection, StorageInv
  <2>2. [files |-> chosen, refetch |-> ToRefetch(current_flags, chosen)] \in SetSelectionMsg
    BY RefetchIsPieces DEF SetSelectionMsg, StorageInv
  <2>3. set_selections' \in Seq(SetSelectionMsg)
    BY <1>5, <2>2 DEF RelaySelection, StorageInv
  <2> QED
    BY <2>1, <2>3 DEF StorageInv
<1>6. ASSUME NEW p \in Piece, \/ HandlePieceFailed(p) \/ HandleWriteFailure(p)
                              \/ HandleIgnoredPiece(p)
      PROVE  Carried'
  BY <1>6 DEF HandlePieceFailed, HandleWriteFailure, HandleIgnoredPiece, StorageInv
<1>7. ASSUME NEW p \in Piece, HandlePieceWritten(p) PROVE Carried'
  <2>1. resume' \in ResumeType
    BY <1>0, <1>7, SavesCompleted DEF HandlePieceWritten, SaveProgress
  <2> QED
    BY <1>7, <2>1 DEF HandlePieceWritten, StorageInv
<1>8. CASE HandleSetSelection
  <2>1. resume' \in ResumeType
    BY <1>0, <1>8, SavesCompleted DEF HandleSetSelection, SaveProgress
  <2>2. set_selections' \in Seq(SetSelectionMsg)
    BY <1>8 DEF HandleSetSelection, StorageInv
  <2> QED
    BY <1>8, <2>1, <2>2 DEF HandleSetSelection, StorageInv
<1>9. CASE HandleSelectionFailure
  BY <1>9 DEF HandleSelectionFailure, StorageInv
<1>10. CASE Stop \/ Die
  <2>1. resume' \in ResumeType
    BY <1>0, <1>10, SavesCompleted DEF Stop, Die, SavesOnStop
  <2>2. UNCHANGED chosen /\ current_flags' = File /\ set_selections' = <<>>
    BY <1>10 DEF Stop, Die, Forgotten
  <2> QED
    BY <2>1, <2>2, FileSelectionsAllowed DEF StorageInv
<1> QED
  BY <1>1, <1>2, <1>3, <1>4, <1>5, <1>6, <1>7, <1>8, <1>9, <1>10 DEF Next

\* The inductive invariant of the running program.
LEMMA StorageInvariant == Spec => []StorageInv
<1>1. Init => StorageInv
  <2>1. ManagerInit => ManagerInv
    BY StartEstablishesInv, SelectionsAssumption DEF ManagerInit
  <2> QED
    BY <2>1, InitImplements DEF StorageInv
<1>2. StorageInv /\ [Next]_vars => StorageInv'
  BY StepKeepsManagerInv, StepKeepsCarried DEF StorageInv
<1> QED
  BY <1>1, <1>2, PTL DEF Spec

\* The running program implements the piece manager, for every layout of
\* files, every fault and any number of restarts.
THEOREM ImplementsManager == Spec => ManagerSpec
<1>1. Init => ManagerInit
  BY InitImplements
<1>2. StorageInv /\ [Next]_vars => [ManagerNext]_managerVars
  BY StepImplements DEF vars, coordinatorVars
<1> QED
  BY <1>1, <1>2, StorageInvariant, PTL DEF Spec, ManagerSpec

\* So the running program never loses a wanted piece.
THEOREM NoLossInProgram == Spec => []NoWantedPieceLost
BY StorageInvariant, PTL DEF StorageInv, ManagerInv

-----------------------------------------------------------------------------
(* What survives: the safety properties of Storage for any number of       *)
(* pieces and files, any layout, any length of the mailbox.                *)

-----------------------------------------------------------------------------
(* The calls of the disk back ends, one lemma each: what they do to a disk *)
(* of the right type.                                                      *)

\* The segments of a piece in some of its files are segments of the torrent.
LEMMA SegmentsOfPiece ==
    ASSUME NEW p \in Piece, NEW files \in SUBSET FilesOf[p]
    PROVE  {p} \X files \subseteq Segment
BY LayoutAssumption DEF Segment

\* A segment lies in a file of the torrent.
LEMMA SegmentInFile ==
    ASSUME NEW s \in Segment
    PROVE  s[2] \in File
<1>1. PICK p \in DOMAIN FilesOf : s \in {p} \X FilesOf[p]
  BY DEF Segment
<1>2. s[2] \in FilesOf[p]
  BY <1>1
<1> QED
  BY <1>2, FilesOfAssumption

\* sync_data: more is durable, nothing else changes.
LEMMA SyncedDisk ==
    ASSUME NEW d \in DiskType, NEW files
    PROVE  /\ Synced(d, files) \in DiskType
           /\ Synced(d, files).open = d.open
           /\ Synced(d, files).dirty = d.dirty
           /\ Synced(d, files).cache = d.cache
           /\ Synced(d, files).durable = d.durable \cup SegmentsOf(files, d.cache)
BY DEF DiskType, Synced, SegmentsOf

\* init_with_selection: handles for the chosen files, nothing dirty.
LEMMA InitialisedDisk ==
    ASSUME NEW d \in DiskType, NEW files \in FileSet
    PROVE  /\ Initialised(d, files) \in DiskType
           /\ Initialised(d, files).open = files
           /\ Initialised(d, files).dirty = {}
           /\ Initialised(d, files).cache = d.cache
           /\ Initialised(d, files).durable = d.durable
BY DEF DiskType, Initialised, FileSet

\* write_piece to some of the files of a piece.
LEMMA WrittenToDisk ==
    ASSUME NEW d \in DiskType, NEW p \in Piece, NEW files \in SUBSET FilesOf[p]
    PROVE  /\ WrittenTo(d, p, files) \in DiskType
           /\ WrittenTo(d, p, files).open = d.open
           /\ WrittenTo(d, p, files).dirty = d.dirty \cup files
           /\ WrittenTo(d, p, files).cache = d.cache \cup ({p} \X files)
           /\ WrittenTo(d, p, files).durable = d.durable
<1>1. files \subseteq File
  BY FilesOfAssumption, LayoutAssumption
<1> QED
  BY <1>1, SegmentsOfPiece DEF DiskType, WrittenTo

\* flush: the dirty files with a handle are synced.
LEMMA FlushedDisk ==
    ASSUME NEW d \in DiskType
    PROVE  /\ Flushed(d) \in DiskType
           /\ Flushed(d).open = d.open
           /\ Flushed(d).dirty = {}
           /\ Flushed(d).cache = d.cache
           /\ Flushed(d).durable = d.durable \cup SegmentsOf(d.dirty \cap d.open, d.cache)
<1> DEFINE e == Synced(d, d.dirty \cap d.open)
<1>1. /\ e \in DiskType /\ e.open = d.open /\ e.cache = d.cache
      /\ e.durable = d.durable \cup SegmentsOf(d.dirty \cap d.open, d.cache)
  BY SyncedDisk
<1>2. Flushed(d) = [e EXCEPT !.dirty = {}]
  BY DEF Flushed
<1> HIDE DEF e
<1> QED
  BY <1>1, <1>2 DEF DiskType

\* flush broken off: some of the dirty files are synced and clean.
LEMMA FlushFailuresDisk ==
    ASSUME NEW d \in DiskType, NEW e \in FlushFailures(d)
    PROVE  /\ e \in DiskType
           /\ e.open = d.open
           /\ e.cache = d.cache
           /\ \E before \in SUBSET d.dirty :
                /\ e.dirty = d.dirty \ before
                /\ e.durable = d.durable \cup SegmentsOf(before \cap d.open, d.cache)
<1>1. PICK f \in d.dirty \cap d.open :
         e = [Synced(d, {g \in d.dirty : g < f} \cap d.open) EXCEPT
                !.dirty = @ \ {g \in d.dirty : g < f}]
  BY DEF FlushFailures
<1> DEFINE before == {g \in d.dirty : g < f}
           c == Synced(d, before \cap d.open)
<1>2. /\ c \in DiskType /\ c.open = d.open /\ c.cache = d.cache /\ c.dirty = d.dirty
      /\ c.durable = d.durable \cup SegmentsOf(before \cap d.open, d.cache)
  BY SyncedDisk
<1>3. e = [c EXCEPT !.dirty = @ \ before] /\ before \in SUBSET d.dirty
  BY <1>1
<1> HIDE DEF c, before
<1>4. /\ e \in DiskType /\ e.open = d.open /\ e.cache = d.cache
      /\ e.dirty = d.dirty \ before /\ e.durable = c.durable
  BY <1>2, <1>3 DEF DiskType
<1> QED
  BY <1>2, <1>3, <1>4

\* set_selection: handles for the new files, the released ones synced.
LEMMA ReselectedDisk ==
    ASSUME NEW d \in DiskType, NEW files \in FileSet
    PROVE  /\ Reselected(d, files) \in DiskType
           /\ Reselected(d, files).open = files
           /\ Reselected(d, files).dirty = d.dirty \ (d.open \ files)
           /\ Reselected(d, files).cache = d.cache
           /\ Reselected(d, files).durable = d.durable \cup SegmentsOf(d.open \ files, d.cache)
<1> DEFINE c == Synced(d, d.open \ files)
<1>1. /\ c \in DiskType /\ c.open = d.open /\ c.cache = d.cache /\ c.dirty = d.dirty
      /\ c.durable = d.durable \cup SegmentsOf(d.open \ files, d.cache)
  BY SyncedDisk
<1>2. Reselected(d, files) = [c EXCEPT !.open = files, !.dirty = @ \ (d.open \ files)]
  BY DEF Reselected
<1> HIDE DEF c
<1> QED
  BY <1>1, <1>2 DEF DiskType, FileSet

\* set_selection that fails leaves some disk; nothing is known of its handles.
LEMMA SelectionFailuresDisk ==
    ASSUME NEW d \in DiskType, NEW files \in FileSet,
           NEW e \in OpenFailures(d, files) \cup SyncFailures(d, files)
    PROVE  e \in DiskType
<1>1. ASSUME NEW f PROVE SwitchedBefore(d, files, f) \in DiskType
  <2> DEFINE released == {g \in d.open \ files : g < f}
             opened == {g \in files \ d.open : g < f}
             c == Synced(d, released)
  <2>1. c \in DiskType
    BY SyncedDisk
  <2>2. SwitchedBefore(d, files, f) =
            [c EXCEPT !.open = (@ \ released) \cup opened, !.dirty = @ \ released]
    BY DEF SwitchedBefore
  <2>3. opened \subseteq File
    BY DEF FileSet
  <2> HIDE DEF c, released, opened
  <2> QED
    BY <2>1, <2>2, <2>3 DEF DiskType
<1>2. ASSUME NEW f PROVE [SwitchedBefore(d, files, f) EXCEPT !.open = @ \ {f}] \in DiskType
  BY <1>1 DEF DiskType
<1> QED
  BY <1>1, <1>2 DEF OpenFailures, SyncFailures

\* The end of a process takes the handles only.
LEMMA AfterExitDisk ==
    ASSUME NEW d \in DiskType
    PROVE  /\ AfterExit(d) \in DiskType
           /\ AfterExit(d).open = {} /\ AfterExit(d).dirty = {}
           /\ AfterExit(d).cache = d.cache /\ AfterExit(d).durable = d.durable
BY DEF DiskType, AfterExit

\* A power loss leaves what was durable, and perhaps more.
LEMMA PowerLossDisk ==
    ASSUME NEW d \in DiskType, NEW e \in AfterPowerLoss(d)
    PROVE  /\ e \in DiskType
           /\ e.open = {} /\ e.dirty = {}
           /\ e.cache = e.durable /\ d.durable \subseteq e.durable
BY DEF DiskType, AfterPowerLoss

-----------------------------------------------------------------------------
(* Type correctness.  ManagerInv and Carried have most of it.              *)

\* A file check is at a piece of the torrent.
CheckInRange == phase = "checking" => next_piece < NumPieces

TypeInv == StorageInv /\ StorageTypeOK /\ CheckInRange

\* A save leaves the disk flushed, or partly flushed.
LEMMA SaveKeepsDiskType ==
    ASSUME NEW d \in DiskType, SaveProgress(d)
    PROVE  disk' \in DiskType
<1>1. disk' = Flushed(d) \/ disk' \in FlushFailures(d)
  BY DEF SaveProgress
<1>2. Flushed(d) \in DiskType /\ \A e \in FlushFailures(d) : e \in DiskType
  BY FlushedDisk, FlushFailuresDisk
<1> QED
  BY <1>1, <1>2

\* The end of the process leaves a disk.
LEMMA ExitKeepsDiskType ==
    ASSUME NEW d \in DiskType, ProcessEnds(d)
    PROVE  disk' \in DiskType
<1>1. Synced(d, File) \in DiskType
  BY SyncedDisk
<1> QED
  BY <1>1, AfterExitDisk DEF ProcessEnds

\* The disk has its type after every step.
LEMMA StepKeepsDiskType ==
    ASSUME TypeInv, [Next]_vars
    PROVE  disk' \in DiskType
<1>0. disk \in DiskType /\ chosen \in FileSet
  BY DEF TypeInv, StorageTypeOK
<1>1. CASE UNCHANGED disk
  BY <1>0, <1>1
<1>2. CASE Launch
  <2>1. FilesAtStart \in FileSet
    BY <1>0, FilesAtStartAgree
  <2> QED
    BY <1>0, <1>2, <2>1, InitialisedDisk DEF Launch
<1>3. ASSUME NEW p \in Piece, HandlePieceWritten(p) PROVE disk' \in DiskType
  <2>1. Written(disk, p) \in DiskType
    BY <1>0, WrittenToDisk DEF Written
  <2> QED
    BY <1>3, <2>1, SaveKeepsDiskType DEF HandlePieceWritten
<1>4. ASSUME NEW p \in Piece, HandleWriteFailure(p) PROVE disk' \in DiskType
  <2>1. PICK f \in FilesOf[p] \cap disk.open :
           disk' = WrittenTo(disk, p, {g \in FilesOf[p] \cap disk.open : g < f})
    BY <1>4 DEF HandleWriteFailure, WriteFailures
  <2>2. {g \in FilesOf[p] \cap disk.open : g < f} \in SUBSET FilesOf[p]
    OBVIOUS
  <2> QED
    BY <1>0, <2>1, <2>2, WrittenToDisk
<1>5. ASSUME HandleSetSelection \/ HandleSelectionFailure PROVE disk' \in DiskType
  <2>1. Head(set_selections).files \in FileSet
    <3>1. set_selections # <<>> /\ set_selections \in Seq(SetSelectionMsg)
      BY <1>5 DEF HandleSetSelection, HandleSelectionFailure, TypeInv, StorageTypeOK
    <3>2. Head(set_selections) \in SetSelectionMsg
      BY <3>1
    <3> QED
      BY <3>2 DEF SetSelectionMsg
  <2>2. CASE HandleSetSelection
    <3> DEFINE d == Reselected(disk, Head(set_selections).files)
    <3>1. d \in DiskType
      BY <1>0, <2>1, ReselectedDisk
    <3>2. SaveProgress(d) \/ disk' = d
      BY <2>2 DEF HandleSetSelection
    <3> HIDE DEF d
    <3> QED
      BY <3>1, <3>2, SaveKeepsDiskType
  <2>3. CASE HandleSelectionFailure
    BY <1>0, <2>1, <2>3, SelectionFailuresDisk DEF HandleSelectionFailure
  <2> QED
    BY <1>5, <2>2, <2>3
<1>6. CASE Stop
  <2>1. CASE Downloading
    BY <1>0, <1>6, <2>1, FlushedDisk, FlushFailuresDisk, ExitKeepsDiskType
       DEF Stop, SavesOnStop
  <2>2. CASE ~Downloading
    BY <1>0, <1>6, <2>2, ExitKeepsDiskType DEF Stop
  <2> QED
    BY <2>1, <2>2
<1>7. CASE Die
  BY <1>0, <1>7, PowerLossDisk, ExitKeepsDiskType DEF Die
<1>8. CASE DeleteFiles
  BY <1>8 DEF DeleteFiles, EmptyDisk, DiskType
<1>9. ASSUME NEW p \in Piece, HandlePieceFailed(p) \/ HandleIgnoredPiece(p)
      PROVE  UNCHANGED disk
  BY <1>9 DEF HandlePieceFailed, HandleIgnoredPiece
<1>10. ASSUME NEW files \in FileSet, ChooseFiles(files) PROVE UNCHANGED disk
  BY <1>10 DEF ChooseFiles
<1>11. CASE Unpause \/ RelaySelection \/ HandleCheckTick \/ HandleRequestWork \/ UNCHANGED vars
  BY <1>1, <1>11 DEF Unpause, RelaySelection, HandleCheckTick, HandleRequestWork, vars, storageVars
<1> QED
  BY <1>1, <1>2, <1>3, <1>4, <1>5, <1>6, <1>7, <1>8, <1>9, <1>10, <1>11 DEF Next

\* The coordinator's control variables keep their types, and a check never
\* runs past the last piece.
LEMMA StepKeepsControlType ==
    ASSUME TypeInv, [Next]_vars
    PROVE  ControlTypeOK' /\ CheckInRange'
<1> USE NumPiecesAssumption DEF ControlTypeOK, CheckInRange
<1>0. ControlTypeOK /\ CheckInRange
  BY DEF TypeInv, StorageTypeOK
<1>1. CASE UNCHANGED controlVars
  BY <1>0, <1>1 DEF controlVars
<1>2. CASE Launch
  <2>1. /\ phase' \in {"checking", "downloading"} /\ next_piece' = 0
        /\ phase' = "checking" => NumPieces > 0
    BY <1>2 DEF Launch, StartCoordinator
  <2>2. paused' \in BOOLEAN /\ has_completed' \in BOOLEAN
    BY <1>2, Zenon DEF Launch, StartCoordinator
  <2> QED
    BY <2>1, <2>2
<1>3. CASE Unpause
  BY <1>0, <1>3 DEF Unpause, SetPaused
<1>4. CASE HandleCheckTick
  <2>1. /\ next_piece' = next_piece + 1
        /\ phase = "checking" /\ phase' \in {"checking", "downloading"}
        /\ phase' = "checking" => next_piece' < NumPieces
    BY <1>0, <1>4 DEF HandleCheckTick, CheckTick
  <2>2. IsDone' \in BOOLEAN
    BY DEF IsDone
  <2>3. paused' \in BOOLEAN /\ has_completed' \in BOOLEAN
    BY <1>0, <1>4, <2>2 DEF HandleCheckTick, CheckTick
  <2> QED
    BY <1>0, <2>1, <2>3
<1>5. CASE HandleRequestWork
  BY <1>1, <1>5 DEF HandleRequestWork, RequestWork
<1>6. ASSUME NEW p \in Piece, HandlePieceFailed(p) PROVE UNCHANGED controlVars
  BY <1>6 DEF HandlePieceFailed, PieceFailed
<1>7. ASSUME NEW p \in Piece,
             HandlePieceWritten(p) \/ HandleWriteFailure(p) \/ HandleIgnoredPiece(p)
      PROVE  ControlTypeOK' /\ CheckInRange'
  <2>1. PICK written \in BOOLEAN : PieceDownloaded(p, written)
    BY <1>7 DEF HandlePieceWritten, HandleWriteFailure, HandleIgnoredPiece
  <2> QED
    BY <1>0, <1>1, <2>1 DEF PieceDownloaded, coordinatorVars, controlVars, IsDone
<1>8. CASE HandleSetSelection \/ HandleSelectionFailure
  BY <1>0, <1>8 DEF HandleSetSelection, HandleSelectionFailure, SetSelection,
                    coordinatorVars, controlVars, AnnouncedAfter, IsDone
<1>9. CASE Stop \/ Die
  <2>1. phase' = "stopped" /\ next_piece' = 0
    BY <1>9 DEF Stop, Die, Forgotten
  <2>2. paused' \in BOOLEAN /\ has_completed' \in BOOLEAN
    BY <1>9 DEF Stop, Die, Forgotten
  <2> QED
    BY <2>1, <2>2
<1>10. CASE DeleteFiles \/ RelaySelection \/ UNCHANGED vars
  BY <1>1, <1>10 DEF DeleteFiles, RelaySelection, vars, coordinatorVars
<1>11. ASSUME NEW files \in FileSet, ChooseFiles(files) PROVE UNCHANGED controlVars
  BY <1>11 DEF ChooseFiles, coordinatorVars
<1> QED
  BY <1>1, <1>2, <1>3, <1>4, <1>5, <1>6, <1>7, <1>8, <1>9, <1>10, <1>11 DEF Next

\* The remaining variables keep their types.
LEMMA StepKeepsUserType ==
    ASSUME TypeInv, [Next]_vars
    PROVE  /\ target_exists' \in BOOLEAN /\ command_pending' \in BOOLEAN
           /\ requested' \subseteq Piece /\ refused' \in BOOLEAN
           /\ selected_files' \in FileSet /\ resume_files' \subseteq File
<1> DEFINE Goal == /\ target_exists' \in BOOLEAN /\ command_pending' \in BOOLEAN
                   /\ requested' \subseteq Piece /\ refused' \in BOOLEAN
                   /\ selected_files' \in FileSet /\ resume_files' \subseteq File
<1>0. /\ target_exists \in BOOLEAN /\ command_pending \in BOOLEAN
      /\ requested \subseteq Piece /\ chosen \in FileSet /\ refused \in BOOLEAN
      /\ selected_files \in FileSet /\ resume_files \subseteq File
  BY DEF TypeInv, StorageTypeOK
<1>1. CASE UNCHANGED <<target_exists, command_pending, requested, refused, selected_files,
                       resume_files>>
  BY <1>0, <1>1
<1>2. ASSUME NEW files \in FileSet, ChooseFiles(files) PROVE Goal
  BY <1>0, <1>2 DEF ChooseFiles, Stopped
<1>3. CASE Launch
  BY <1>0, <1>3, FilesAtStartAgree DEF Launch
<1>4. CASE RelaySelection
  BY <1>0, <1>4 DEF RelaySelection
<1>5. CASE HandleRequestWork
  BY <1>0, <1>5 DEF HandleRequestWork
<1>6. ASSUME NEW p \in Piece, HandlePieceFailed(p) \/ HandleWriteFailure(p) \/ HandleIgnoredPiece(p)
      PROVE  Goal
  BY <1>0, <1>6 DEF HandlePieceFailed, HandleWriteFailure, HandleIgnoredPiece, GivesUp, Delivers
<1>7. ASSUME NEW p \in Piece, HandlePieceWritten(p) PROVE Goal
  <2>1. resume_files' \in {resume_files, selected_files'}
    BY <1>7 DEF HandlePieceWritten, SaveProgress
  <2> QED
    BY <1>0, <1>7, <2>1 DEF HandlePieceWritten, Delivers, FileSet
<1>8. CASE HandleSetSelection
  <2>1. resume_files' \in {resume_files, selected_files'}
    BY <1>8 DEF HandleSetSelection, SaveProgress
  <2>2. selected_files' \in FileSet
    <3>1. set_selections # <<>> /\ set_selections \in Seq(SetSelectionMsg)
      BY <1>8 DEF HandleSetSelection, TypeInv, StorageTypeOK
    <3>2. Head(set_selections) \in SetSelectionMsg
      BY <3>1
    <3> QED
      BY <1>8, <3>2 DEF HandleSetSelection, SetSelectionMsg
  <2> QED
    BY <1>0, <1>8, <2>1, <2>2 DEF HandleSetSelection, FileSet
<1>9. CASE Stop \/ Die
  <2>1. resume_files' \in {resume_files, selected_files}
    BY <1>9 DEF Stop, Die, SavesOnStop
  <2> QED
    BY <1>0, <1>9, <2>1, FileSelectionsAllowed DEF Stop, Die, Forgotten, FileSet
<1>10. CASE DeleteFiles
  BY <1>0, <1>10 DEF DeleteFiles
<1>11. CASE Unpause \/ HandleCheckTick \/ UNCHANGED vars
  BY <1>1, <1>11 DEF Unpause, HandleCheckTick, vars, storageVars
<1>12. CASE HandleSelectionFailure
  BY <1>0, <1>12 DEF HandleSelectionFailure
<1> QED
  BY <1>1, <1>2, <1>3, <1>4, <1>5, <1>6, <1>7, <1>8, <1>9, <1>10, <1>11, <1>12 DEF Next

\* The whole type invariant is inductive.
LEMMA StepKeepsTypes ==
    ASSUME TypeInv, [Next]_vars
    PROVE  TypeInv'
<1>1. StorageInv'
  BY StepKeepsManagerInv, StepKeepsCarried DEF TypeInv, StorageInv
<1>2. TypeOK' /\ Carried'
  BY <1>1 DEF StorageInv, ManagerInv
<1> QED
  BY <1>1, <1>2, StepKeepsDiskType, StepKeepsControlType, StepKeepsUserType
     DEF TypeInv, StorageTypeOK, Carried

\* The initial state is well typed.
LEMMA InitIsTyped == Init => TypeInv
<1> SUFFICES ASSUME Init PROVE TypeInv
  OBVIOUS
<1>1. StorageInv
  <2>1. ManagerInit => ManagerInv
    BY StartEstablishesInv, SelectionsAssumption DEF ManagerInit
  <2> QED
    BY <2>1, InitImplements DEF StorageInv
<1>2. disk \in DiskType
  BY DEF Init, EmptyDisk, DiskType
<1>3. ControlTypeOK /\ CheckInRange
  <2>1. phase = "stopped" /\ next_piece = 0
    BY DEF Init
  <2>2. paused \in BOOLEAN /\ has_completed \in BOOLEAN
    BY DEF Init
  <2> QED
    BY <2>1, <2>2, NumPiecesAssumption DEF ControlTypeOK, CheckInRange
<1>4. /\ target_exists \in BOOLEAN /\ command_pending \in BOOLEAN
      /\ requested \subseteq Piece /\ refused \in BOOLEAN
      /\ selected_files \in FileSet /\ resume_files \subseteq File
  BY FileSelectionsAllowed DEF Init
<1>5. TypeOK /\ Carried
  BY <1>1 DEF StorageInv, ManagerInv
<1> QED
  BY <1>1, <1>2, <1>3, <1>4, <1>5 DEF TypeInv, StorageTypeOK, Carried

\* Every variable of the running program keeps its type, whatever fails.
THEOREM StorageTypeCorrect == Spec => []StorageTypeOK
<1>1. TypeInv => StorageTypeOK
  BY DEF TypeInv
<1> QED
  BY <1>1, InitIsTyped, StepKeepsTypes, PTL DEF Spec

-----------------------------------------------------------------------------
(* DownloadComplete is announced for a complete torrent only.  No fault    *)
(* has to be excluded.                                                     *)

\* A torrent announced as complete stays complete until the next selection.
LEMMA StepKeepsAnnouncement ==
    ASSUME TypeInv, AnnouncedIsDone, [Next]_vars
    PROVE  AnnouncedIsDone'
<1> USE DEF AnnouncedIsDone, Downloading
<1>0. ManagerInv' /\ DoneMeansAllWanted'
  <2>1. ManagerInv'
    BY StepKeepsManagerInv DEF TypeInv
  <2>2. ManagerInv' => DoneMeansAllWanted'
    BY CountersDecideDone, PTL
  <2> QED
    BY <2>1, <2>2
<1>1. IsDone' => (selection.wanted \subseteq completed)'
  BY <1>0 DEF DoneMeansAllWanted
<1>2. CASE UNCHANGED <<phase, has_completed, selection, completed>>
  BY <1>2
<1>3. CASE Launch \/ Stop \/ Die
  <2>1. phase' = "stopped" \/ has_completed' = FALSE
    BY <1>3 DEF Launch, StartCoordinator, Stop, Die, Forgotten
  <2> QED
    BY <2>1
<1>4. CASE Unpause
  BY <1>2, <1>4 DEF Unpause, SetPaused, managerVars
<1>5. CASE HandleCheckTick
  BY <1>1, <1>5 DEF HandleCheckTick, CheckTick
<1>6. CASE HandleRequestWork
  <2>1. UNCHANGED <<selection, completed>>
    BY <1>6 DEF HandleRequestWork, RequestWork, NextWorkFor, NoWorkFor, managerVars
  <2> QED
    BY <1>2, <1>6, <2>1 DEF HandleRequestWork, RequestWork, controlVars
<1>7. ASSUME NEW p \in Piece, HandlePieceFailed(p)
      PROVE  UNCHANGED <<phase, has_completed, selection, completed>>
  BY <1>7 DEF HandlePieceFailed, PieceFailed, ReturnWork, controlVars, managerVars
<1>8. ASSUME NEW p \in Piece,
             HandlePieceWritten(p) \/ HandleWriteFailure(p) \/ HandleIgnoredPiece(p)
      PROVE  AnnouncedIsDone'
  <2>1. PICK written \in BOOLEAN : PieceDownloaded(p, written)
    BY <1>8 DEF HandlePieceWritten, HandleWriteFailure, HandleIgnoredPiece
  <2>2. CASE MarkCompleted(p) /\ has_completed' = (has_completed \/ IsDone') /\ UNCHANGED phase
    <3>1. completed \subseteq completed' /\ selection' = selection
      BY <2>2 DEF MarkCompleted
    <3> QED
      BY <1>1, <2>2, <3>1
  <2>3. CASE UNCHANGED <<phase, has_completed, selection, completed>>
    BY <1>2, <2>3
  <2> QED
    BY <2>1, <2>2, <2>3
       DEF PieceDownloaded, ReturnWork, coordinatorVars, controlVars, managerVars
<1>9. CASE HandleSetSelection
  <2>1. has_completed' = AnnouncedAfter /\ UNCHANGED phase
    BY <1>9 DEF HandleSetSelection, SetSelection
  <2> QED
    BY <1>1, <2>1 DEF AnnouncedAfter
<1>10. CASE HandleSelectionFailure \/ DeleteFiles \/ RelaySelection \/ UNCHANGED vars
  BY <1>2, <1>10 DEF HandleSelectionFailure, SetSelection, DeleteFiles, RelaySelection, vars,
                     coordinatorVars, controlVars, managerVars
<1>11. ASSUME NEW files \in FileSet, ChooseFiles(files)
       PROVE  UNCHANGED <<phase, has_completed, selection, completed>>
  BY <1>11 DEF ChooseFiles, coordinatorVars, controlVars, managerVars
<1> QED
  BY <1>2, <1>3, <1>4, <1>5, <1>6, <1>7, <1>8, <1>9, <1>10, <1>11 DEF Next

\* A torrent announced as complete is complete, until a selection change takes
\* the announcement back: for every fault and every sequence of selections.
THEOREM AnnouncedTorrentIsDone == Spec => []AnnouncedIsDone
<1>1. Init => TypeInv /\ AnnouncedIsDone
  BY InitIsTyped DEF Init, AnnouncedIsDone, Downloading
<1>2. TypeInv /\ AnnouncedIsDone /\ [Next]_vars => (TypeInv /\ AnnouncedIsDone)'
  BY StepKeepsTypes, StepKeepsAnnouncement
<1> QED
  BY <1>1, <1>2, PTL DEF Spec

-----------------------------------------------------------------------------
(* The way of a selection: from the user's choice through background_task  *)
(* and the coordinator's mailbox to the manager and the handles of the     *)
(* disk.  What a queued message fetches again is right only if no message  *)
(* before it was refused (see the README), so here files can be opened and *)
(* synced.                                                                 *)

SelectionsAccepted == "open" \notin Faults /\ "sync" \notin Faults

\* The files selected when the i-th queued message will be handled.
FilesBefore(i) == IF i = 1 THEN selected_files ELSE set_selections[i - 1].files

\* Each queued message fetches again what its files gain over the selection it
\* will find, although current_flags was compared long before; the last one
\* brings current_flags.
Relayed ==
    /\ \A i \in 1 .. Len(set_selections) :
         set_selections[i].refetch = ToRefetch(FilesBefore(i), set_selections[i].files)
    /\ current_flags = FilesBefore(Len(set_selections) + 1)

SelectionInv ==
    /\ selection = SelectionOf(selected_files)
    /\ ~Stopped => disk.open = selected_files
    /\ ~Stopped => Relayed
    /\ Stopped => set_selections = <<>>

\* A save changes no handle.
LEMMA SaveKeepsHandles ==
    ASSUME NEW d \in DiskType, SaveProgress(d)
    PROVE  disk'.open = d.open /\ disk'.cache = d.cache
<1>1. disk' = Flushed(d) \/ disk' \in FlushFailures(d)
  BY DEF SaveProgress
<1>2. /\ Flushed(d).open = d.open /\ Flushed(d).cache = d.cache
      /\ \A e \in FlushFailures(d) : e.open = d.open /\ e.cache = d.cache
  BY FlushedDisk, FlushFailuresDisk
<1> QED
  BY <1>1, <1>2

\* What a delivered piece does to the disk before the progress is saved.
LEMMA PieceWrittenDisk ==
    ASSUME TypeInv, NEW p \in Piece, HandlePieceWritten(p)
    PROVE  /\ Written(disk, p) \in DiskType
           /\ Written(disk, p).open = disk.open
           /\ Written(disk, p).dirty = disk.dirty \cup (FilesOf[p] \cap disk.open)
           /\ Written(disk, p).cache = disk.cache \cup ({p} \X (FilesOf[p] \cap disk.open))
           /\ Written(disk, p).durable = disk.durable
           /\ disk' = Written(disk, p) \/ SaveProgress(Written(disk, p))
<1>1. disk \in DiskType /\ FilesOf[p] \cap disk.open \in SUBSET FilesOf[p]
  BY DEF TypeInv, StorageTypeOK
<1> QED
  BY <1>1, WrittenToDisk DEF Written, HandlePieceWritten

\* A failed write has written some of the files.
LEMMA WriteFailureDisk ==
    ASSUME TypeInv, NEW p \in Piece, HandleWriteFailure(p)
    PROVE  \E files \in SUBSET (FilesOf[p] \cap disk.open) :
             /\ disk' \in DiskType
             /\ disk'.open = disk.open
             /\ disk'.dirty = disk.dirty \cup files
             /\ disk'.cache = disk.cache \cup ({p} \X files)
             /\ disk'.durable = disk.durable
<1>1. PICK f \in FilesOf[p] \cap disk.open :
         disk' = WrittenTo(disk, p, {g \in FilesOf[p] \cap disk.open : g < f})
  BY DEF HandleWriteFailure, WriteFailures
<1> DEFINE files == {g \in FilesOf[p] \cap disk.open : g < f}
<1>2. disk \in DiskType /\ files \in SUBSET FilesOf[p] /\ files \subseteq disk.open
  BY DEF TypeInv, StorageTypeOK
<1>3. disk' = WrittenTo(disk, p, files)
  BY <1>1
<1> HIDE DEF files
<1> QED
  BY <1>2, <1>3, WrittenToDisk

\* What an accepted SetSelection does to the disk before the progress is saved.
LEMMA AcceptedSelectionDisk ==
    ASSUME TypeInv, HandleSetSelection
    PROVE  LET files == Head(set_selections).files
               d == Reselected(disk, files)
           IN  /\ files \in FileSet
               /\ d \in DiskType
               /\ disk'.open = files /\ disk'.cache = disk.cache
               /\ disk' = d \/ SaveProgress(d)
<1> DEFINE m == Head(set_selections)
           d == Reselected(disk, m.files)
<1>1. disk \in DiskType /\ set_selections # <<>> /\ set_selections \in Seq(SetSelectionMsg)
  BY DEF HandleSetSelection, TypeInv, StorageTypeOK
<1>2. m.files \in FileSet
  <2>1. m \in SetSelectionMsg
    BY <1>1
  <2> QED
    BY <2>1 DEF SetSelectionMsg
<1>3. d \in DiskType /\ d.open = m.files /\ d.cache = disk.cache
  BY <1>1, <1>2, ReselectedDisk
<1>4. disk' = d \/ SaveProgress(d)
  BY DEF HandleSetSelection
<1>5. disk'.open = m.files /\ disk'.cache = disk.cache
  <2> HIDE DEF d
  <2> QED
    BY <1>3, <1>4, SaveKeepsHandles
<1> QED
  BY <1>2, <1>3, <1>4, <1>5

\* SelectionInv survives every step but a refused set_selection.
LEMMA StepKeepsSelection ==
    ASSUME SelectionsAccepted, TypeInv, SelectionInv, [Next]_vars
    PROVE  SelectionInv'
<1> USE DEF SelectionInv, Relayed, FilesBefore, Stopped
<1>0. /\ disk \in DiskType /\ chosen \in FileSet
      /\ set_selections \in Seq(SetSelectionMsg)
  BY DEF TypeInv, StorageTypeOK
<1>1. CASE /\ UNCHANGED <<selection, phase, chosen, command_pending, current_flags,
                          set_selections, selected_files>>
           /\ disk'.open = disk.open
  BY <1>1
<1>2. ASSUME NEW files \in FileSet, ChooseFiles(files) PROVE SelectionInv'
  BY <1>2 DEF ChooseFiles, coordinatorVars, controlVars, managerVars
<1>3. CASE Launch
  <2>0. FilesAtStart \in FileSet /\ SelectionOf(FilesAtStart) = SelectionOf(chosen)
    BY <1>0, FilesAtStartAgree
  <2>1. /\ selection' = SelectionOf(FilesAtStart) /\ selected_files' = FilesAtStart
        /\ current_flags' = FilesAtStart
        /\ set_selections' = set_selections /\ phase = "stopped"
    BY <1>3, <2>0 DEF Launch, WithSelection, InitialFlags
  <2>2. disk'.open = FilesAtStart
    BY <1>0, <1>3, <2>0, InitialisedDisk DEF Launch
  <2>3. set_selections = <<>> /\ phase' # "stopped"
    BY <1>3 DEF Launch, StartCoordinator
  <2> QED
    BY <2>1, <2>2, <2>3
<1>4. CASE RelaySelection
  <2>1. CASE chosen = current_flags
    BY <1>4, <2>1 DEF RelaySelection, coordinatorVars, controlVars, managerVars
  <2>2. CASE chosen # current_flags
    <3> DEFINE m == [files |-> chosen, refetch |-> ToRefetch(current_flags, chosen)]
    <3>1. /\ set_selections' = Append(set_selections, m) /\ current_flags' = chosen
          /\ UNCHANGED <<chosen, selection, phase, disk, selected_files>>
          /\ phase # "stopped"
      BY <1>4, <2>2 DEF RelaySelection, coordinatorVars, controlVars, managerVars
    <3>2. m \in SetSelectionMsg /\ m.files = chosen /\ m.refetch = ToRefetch(current_flags, chosen)
      BY <1>0, RefetchIsPieces DEF SetSelectionMsg
    <3> HIDE DEF m
    <3>3. /\ Len(set_selections') = Len(set_selections) + 1
          /\ \A i \in 1 .. Len(set_selections) : set_selections'[i] = set_selections[i]
          /\ set_selections'[Len(set_selections) + 1] = m
      BY <1>0, <3>1, <3>2
    <3>4. Len(set_selections) \in Nat
      BY <1>0
    <3>5. Relayed'
      BY <3>1, <3>2, <3>3, <3>4
    <3> QED
      BY <3>1, <3>5
  <2> QED
    BY <2>1, <2>2
<1>5. CASE Unpause \/ HandleCheckTick \/ HandleRequestWork \/ UNCHANGED vars
  <2>1. UNCHANGED storageVars \/ HandleRequestWork
    BY <1>5 DEF Unpause, HandleCheckTick, vars
  <2>2. UNCHANGED selection
    BY <1>5 DEF Unpause, SetPaused, HandleCheckTick, CheckTick, MarkCompleted,
       HandleRequestWork, RequestWork, NextWorkFor, NoWorkFor, vars, coordinatorVars, managerVars
  <2>3. phase' = phase \/ (phase = "checking" /\ phase' = "downloading")
    BY <1>5 DEF Unpause, SetPaused, HandleCheckTick, CheckTick,
       HandleRequestWork, RequestWork, vars, coordinatorVars, controlVars
  <2>4. UNCHANGED <<disk, chosen, command_pending, current_flags, set_selections, selected_files>>
    BY <2>1 DEF storageVars, HandleRequestWork
  <2> QED
    BY <2>2, <2>3, <2>4
<1>6. ASSUME NEW p \in Piece,
             \/ HandlePieceFailed(p) \/ HandleIgnoredPiece(p)
             \/ HandlePieceWritten(p) \/ HandleWriteFailure(p)
      PROVE  SelectionInv'
  <2>1. UNCHANGED <<chosen, command_pending, current_flags, set_selections, selected_files>>
    BY <1>6 DEF HandlePieceFailed, HandleIgnoredPiece, HandlePieceWritten, HandleWriteFailure
  <2>2. UNCHANGED <<selection, phase>>
    BY <1>6 DEF HandlePieceFailed, HandleIgnoredPiece, HandlePieceWritten, HandleWriteFailure,
       PieceFailed, PieceDownloaded, ReturnWork, MarkCompleted, managerVars, controlVars,
       coordinatorVars
  <2>3. disk'.open = disk.open
    <3>1. CASE HandlePieceWritten(p)
      BY <3>1, PieceWrittenDisk, SaveKeepsHandles
    <3>2. CASE HandleWriteFailure(p)
      BY <3>2, WriteFailureDisk
    <3> QED
      BY <1>6, <3>1, <3>2 DEF HandlePieceFailed, HandleIgnoredPiece
  <2> QED
    BY <1>1, <2>1, <2>2, <2>3
<1>7. CASE HandleSetSelection
  <2> DEFINE m == Head(set_selections)
  <2>1. /\ set_selections # <<>> /\ set_selections' = Tail(set_selections)
        /\ selected_files' = m.files /\ selection' = SelectionOf(m.files)
        /\ UNCHANGED <<phase, chosen, command_pending, current_flags>>
    BY <1>7 DEF HandleSetSelection, SetSelection, ApplySelection
  <2>3. disk'.open = m.files
    BY <1>7, AcceptedSelectionDisk
  <2>4. /\ Len(set_selections) \in Nat /\ Len(set_selections) > 0 /\ m = set_selections[1]
        /\ Len(set_selections') = Len(set_selections) - 1
        /\ \A i \in 1 .. Len(set_selections') : set_selections'[i] = set_selections[i + 1]
    BY <1>0, <2>1
  <2> HIDE DEF m
  <2>5. ~Stopped => Relayed'
    <3> SUFFICES ASSUME ~Stopped PROVE Relayed'
      OBVIOUS
    <3>1. \A i \in 1 .. Len(set_selections') : FilesBefore(i)' = FilesBefore(i + 1)
      BY <2>1, <2>4
    <3>2. FilesBefore(Len(set_selections) + 1) = FilesBefore(Len(set_selections) + 1)'
      <4>1. CASE Len(set_selections) = 1
        BY <2>1, <2>4, <4>1
      <4>2. CASE Len(set_selections) > 1
        <5>1. /\ Len(set_selections') \in 1 .. Len(set_selections')
              /\ Len(set_selections) - 1 # 0 /\ Len(set_selections) + 1 # 1
          BY <2>4, <4>2
        <5>2. set_selections'[Len(set_selections')] = set_selections[Len(set_selections)]
          BY <2>4, <5>1
        <5> QED
          BY <2>4, <5>1, <5>2
      <4> QED
        BY <2>4, <4>1, <4>2
    <3>3. \A i \in 1 .. Len(set_selections') :
            set_selections[i + 1].refetch =
                ToRefetch(FilesBefore(i + 1), set_selections[i + 1].files)
      <4>1. \A i \in 1 .. Len(set_selections') : i + 1 \in 1 .. Len(set_selections)
        BY <2>4
      <4>2. Relayed
        OBVIOUS
      <4> QED
        BY <4>1, <4>2
    <3> QED
      BY <2>1, <2>4, <3>1, <3>2, <3>3
  <2> QED
    BY <2>1, <2>3, <2>5
<1>8. CASE HandleSelectionFailure
  BY <1>8 DEF HandleSelectionFailure, SelectionsAccepted
<1>9. CASE Stop \/ Die
  <2>1. /\ phase' = "stopped" /\ selection' = SelectionOf(File) /\ selected_files' = File
        /\ set_selections' = <<>>
    BY <1>9 DEF Stop, Die, Forgotten, WithSelection
  <2> QED
    BY <2>1
<1>10. CASE DeleteFiles
  <2>1. UNCHANGED <<phase, selection, selected_files, set_selections>> /\ phase = "stopped"
    BY <1>10 DEF DeleteFiles, coordinatorVars, controlVars, managerVars
  <2> QED
    BY <2>1
<1> QED
  BY <1>2, <1>3, <1>4, <1>5, <1>6, <1>7, <1>8, <1>9, <1>10 DEF Next

\* A fresh program has the whole torrent selected and nothing running.
LEMMA InitSelects == Init => SelectionInv
BY DEF Init, StartsFrom, SelectionInv, Stopped

\* Without refused selections the invariant of the whole way holds.
LEMMA SelectionInvariant == SelectionsAccepted /\ Spec => [](TypeInv /\ SelectionInv)
<1> DEFINE I == SelectionsAccepted /\ TypeInv /\ SelectionInv
<1>1. SelectionsAccepted /\ Init => I
  BY InitIsTyped, InitSelects
<1>2. I /\ [Next]_vars => I'
  BY StepKeepsTypes, StepKeepsSelection DEF SelectionsAccepted
<1> QED
  BY <1>1, <1>2, PTL DEF Spec

-----------------------------------------------------------------------------
(* Where a selection arrives does not depend on that: an accepted message  *)
(* sets manager and handles whatever the refused ones before it have left. *)

\* The last queued message brings current_flags, and current_flags the choice
\* that background_task read last.
SettledInv ==
    /\ selection = SelectionOf(selected_files)
    /\ Stopped => set_selections = <<>>
    /\ ~Stopped /\ ~refused => disk.open = selected_files
    /\ ~Stopped /\ set_selections = <<>> /\ ~refused => current_flags = selected_files
    /\ set_selections # <<>> => current_flags = set_selections[Len(set_selections)].files
    /\ ~Stopped /\ ~command_pending => current_flags = chosen \/ current_flags = FilesAtStart

\* SettledInv survives every step.
LEMMA StepKeepsSettled ==
    ASSUME TypeInv, SettledInv, [Next]_vars
    PROVE  SettledInv'
<1> USE DEF SettledInv, Stopped
<1>0. /\ disk \in DiskType /\ chosen \in FileSet
      /\ set_selections \in Seq(SetSelectionMsg)
  BY DEF TypeInv, StorageTypeOK
<1>1. CASE /\ UNCHANGED <<selection, phase, chosen, command_pending, current_flags,
                          set_selections, refused, selected_files>>
           /\ disk'.open = disk.open
  BY <1>1 DEF FilesAtStart
<1>2. ASSUME NEW files \in FileSet, ChooseFiles(files) PROVE SettledInv'
  BY <1>2 DEF ChooseFiles, coordinatorVars, controlVars, managerVars
<1>3. CASE Launch
  <2>0. FilesAtStart \in FileSet /\ SelectionOf(FilesAtStart) = SelectionOf(chosen)
    BY <1>0, FilesAtStartAgree
  <2>1. /\ selection' = SelectionOf(FilesAtStart) /\ selected_files' = FilesAtStart
        /\ current_flags' = FilesAtStart /\ chosen' = chosen
        /\ set_selections' = set_selections /\ phase = "stopped"
    BY <1>3, <2>0 DEF Launch, WithSelection, InitialFlags
  <2>2. disk'.open = FilesAtStart
    BY <1>0, <1>3, <2>0, InitialisedDisk DEF Launch
  <2>3. set_selections = <<>> /\ phase' # "stopped"
    BY <1>3 DEF Launch, StartCoordinator
  <2>4. FilesAtStart' = FilesAtStart
    BY <2>1 DEF FilesAtStart
  <2> QED
    BY <2>1, <2>2, <2>3, <2>4
<1>4. CASE RelaySelection
  <2>1. /\ UNCHANGED <<selection, phase, chosen, disk, refused, selected_files>>
        /\ current_flags' = chosen /\ phase # "stopped"
    BY <1>4 DEF RelaySelection, coordinatorVars, controlVars, managerVars
  <2>2. CASE chosen = current_flags
    BY <1>4, <2>1, <2>2 DEF RelaySelection
  <2>3. CASE chosen # current_flags
    <3> DEFINE m == [files |-> chosen, refetch |-> ToRefetch(current_flags, chosen)]
    <3>1. set_selections' = Append(set_selections, m)
      BY <1>4, <2>3 DEF RelaySelection
    <3>2. m \in SetSelectionMsg /\ m.files = chosen
      BY <1>0, RefetchIsPieces DEF SetSelectionMsg
    <3> HIDE DEF m
    <3>3. /\ Len(set_selections') = Len(set_selections) + 1
          /\ set_selections'[Len(set_selections) + 1] = m
          /\ set_selections' # <<>>
      BY <1>0, <3>1, <3>2
    <3> QED
      BY <2>1, <3>2, <3>3
  <2> QED
    BY <2>2, <2>3
<1>5. CASE Unpause \/ HandleCheckTick \/ HandleRequestWork \/ UNCHANGED vars
  <2>1. UNCHANGED storageVars \/ HandleRequestWork
    BY <1>5 DEF Unpause, HandleCheckTick, vars
  <2>2. UNCHANGED selection
    BY <1>5 DEF Unpause, SetPaused, HandleCheckTick, CheckTick, MarkCompleted,
       HandleRequestWork, RequestWork, NextWorkFor, NoWorkFor, vars, coordinatorVars, managerVars
  <2>3. phase' = phase \/ (phase = "checking" /\ phase' = "downloading")
    BY <1>5 DEF Unpause, SetPaused, HandleCheckTick, CheckTick,
       HandleRequestWork, RequestWork, vars, coordinatorVars, controlVars
  <2>4. UNCHANGED <<disk, chosen, command_pending, current_flags, set_selections, refused,
                    selected_files>>
    BY <2>1 DEF storageVars, HandleRequestWork
  <2> QED
    BY <2>2, <2>3, <2>4 DEF FilesAtStart
<1>6. ASSUME NEW p \in Piece,
             \/ HandlePieceFailed(p) \/ HandleIgnoredPiece(p)
             \/ HandlePieceWritten(p) \/ HandleWriteFailure(p)
      PROVE  SettledInv'
  <2>1. UNCHANGED <<chosen, command_pending, current_flags, set_selections, refused,
                    selected_files>>
    BY <1>6 DEF HandlePieceFailed, HandleIgnoredPiece, HandlePieceWritten, HandleWriteFailure
  <2>2. UNCHANGED <<selection, phase>>
    BY <1>6 DEF HandlePieceFailed, HandleIgnoredPiece, HandlePieceWritten, HandleWriteFailure,
       PieceFailed, PieceDownloaded, ReturnWork, MarkCompleted, managerVars, controlVars,
       coordinatorVars
  <2>3. disk'.open = disk.open
    <3>1. CASE HandlePieceWritten(p)
      BY <3>1, PieceWrittenDisk, SaveKeepsHandles
    <3>2. CASE HandleWriteFailure(p)
      BY <3>2, WriteFailureDisk
    <3> QED
      BY <1>6, <3>1, <3>2 DEF HandlePieceFailed, HandleIgnoredPiece
  <2> QED
    BY <1>1, <2>1, <2>2, <2>3
<1>7. ASSUME set_selections # <<>>, set_selections' = Tail(set_selections)
      PROVE  /\ set_selections' # <<>> =>
                   set_selections'[Len(set_selections')].files =
                       set_selections[Len(set_selections)].files
             /\ set_selections' = <<>> => Head(set_selections) = set_selections[Len(set_selections)]
  <2>1. /\ Len(set_selections) \in Nat /\ Len(set_selections) > 0
        /\ Len(set_selections') = Len(set_selections) - 1
        /\ \A i \in 1 .. Len(set_selections') : set_selections'[i] = set_selections[i + 1]
        /\ Head(set_selections) = set_selections[1]
    BY <1>0, <1>7
  <2>2. set_selections' \in Seq(SetSelectionMsg)
    BY <1>0, <1>7
  <2>3. CASE set_selections' = <<>>
    <3>1. Len(set_selections') = 0
      BY <2>3
    <3>2. Len(set_selections) = 1
      BY <2>1, <3>1
    <3> QED
      BY <2>1, <2>3, <3>2
  <2>4. CASE set_selections' # <<>>
    <3>1. Len(set_selections') \in 1 .. Len(set_selections')
      BY <2>2, <2>4
    <3> QED
      BY <2>1, <2>4, <3>1
  <2> QED
    BY <2>3, <2>4
<1>8. CASE HandleSetSelection
  <2> DEFINE m == Head(set_selections)
  <2>1. /\ set_selections # <<>> /\ set_selections' = Tail(set_selections)
        /\ selected_files' = m.files /\ selection' = SelectionOf(m.files)
        /\ UNCHANGED <<phase, chosen, command_pending, current_flags>> /\ phase # "stopped"
    BY <1>8 DEF HandleSetSelection, SetSelection, ApplySelection
  <2>2. disk'.open = m.files
    BY <1>8, AcceptedSelectionDisk
  <2> HIDE DEF m
  <2>3. set_selections' = <<>> => m = set_selections[Len(set_selections)]
    BY <1>7, <2>1 DEF m
  <2> QED
    BY <1>7, <2>1, <2>2, <2>3 DEF FilesAtStart
<1>9. CASE HandleSelectionFailure
  <2>1. /\ set_selections # <<>> /\ set_selections' = Tail(set_selections)
        /\ UNCHANGED <<selected_files, chosen, command_pending, current_flags>>
        /\ refused' = TRUE /\ phase # "stopped"
    BY <1>9 DEF HandleSelectionFailure
  <2>2. UNCHANGED <<selection, phase>>
    BY <1>9 DEF HandleSelectionFailure, SetSelection, coordinatorVars, controlVars, managerVars
  <2> QED
    BY <1>7, <2>1, <2>2 DEF FilesAtStart
<1>10. CASE Stop \/ Die
  <2>1. /\ phase' = "stopped" /\ selection' = SelectionOf(File) /\ selected_files' = File
        /\ set_selections' = <<>>
    BY <1>10 DEF Stop, Die, Forgotten, WithSelection
  <2> QED
    BY <2>1
<1>11. CASE DeleteFiles
  <2>1. UNCHANGED <<phase, selection, selected_files, set_selections, current_flags>>
        /\ phase = "stopped"
    BY <1>11 DEF DeleteFiles, coordinatorVars, controlVars, managerVars
  <2> QED
    BY <2>1
<1> QED
  BY <1>2, <1>3, <1>4, <1>5, <1>6, <1>8, <1>9, <1>10, <1>11 DEF Next

\* It holds with every fault.
LEMMA SettledInvariant == Spec => [](TypeInv /\ SettledInv)
<1>1. Init => TypeInv /\ SettledInv
  <2>1. Init => SettledInv
    BY DEF Init, StartsFrom, SettledInv, Stopped
  <2> QED
    BY <2>1, InitIsTyped
<1>2. TypeInv /\ SettledInv /\ [Next]_vars => (TypeInv /\ SettledInv)'
  BY StepKeepsTypes, StepKeepsSettled
<1> QED
  BY <1>1, <1>2, PTL DEF Spec

\* current_flags, from which background_task computes what to fetch again, is
\* the coordinator's selection whenever no message is under way and the last one
\* was not refused, for every interleaving of edits, relays, restarts and faults.
THEOREM FlagsFollowSelection == Spec => []CurrentFlagsExact
<1>1. SettledInv => CurrentFlagsExact
  BY DEF SettledInv, CurrentFlagsExact
<1> QED
  BY <1>1, SettledInvariant, PTL

\* The files the user chose are the files the torrent fetches, serves and has
\* handles for once no edit is under way and the last one was not refused, for
\* every layout, empty files included, and with every fault.
THEOREM SelectionArrives == Spec => []SelectionSettles
<1>1. TypeInv /\ SettledInv => SelectionSettles
  <2> SUFFICES ASSUME TypeInv, SettledInv, ~Stopped, ~command_pending,
                      set_selections = <<>>, ~refused
               PROVE  /\ selection = SelectionOf(chosen)
                      /\ chosen \subseteq disk.open
                      /\ \A p \in Piece : FilesOf[p] \cap disk.open \subseteq chosen
    BY DEF SelectionSettles
  <2>1. /\ selection = SelectionOf(disk.open)
        /\ disk.open = chosen \/ disk.open = FilesAtStart
    BY DEF SettledInv
  <2>2. /\ chosen \subseteq FilesAtStart
        /\ SelectionOf(FilesAtStart) = SelectionOf(chosen)
        /\ \A p \in Piece : FilesOf[p] \cap FilesAtStart = FilesOf[p] \cap chosen
    BY FilesAtStartAgree DEF TypeInv, StorageTypeOK
  <2> QED
    BY <2>1, <2>2
<1> QED
  BY <1>1, SettledInvariant, PTL

-----------------------------------------------------------------------------
(* Bytes.  Written, flushed and recorded, for the faults under which the   *)
(* README says the program keeps its promise: writes, flushes and saves    *)
(* fail, the process is killed, power is lost, the files are deleted.      *)

CoveredFaults == SelectionsAccepted /\ "lazy" \notin Faults /\ "hasty" \notin Faults

\* Whatever is not durable yet is in a file marked dirty, which has a handle,
\* so that the next flush reaches it.
Flushable(d) ==
    /\ d.dirty \subseteq d.open
    /\ d.durable \subseteq d.cache
    /\ \A s \in d.cache \ d.durable : s[2] \in d.dirty

DurableInv ==
    /\ Flushable(disk)
    /\ Stopped => disk.dirty = {}
    /\ RecordedIsDurable
    /\ CompletedIsStored
    /\ Stopped /\ target_exists => ResumeCovers(chosen)

\* A disk without dirty files has everything durable.
LEMMA CleanIsDurable ==
    ASSUME NEW d, Flushable(d), d.dirty = {}
    PROVE  d.cache = d.durable
BY DEF Flushable

\* A write marks the files it writes as dirty.
LEMMA WritingIsFlushable ==
    ASSUME NEW d, NEW e, NEW p, NEW files \in SUBSET d.open, Flushable(d),
           e.open = d.open, e.dirty = d.dirty \cup files,
           e.cache = d.cache \cup ({p} \X files), e.durable = d.durable
    PROVE  Flushable(e)
BY DEF Flushable

\* flush, whole or broken off, leaves nothing behind that it forgets.
LEMMA FlushIsFlushable ==
    ASSUME NEW d \in DiskType, Flushable(d)
    PROVE  /\ Flushable(Flushed(d))
           /\ Flushed(d).cache = Flushed(d).durable
           /\ d.durable \subseteq Flushed(d).durable
           /\ \A e \in FlushFailures(d) : Flushable(e) /\ d.durable \subseteq e.durable
<1>1. Flushable(Flushed(d)) /\ d.durable \subseteq Flushed(d).durable
  <2> DEFINE e == Flushed(d)
  <2>1. /\ e.open = d.open /\ e.dirty = {} /\ e.cache = d.cache
        /\ e.durable = d.durable \cup SegmentsOf(d.dirty \cap d.open, d.cache)
    BY FlushedDisk
  <2> HIDE DEF e
  <2>2. Flushable(e) /\ d.durable \subseteq e.durable
    BY <2>1 DEF Flushable, SegmentsOf
  <2> QED
    BY <2>2 DEF e
<1>2. Flushed(d).cache = Flushed(d).durable
  BY <1>1, FlushedDisk, CleanIsDurable
<1>3. ASSUME NEW e \in FlushFailures(d)
      PROVE  Flushable(e) /\ d.durable \subseteq e.durable
  <2>1. PICK before \in SUBSET d.dirty :
          /\ e.dirty = d.dirty \ before
          /\ e.durable = d.durable \cup SegmentsOf(before \cap d.open, d.cache)
    BY FlushFailuresDisk
  <2>2. e.open = d.open /\ e.cache = d.cache
    BY FlushFailuresDisk
  <2> QED
    BY <2>1, <2>2 DEF Flushable, SegmentsOf
<1> QED
  BY <1>1, <1>2, <1>3

\* A released file is synced before its handle goes.
LEMMA ReselectionIsFlushable ==
    ASSUME NEW d \in DiskType, NEW files \in FileSet, Flushable(d)
    PROVE  /\ Flushable(Reselected(d, files))
           /\ d.durable \subseteq Reselected(d, files).durable
<1> DEFINE e == Reselected(d, files)
<1>1. /\ e.open = files /\ e.dirty = d.dirty \ (d.open \ files) /\ e.cache = d.cache
      /\ e.durable = d.durable \cup SegmentsOf(d.open \ files, d.cache)
  BY ReselectedDisk
<1> HIDE DEF e
<1>2. Flushable(e) /\ d.durable \subseteq e.durable
  BY <1>1 DEF Flushable, SegmentsOf
<1> QED
  BY <1>2 DEF e

\* A process that ends leaves everything to the operating system, which
\* writes it back.
LEMMA ExitIsFlushable ==
    ASSUME CoveredFaults, NEW d \in DiskType, Flushable(d), ProcessEnds(d)
    PROVE  /\ Flushable(disk') /\ disk'.dirty = {}
           /\ d.cache \subseteq disk'.durable
<1> DEFINE e == Synced(d, File)
<1>1. disk' = AfterExit(e)
  BY DEF ProcessEnds, CoveredFaults
<1>2. /\ e \in DiskType /\ e.cache = d.cache
      /\ e.durable = d.durable \cup SegmentsOf(File, d.cache)
  BY SyncedDisk
<1>3. SegmentsOf(File, d.cache) = d.cache
  <2>1. d.cache \subseteq Segment
    BY DEF DiskType
  <2>2. \A s \in d.cache : s[2] \in File
    BY <2>1, SegmentInFile
  <2> QED
    BY <2>2 DEF SegmentsOf
<1> HIDE DEF e
<1>4. /\ disk'.open = {} /\ disk'.dirty = {}
      /\ disk'.cache = d.cache /\ disk'.durable = d.durable \cup d.cache
  BY <1>1, <1>2, <1>3, AfterExitDisk
<1> QED
  BY <1>4 DEF Flushable

\* The steps that touch neither the disk nor the resume file.
QuietStep ==
    \/ \E files \in FileSet : ChooseFiles(files)
    \/ Unpause \/ RelaySelection \/ HandleCheckTick \/ HandleRequestWork
    \/ \E p \in Piece : HandlePieceFailed(p) \/ HandleIgnoredPiece(p)
    \/ UNCHANGED vars

\* Quiet steps complete a piece only when the file check has read it.
LEMMA QuietStepsKeep ==
    ASSUME TypeInv, QuietStep
    PROVE  /\ UNCHANGED <<disk, resume, resume_files, target_exists, selected_files>>
           /\ Stopped' <=> Stopped
           /\ \/ UNCHANGED completed
              \/ /\ HandleCheckTick /\ Verifies(disk, next_piece)
                 /\ completed' = completed \cup {next_piece}
<1>1. UNCHANGED <<disk, resume, resume_files, target_exists, selected_files>>
  BY DEF QuietStep, ChooseFiles, Unpause, RelaySelection, HandleCheckTick,
     HandleRequestWork, HandlePieceFailed, HandleIgnoredPiece, vars, storageVars
<1>2. CASE HandleCheckTick
  BY <1>1, <1>2 DEF HandleCheckTick, CheckTick, MarkCompleted, managerVars, Stopped
<1>3. ASSUME NEW p \in Piece, HandlePieceFailed(p) \/ HandleIgnoredPiece(p)
      PROVE  UNCHANGED <<phase, completed>>
  BY <1>3 DEF HandlePieceFailed, PieceFailed, ReturnWork, HandleIgnoredPiece,
              PieceDownloaded, coordinatorVars, controlVars, managerVars
<1>4. CASE HandleRequestWork
  BY <1>1, <1>4 DEF HandleRequestWork, RequestWork, NextWorkFor, NoWorkFor,
                    controlVars, managerVars, Stopped
<1>5. ASSUME NEW files \in FileSet, ChooseFiles(files) PROVE UNCHANGED <<phase, completed>>
  BY <1>5 DEF ChooseFiles, coordinatorVars, controlVars, managerVars
<1>6. CASE Unpause \/ RelaySelection \/ UNCHANGED vars
  BY <1>1, <1>6 DEF Unpause, SetPaused, RelaySelection, vars, coordinatorVars,
                    controlVars, managerVars, Stopped
<1> QED
  BY <1>1, <1>2, <1>3, <1>4, <1>5, <1>6 DEF QuietStep, Stopped

\* Every step is quiet or one of these.
LEMMA StepCases ==
    ASSUME SelectionsAccepted, [Next]_vars
    PROVE  \/ QuietStep \/ Launch \/ HandleSetSelection \/ Stop \/ Die \/ DeleteFiles
           \/ \E p \in Piece : HandlePieceWritten(p) \/ HandleWriteFailure(p)
<1>1. ~HandleSelectionFailure
  BY DEF HandleSelectionFailure, SelectionsAccepted
<1> QED
  BY <1>1 DEF Next, QuietStep

\* No step but the deletion of the files forgets a durable segment, none
\* leaves one that the next flush would miss, and a stopped torrent has none.
LEMMA StepKeepsFlushable ==
    ASSUME CoveredFaults, TypeInv, SelectionInv, DurableInv, [Next]_vars
    PROVE  /\ Flushable(disk')
           /\ Stopped' => disk'.dirty = {}
           /\ DeleteFiles \/ disk.durable \subseteq disk'.durable
<1> USE DEF Stopped
<1>0. /\ disk \in DiskType /\ Flushable(disk)
      /\ phase = "stopped" => disk.dirty = {}
      /\ chosen \in FileSet /\ SelectionsAccepted
  BY DEF TypeInv, StorageTypeOK, DurableInv, CoveredFaults
<1>1. CASE QuietStep
  BY <1>0, <1>1, QuietStepsKeep
<1>2. CASE Launch
  <2>0. FilesAtStart \in FileSet
    BY <1>0, FilesAtStartAgree
  <2>1. /\ disk'.dirty = {} /\ disk'.cache = disk.cache /\ disk'.durable = disk.durable
    BY <1>0, <1>2, <2>0, InitialisedDisk DEF Launch
  <2>2. disk.cache = disk.durable
    BY <1>0, <1>2, CleanIsDurable DEF Launch
  <2> QED
    BY <2>1, <2>2 DEF Flushable
<1>3. ASSUME NEW d \in DiskType, Flushable(d), disk.durable \subseteq d.durable,
             disk' = d \/ SaveProgress(d)
      PROVE  Flushable(disk') /\ disk.durable \subseteq disk'.durable
  <2>1. disk' = d \/ disk' = Flushed(d) \/ disk' \in FlushFailures(d)
    BY <1>3 DEF SaveProgress
  <2> QED
    BY <1>3, <2>1, FlushIsFlushable
<1>4. CASE HandleSetSelection
  <2> DEFINE files == Head(set_selections).files
             d == Reselected(disk, files)
  <2>1. files \in FileSet /\ d \in DiskType /\ (disk' = d \/ SaveProgress(d))
    BY <1>4, AcceptedSelectionDisk
  <2>2. Flushable(d) /\ disk.durable \subseteq d.durable
    BY <1>0, <2>1, ReselectionIsFlushable
  <2>3. phase' # "stopped"
    BY <1>4 DEF HandleSetSelection, SetSelection
  <2> HIDE DEF d
  <2> QED
    BY <1>3, <2>1, <2>2, <2>3
<1>5. ASSUME NEW p \in Piece, HandlePieceWritten(p)
      PROVE  Flushable(disk') /\ disk.durable \subseteq disk'.durable /\ phase' # "stopped"
  <2> DEFINE d == Written(disk, p)
             files == FilesOf[p] \cap disk.open
  <2>1. /\ d \in DiskType /\ (disk' = d \/ SaveProgress(d))
        /\ d.open = disk.open /\ d.dirty = disk.dirty \cup files
        /\ d.cache = disk.cache \cup ({p} \X files) /\ d.durable = disk.durable
    BY <1>5, PieceWrittenDisk
  <2>2. files \in SUBSET disk.open
    OBVIOUS
  <2> HIDE DEF d, files
  <2>3. Flushable(d)
    BY <1>0, <2>1, <2>2, WritingIsFlushable
  <2>4. phase' = phase /\ phase = "downloading"
    BY <1>5 DEF HandlePieceWritten, Downloading, PieceDownloaded, coordinatorVars, controlVars
  <2> QED
    BY <1>3, <2>1, <2>3, <2>4
<1>6. ASSUME NEW p \in Piece, HandleWriteFailure(p)
      PROVE  Flushable(disk') /\ disk.durable \subseteq disk'.durable /\ phase' # "stopped"
  <2>1. PICK files \in SUBSET (FilesOf[p] \cap disk.open) :
             /\ disk'.open = disk.open
             /\ disk'.dirty = disk.dirty \cup files
             /\ disk'.cache = disk.cache \cup ({p} \X files)
             /\ disk'.durable = disk.durable
    BY <1>6, WriteFailureDisk
  <2>2. files \in SUBSET disk.open
    BY <2>1
  <2>3. Flushable(disk')
    BY <1>0, <2>1, <2>2, WritingIsFlushable
  <2>4. phase' = phase /\ phase = "downloading"
    BY <1>6 DEF HandleWriteFailure, Downloading, PieceDownloaded, coordinatorVars, controlVars
  <2> QED
    BY <2>1, <2>3, <2>4
<1>7. CASE Stop
  <2>1. PICK d \in DiskType : Flushable(d) /\ disk.durable \subseteq d.durable /\ ProcessEnds(d)
    <3>1. CASE Downloading
      BY <1>0, <1>7, <3>1, FlushedDisk, FlushFailuresDisk, FlushIsFlushable DEF Stop, SavesOnStop
    <3>2. CASE ~Downloading
      BY <1>0, <1>7, <3>2 DEF Stop
    <3> QED
      BY <3>1, <3>2
  <2> QED
    BY <2>1, ExitIsFlushable DEF Flushable
<1>8. CASE Die
  <2>1. CASE ProcessEnds(disk)
    BY <1>0, <2>1, ExitIsFlushable DEF Flushable
  <2>2. CASE disk' \in AfterPowerLoss(disk)
    BY <1>0, <2>2, PowerLossDisk DEF Flushable
  <2> QED
    BY <1>8, <2>1, <2>2 DEF Die
<1>9. CASE DeleteFiles
  BY <1>9 DEF DeleteFiles, EmptyDisk, Flushable
<1> QED
  BY <1>0, <1>1, <1>2, <1>4, <1>5, <1>6, <1>7, <1>8, <1>9, StepCases

\* A deselected and reselected file makes its pieces incomplete: whatever
\* stays completed has its bytes in the files selected before.
LEMMA RefetchCovers ==
    ASSUME NEW p \in Piece, NEW before, NEW after, p \notin ToRefetch(before, after)
    PROVE  FilesOf[p] \cap after \subseteq FilesOf[p] \cap before
BY LayoutAssumption DEF ToRefetch

\* Completed pieces stay stored: the selection, the queued messages and the
\* handles of the disk move together.
LEMMA StepKeepsStored ==
    ASSUME CoveredFaults, TypeInv, SelectionInv, DurableInv, [Next]_vars
    PROVE  CompletedIsStored'
<1> USE DEF CompletedIsStored, Stopped
<1>0. /\ disk \in DiskType /\ completed \subseteq Piece /\ SelectionsAccepted
      /\ chosen \in FileSet
      /\ CompletedIsStored /\ Flushable(disk) /\ RecordedIsDurable
  BY DEF TypeInv, StorageTypeOK, TypeOK, DurableInv, CoveredFaults
<1>1. CASE QuietStep
  <2>1. CASE UNCHANGED completed
    BY <1>0, <1>1, <2>1, QuietStepsKeep
  <2>2. CASE /\ HandleCheckTick /\ Verifies(disk, next_piece)
             /\ completed' = completed \cup {next_piece}
    <3>1. {next_piece} \X FilesOf[next_piece] \subseteq disk.cache
      BY <2>2 DEF Verifies
    <3>2. phase # "stopped"
      BY <2>2 DEF HandleCheckTick
    <3> QED
      BY <1>0, <1>1, <2>2, <3>1, <3>2, QuietStepsKeep
  <2> QED
    BY <1>1, <2>1, <2>2, QuietStepsKeep
<1>2. CASE Launch
  <2>0. /\ FilesAtStart \in FileSet
        /\ \A p \in Piece : FilesOf[p] \cap FilesAtStart = FilesOf[p] \cap chosen
    BY <1>0, FilesAtStartAgree
  <2>1. /\ completed' \subseteq (IF resume.exists /\ target_exists THEN resume.pieces ELSE {})
        /\ completed' \subseteq Piece
        /\ selected_files' = FilesAtStart /\ phase = "stopped"
    BY <1>2 DEF Launch, WithSelection, TypeInv, StorageTypeOK, ResumeType
  <2>2. disk'.cache = disk.cache
    BY <1>0, <1>2, <2>0, InitialisedDisk DEF Launch
  <2>3. resume.exists /\ target_exists =>
            \A p \in Piece : FilesOf[p] \cap FilesAtStart \subseteq resume_files
    BY <2>0, <2>1 DEF DurableInv, ResumeCovers
  <2>4. disk.durable \subseteq disk.cache
    BY <1>0 DEF Flushable
  <2>5. ASSUME NEW p \in completed'
        PROVE  {p} \X (FilesOf[p] \cap selected_files') \subseteq disk'.cache
    <3>1. p \in Piece /\ p \in resume.pieces /\ resume.exists /\ target_exists
      BY <2>1
    <3>2. FilesOf[p] \cap selected_files' \subseteq FilesOf[p] \cap resume_files
      BY <2>1, <2>3, <3>1
    <3>3. {p} \X (FilesOf[p] \cap resume_files) \subseteq disk.durable
      BY <1>0, <3>1 DEF RecordedIsDurable
    <3> QED
      BY <2>2, <2>4, <3>2, <3>3
  <2> QED
    BY <2>5
<1>3. CASE HandleSetSelection
  <2> DEFINE m == Head(set_selections)
  <2>1. /\ set_selections # <<>> /\ phase # "stopped"
        /\ selected_files' = m.files /\ completed' = completed \ m.refetch
    BY <1>3 DEF HandleSetSelection, SetSelection, ApplySelection
  <2>2. disk'.cache = disk.cache
    BY <1>3, AcceptedSelectionDisk
  <2>3. m.refetch = ToRefetch(selected_files, m.files)
    <3>1. Len(set_selections) \in Nat /\ Len(set_selections) > 0 /\ m = set_selections[1]
      <4>1. set_selections \in Seq(SetSelectionMsg)
        BY DEF TypeInv, StorageTypeOK
      <4> QED
        BY <2>1, <4>1
    <3>2. 1 \in 1 .. Len(set_selections)
      BY <3>1
    <3> QED
      BY <2>1, <3>1, <3>2 DEF SelectionInv, Relayed, FilesBefore
  <2> HIDE DEF m
  <2>4. \A p \in completed' : FilesOf[p] \cap m.files \subseteq FilesOf[p] \cap selected_files
    BY <1>0, <2>1, <2>3, RefetchCovers
  <2> QED
    BY <1>0, <2>1, <2>2, <2>4
<1>4. ASSUME NEW p \in Piece, HandlePieceWritten(p) PROVE CompletedIsStored'
  <2>1. disk'.cache = disk.cache \cup ({p} \X (FilesOf[p] \cap disk.open))
    BY <1>4, PieceWrittenDisk, SaveKeepsHandles
  <2>2. completed' = completed \cup {p} /\ selected_files' = selected_files /\ phase # "stopped"
    BY <1>4 DEF HandlePieceWritten, PieceDownloaded, MarkCompleted, Downloading
  <2>3. disk.open = selected_files
    BY <2>2 DEF SelectionInv
  <2> QED
    BY <1>0, <2>1, <2>2, <2>3
<1>5. ASSUME NEW p \in Piece, HandleWriteFailure(p) PROVE CompletedIsStored'
  <2>1. disk.cache \subseteq disk'.cache
    BY <1>5, WriteFailureDisk
  <2>2. completed' = completed /\ selected_files' = selected_files /\ phase # "stopped"
    BY <1>5 DEF HandleWriteFailure, PieceDownloaded, ReturnWork, Downloading,
                coordinatorVars, managerVars
  <2> QED
    BY <1>0, <2>1, <2>2
<1>6. CASE Stop \/ Die
  BY <1>6 DEF Stop, Die, Forgotten
<1>7. CASE DeleteFiles
  BY <1>7 DEF DeleteFiles, coordinatorVars, controlVars
<1> QED
  BY <1>0, <1>1, <1>2, <1>3, <1>4, <1>5, <1>6, <1>7, StepCases

\* What a successful save records is durable.
LEMMA SaveRecordsDurable ==
    ASSUME NEW d \in DiskType, Flushable(d), SaveProgress(d),
           \A p \in completed' : {p} \X (FilesOf[p] \cap selected_files') \subseteq d.cache,
           \A p \in resume.pieces : {p} \X (FilesOf[p] \cap resume_files) \subseteq d.durable
    PROVE  RecordedIsDurable'
<1>1. CASE /\ disk' = Flushed(d) /\ resume_files' = selected_files'
           /\ resume' = [exists |-> TRUE, pieces |-> completed']
  <2>1. d.cache \subseteq disk'.durable
    BY <1>1, FlushIsFlushable, FlushedDisk
  <2> QED
    BY <1>1, <2>1 DEF RecordedIsDurable
<1>2. CASE /\ disk' = Flushed(d) \/ disk' \in FlushFailures(d)
           /\ UNCHANGED <<resume, resume_files>>
  <2>1. d.durable \subseteq disk'.durable
    BY <1>2, FlushIsFlushable
  <2> QED
    BY <1>2, <2>1 DEF RecordedIsDurable
<1> QED
  BY <1>1, <1>2 DEF SaveProgress

\* The resume file keeps vouching for durable bytes only.
LEMMA StepKeepsRecorded ==
    ASSUME CoveredFaults, TypeInv, SelectionInv, DurableInv, [Next]_vars
    PROVE  RecordedIsDurable'
<1>0. /\ disk \in DiskType /\ Flushable(disk) /\ SelectionsAccepted
      /\ RecordedIsDurable /\ CompletedIsStored
  BY DEF TypeInv, StorageTypeOK, DurableInv, CoveredFaults
<1>1. CASE UNCHANGED <<resume, resume_files>> /\ ~DeleteFiles
  BY <1>0, <1>1, StepKeepsFlushable DEF RecordedIsDurable
<1>2. CASE DeleteFiles
  BY <1>2 DEF DeleteFiles, RecordedIsDurable
<1>3. CASE HandleSetSelection
  <2> DEFINE d == Reselected(disk, Head(set_selections).files)
  <2>1. /\ d \in DiskType /\ Head(set_selections).files \in FileSet
        /\ disk'.cache = disk.cache /\ (disk' = d \/ SaveProgress(d))
    BY <1>3, AcceptedSelectionDisk
  <2>2. Flushable(d) /\ disk.durable \subseteq d.durable /\ d.cache = disk.cache
    BY <1>0, <2>1, ReselectionIsFlushable, ReselectedDisk
  <2>3. phase' # "stopped" /\ (SaveProgress(d) \/ UNCHANGED <<resume, resume_files>>)
    BY <1>3 DEF HandleSetSelection, SetSelection, Stopped
  <2> HIDE DEF d
  <2>4. \A p \in completed' : {p} \X (FilesOf[p] \cap selected_files') \subseteq d.cache
    BY <2>1, <2>2, <2>3, StepKeepsStored DEF CompletedIsStored, Stopped
  <2>5. CASE SaveProgress(d)
    BY <1>0, <2>1, <2>2, <2>4, <2>5, SaveRecordsDurable DEF RecordedIsDurable
  <2>6. CASE UNCHANGED <<resume, resume_files>>
    BY <1>1, <1>2, <2>6
  <2> QED
    BY <2>3, <2>5, <2>6
<1>4. ASSUME NEW p \in Piece, HandlePieceWritten(p) PROVE RecordedIsDurable'
  <2> DEFINE d == Written(disk, p)
             files == FilesOf[p] \cap disk.open
  <2>1. /\ d \in DiskType /\ d.open = disk.open /\ d.dirty = disk.dirty \cup files
        /\ d.cache = disk.cache \cup ({p} \X files) /\ d.durable = disk.durable
        /\ files \in SUBSET disk.open
    BY <1>4, PieceWrittenDisk
  <2>2. SaveProgress(d) \/ UNCHANGED <<resume, resume_files>>
    BY <1>4 DEF HandlePieceWritten
  <2>3. phase' # "stopped"
    BY <1>4 DEF HandlePieceWritten, PieceDownloaded, Downloading, coordinatorVars, controlVars
  <2> HIDE DEF d, files
  <2>4. Flushable(d)
    BY <1>0, <2>1, WritingIsFlushable
  <2>5. CASE SaveProgress(d)
    <3>1. disk'.cache = d.cache
      BY <2>1, <2>5, SaveKeepsHandles
    <3>2. \A q \in completed' : {q} \X (FilesOf[q] \cap selected_files') \subseteq d.cache
      BY <2>3, <3>1, StepKeepsStored DEF CompletedIsStored, Stopped
    <3> QED
      BY <1>0, <2>1, <2>4, <2>5, <3>2, SaveRecordsDurable DEF RecordedIsDurable
  <2>6. CASE UNCHANGED <<resume, resume_files>>
    BY <1>1, <1>2, <2>6
  <2> QED
    BY <2>2, <2>5, <2>6
<1>5. CASE Stop
  <2>1. CASE UNCHANGED <<resume, resume_files>>
    BY <1>1, <1>2, <2>1
  <2>2. CASE /\ ProcessEnds(Flushed(disk)) /\ resume_files' = selected_files
             /\ resume' = [exists |-> TRUE, pieces |-> completed]
    <3>1. disk.cache \subseteq disk'.durable
      BY <1>0, <2>2, FlushedDisk, FlushIsFlushable, ExitIsFlushable
    <3>2. \A p \in completed : {p} \X (FilesOf[p] \cap selected_files) \subseteq disk.cache
      BY <1>0, <1>5 DEF Stop, CompletedIsStored
    <3> QED
      BY <2>2, <3>1, <3>2 DEF RecordedIsDurable
  <2> QED
    BY <1>5, <2>1, <2>2 DEF Stop, SavesOnStop
<1>6. CASE QuietStep \/ Launch \/ Die
  BY <1>1, <1>2, <1>6, QuietStepsKeep DEF Launch, Die
<1>7. ASSUME NEW p \in Piece, HandleWriteFailure(p) PROVE UNCHANGED <<resume, resume_files>>
  BY <1>7 DEF HandleWriteFailure
<1> QED
  BY <1>0, <1>1, <1>2, <1>3, <1>4, <1>5, <1>6, <1>7, StepCases

\* A stopped torrent whose files exist has a resume file for all of them, or
\* none.
LEMMA StepKeepsCovered ==
    ASSUME CoveredFaults, TypeInv, SelectionInv, DurableInv, [Next]_vars
    PROVE  Stopped' /\ target_exists' => ResumeCovers(chosen)'
<1> USE DEF Stopped
<1>0. /\ phase = "stopped" /\ target_exists => ResumeCovers(chosen)
      /\ SelectionsAccepted /\ "hasty" \notin Faults
  BY DEF DurableInv, CoveredFaults
<1>1. CASE QuietStep
  <2>1. CASE UNCHANGED chosen
    BY <1>0, <1>1, <2>1, QuietStepsKeep DEF ResumeCovers
  <2>2. CASE \E files \in FileSet : ChooseFiles(files)
    BY <1>0, <1>1, <2>2, QuietStepsKeep DEF ChooseFiles, ResumeCovers
  <2> QED
    BY <1>1, <2>1, <2>2 DEF QuietStep, Unpause, RelaySelection, HandleCheckTick,
       HandleRequestWork, HandlePieceFailed, HandleIgnoredPiece, vars, storageVars
<1>2. CASE Launch
  BY <1>2 DEF Launch, StartCoordinator
<1>3. CASE HandleSetSelection
  BY <1>3 DEF HandleSetSelection, SetSelection
<1>4. ASSUME NEW p \in Piece, HandlePieceWritten(p) \/ HandleWriteFailure(p)
      PROVE  phase' # "stopped"
  BY <1>4 DEF HandlePieceWritten, HandleWriteFailure, PieceDownloaded, Downloading,
              coordinatorVars, controlVars
<1>5. CASE Stop
  BY <1>0, <1>5 DEF Stop
<1>6. CASE Die
  BY <1>0, <1>6 DEF Die, ResumeCovers
<1>7. CASE DeleteFiles
  BY <1>7 DEF DeleteFiles
<1> QED
  BY <1>0, <1>1, <1>2, <1>3, <1>4, <1>5, <1>6, <1>7, StepCases

\* Without the excluded faults the whole invariant holds.
LEMMA DurableInvariant ==
    CoveredFaults /\ Spec => [](TypeInv /\ SelectionInv /\ DurableInv)
<1> DEFINE I == CoveredFaults /\ TypeInv /\ SelectionInv /\ DurableInv
<1>1. CoveredFaults /\ Init => I
  <2>1. Init => DurableInv
    BY DEF Init, EmptyDisk, NoResume, DurableInv, Flushable, RecordedIsDurable,
           CompletedIsStored, Stopped
  <2> QED
    BY <2>1, InitIsTyped, InitSelects
<1>2. I /\ [Next]_vars => I'
  <2> SUFFICES ASSUME I, [Next]_vars PROVE I'
    OBVIOUS
  <2>1. DurableInv'
    BY StepKeepsFlushable, StepKeepsStored, StepKeepsRecorded, StepKeepsCovered DEF DurableInv
  <2>2. CoveredFaults' /\ SelectionsAccepted
    BY DEF CoveredFaults, SelectionsAccepted
  <2> QED
    BY <2>1, <2>2, StepKeepsTypes, StepKeepsSelection
<1> QED
  BY <1>1, <1>2, PTL DEF Spec

\* Every byte the resume file vouches for survives a power loss at any moment,
\* between any two steps: flush comes before persist_resume, and flush reaches
\* whatever was written, also after selections and failed flushes.
THEOREM RecordedSurvives == CoveredFaults /\ Spec => []RecordedIsDurable
BY DurableInvariant, PTL DEF DurableInv

\* A completed piece can be read back, across selection changes, failures,
\* kills, power losses and restarts.
THEOREM CompletedReadable == CoveredFaults /\ Spec => []CompletedIsStored
BY DurableInvariant, PTL DEF DurableInv

\* A piece offered to other peers is wholly on disk: a servable piece has all
\* its files selected.
THEOREM ServableReadable == CoveredFaults /\ Spec => []ServableIsStored
<1>1. TypeInv /\ SelectionInv /\ DurableInv => ServableIsStored
  <2> SUFFICES ASSUME TypeInv, SelectionInv, DurableInv, ~Stopped,
                      NEW p \in ServablePieces
               PROVE  {p} \X FilesOf[p] \subseteq disk.cache
    BY DEF ServableIsStored
  <2>1. p \in completed /\ p \in Piece /\ p \notin selection.unservable
    BY DEF ServablePieces, IsServable
  <2>2. FilesOf[p] \subseteq selected_files
    BY <2>1, LayoutAssumption DEF SelectionInv, SelectionOf
  <2> QED
    BY <2>1, <2>2 DEF DurableInv, CompletedIsStored
<1> QED
  BY <1>1, DurableInvariant, PTL

=============================================================================
