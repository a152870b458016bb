------------------------------- MODULE Storage -------------------------------
(***************************************************************************)
(* What survives: the coordinator of one torrent together with its disk,   *)
(* its fastresume file, the file selection the user edits, and the start   *)
(* and end of the program (background_task of src/ui/dashboard.rs).        *)
(*                                                                         *)
(* Peers are reduced to the pieces they have been asked for.  `Faults`     *)
(* lists what the environment may do:                                      *)
(*   "write" "flush" "save"  a disk write, sync or resume save fails;      *)
(*   "open"  "sync"          set_selection fails to open or sync a file;   *)
(*   "power" "kill"          the machine or the process dies;              *)
(*   "lazy"                  the operating system has not written back     *)
(*                           what a process left unsynced when the torrent *)
(*                           is started again;                             *)
(*   "delete"                the user deletes the files of a stopped       *)
(*                           torrent;                                      *)
(*   "hasty"                 the program ends, or the selection of a       *)
(*                           stopped torrent is edited, while the resume   *)
(*                           file does not cover the selected files yet.   *)
(***************************************************************************)
EXTENDS Coordinator, Disk

CONSTANTS
    Faults,
    MaxQueue        \* bound on queued SetSelection messages

VARIABLES
    disk,
    resume,             \* the fastresume file
    target_exists,      \* output_dir/name exists
    chosen,             \* the selection shared with the user interface,
                        \* saved in the session store at every edit
    command_pending,    \* a SelectionChanged command waits
    current_flags,      \* background_task: the selection last sent on
    set_selections,     \* SetSelection messages in the coordinator's mailbox
    requested,          \* pieces handed to some peer, not yet answered
    \* observation only
    refused,            \* the last SetSelection handled failed; the user was told
    selected_files,     \* the files the coordinator's selection stands for
    resume_files        \* the files whose bytes the resume file vouches for

storageVars == <<disk, resume, target_exists, chosen, command_pending,
                 current_flags, set_selections, requested,
                 refused, selected_files, resume_files>>
vars == <<coordinatorVars, storageVars>>

-----------------------------------------------------------------------------
ASSUME LayoutAssumption == DOMAIN FilesOf = Piece
ASSUME SelectionsOfFiles == Selections = {SelectionOf(files) : files \in FileSet}
ASSUME MaxQueueAssumption == MaxQueue \in Nat

NoResume == [exists |-> FALSE, pieces |-> {}]
ResumeType == [exists : BOOLEAN, pieces : SUBSET Piece]
SetSelectionMsg == [files : FileSet, refetch : SUBSET Piece]

StorageTypeOK ==
    /\ TypeOK /\ ControlTypeOK
    /\ disk \in DiskType
    /\ resume \in ResumeType
    /\ target_exists \in BOOLEAN
    /\ chosen \in FileSet
    /\ command_pending \in BOOLEAN
    /\ current_flags \in FileSet
    /\ set_selections \in Seq(SetSelectionMsg)
    /\ requested \subseteq Piece
    /\ refused \in BOOLEAN
    /\ selected_files \in FileSet
    /\ resume_files \subseteq File

Stopped == phase = "stopped"

\* The resume file covers every byte of the selected files.
ResumeCovers(files) ==
    resume.exists => \A p \in Piece : FilesOf[p] \cap files \subseteq resume_files

-----------------------------------------------------------------------------
\* Mutant of SaveProgress: the resume file is written although flush failed.
SaveProgressUnflushed(d) ==
    /\ resume' = [exists |-> TRUE, pieces |-> completed']
    /\ resume_files' = selected_files'
    /\ disk' \in {Flushed(d)} \cup FlushFailures(d)

\* flush, and only when it succeeded persist_resume.
SaveProgress(d) ==
    \/ /\ disk' = Flushed(d)
       /\ resume' = [exists |-> TRUE, pieces |-> completed']
       /\ resume_files' = selected_files'
    \/ /\ "save" \in Faults
       /\ disk' = Flushed(d)
       /\ UNCHANGED <<resume, resume_files>>
    \/ /\ "flush" \in Faults
       /\ disk' \in FlushFailures(d)
       /\ UNCHANGED <<resume, resume_files>>

\* What the user interface does to a stopped or running torrent.
ChooseFiles(files) ==
    /\ files # chosen
    /\ Stopped => "hasty" \in Faults \/ ResumeCovers(files)
    /\ chosen' = files
    /\ command_pending' = ~Stopped
    /\ UNCHANGED <<coordinatorVars, disk, resume, target_exists, current_flags,
                   set_selections, requested, refused, selected_files, resume_files>>

\* Pausing only delays requests, which need not happen here anyway; resuming
\* is what a torrent whose files are gone waits for.  (Transfer has both.)
Unpause ==
    /\ Downloading /\ paused
    /\ SetPaused(FALSE)
    /\ UNCHANGED storageVars

\* background_task forgets a choice that leaves out nothing but empty files,
\* and works with all files then.
FilesAtStart == IF IsAll(chosen) THEN File ELSE chosen

\* Mutant of InitialFlags: every file counts as current.
AllFlags == File

InitialFlags == FilesAtStart

\* background_task, from the chosen files to the running coordinator: a
\* resume file whose target exists is trusted; without one an existing target
\* is checked; a resume file without target starts paused and empty.
Launch ==
    /\ Stopped
    /\ \E have \in {IF resume.exists /\ target_exists THEN resume.pieces ELSE {}} :
           WithSelection(have, SelectionOf(chosen))
    /\ StartCoordinator(~resume.exists /\ target_exists,
                        resume.exists /\ ~target_exists)
    /\ disk' = Initialised(disk, FilesAtStart)
    /\ target_exists' = TRUE
    /\ current_flags' = InitialFlags
    /\ selected_files' = FilesAtStart
    /\ command_pending' = FALSE
    /\ refused' = FALSE
    /\ UNCHANGED <<resume, chosen, set_selections, requested, resume_files>>

\* Mutant of RelaySelection: a message that finds the mailbox full is lost.
RelayDropping ==
    /\ ~Stopped /\ command_pending
    /\ command_pending' = FALSE
    /\ set_selections' =
           IF chosen = current_flags \/ Len(set_selections) = MaxQueue THEN set_selections
           ELSE Append(set_selections,
                       [files |-> chosen, refetch |-> ToRefetch(current_flags, chosen)])
    /\ current_flags' = chosen
    /\ UNCHANGED <<coordinatorVars, disk, resume, target_exists, chosen,
                   requested, refused, selected_files, resume_files>>

\* background_task on SelectionChanged: it reads the shared selection, and
\* records it as current as soon as the message is sent.
RelaySelection ==
    /\ ~Stopped /\ command_pending
    /\ command_pending' = FALSE
    /\ IF chosen = current_flags
       THEN UNCHANGED <<set_selections, current_flags>>
       ELSE /\ Len(set_selections) < MaxQueue
            /\ set_selections' = Append(set_selections,
                   [files |-> chosen, refetch |-> ToRefetch(current_flags, chosen)])
            /\ current_flags' = chosen
    /\ UNCHANGED <<coordinatorVars, disk, resume, target_exists, chosen,
                   requested, refused, selected_files, resume_files>>

-----------------------------------------------------------------------------
HandleCheckTick ==
    /\ phase = "checking"
    /\ CheckTick(Verifies(disk, next_piece))
    /\ UNCHANGED storageVars

HandleRequestWork ==
    /\ Downloading
    /\ \E reply \in Piece :
           /\ RequestWork(Piece, reply)
           /\ requested' = requested \cup {reply}
    /\ UNCHANGED <<disk, resume, target_exists, chosen, command_pending,
                   current_flags, set_selections, refused, selected_files, resume_files>>

\* A peer gives up or answers; while the manager counts more than one holder
\* another peer is still on the piece, and may even deliver it after it is
\* completed.
GivesUp(p) ==
    /\ p \in requested
    /\ requested' = IF in_progress[p] > 1 THEN requested ELSE requested \ {p}

Delivers(p) ==
    /\ p \in requested
    /\ \/ requested' = requested \ {p}
       \/ in_progress[p] > 1 /\ requested' = requested

HandlePieceFailed(p) ==
    /\ Downloading /\ GivesUp(p)
    /\ PieceFailed(p)
    /\ UNCHANGED <<disk, resume, target_exists, chosen, command_pending,
                   current_flags, set_selections, refused, selected_files, resume_files>>

\* The resume file is saved when the torrent is done, and otherwise when the
\* last save is RESUME_PERSIST_INTERVAL old.
HandlePieceWritten(p) ==
    /\ Downloading /\ Delivers(p)
    /\ ~IgnoresPiece(p)
    /\ UNCHANGED <<target_exists, chosen, command_pending, current_flags,
                   set_selections, refused, selected_files>>
    /\ PieceDownloaded(p, TRUE)
    /\ \/ SaveProgress(Written(disk, p))
       \/ ~IsDone' /\ disk' = Written(disk, p) /\ UNCHANGED <<resume, resume_files>>

HandleWriteFailure(p) ==
    /\ Downloading /\ GivesUp(p)
    /\ "write" \in Faults /\ ~IgnoresPiece(p)
    /\ PieceDownloaded(p, FALSE)
    /\ disk' \in WriteFailures(disk, p)
    /\ UNCHANGED <<resume, target_exists, chosen, command_pending,
                   current_flags, set_selections, refused, selected_files, resume_files>>

HandleIgnoredPiece(p) ==
    /\ Downloading /\ Delivers(p)
    /\ IgnoresPiece(p) /\ PieceDownloaded(p, TRUE)
    /\ UNCHANGED <<disk, resume, target_exists, chosen, command_pending,
                   current_flags, set_selections, refused, selected_files, resume_files>>

\* SetSelection accepted by the disk; while downloading it is saved at once.
HandleSetSelection ==
    /\ ~Stopped /\ set_selections # <<>>
    /\ UNCHANGED <<target_exists, chosen, command_pending, current_flags, requested>>
    /\ set_selections' = Tail(set_selections)
    /\ LET m == Head(set_selections)
       IN  /\ SetSelection(SelectionOf(m.files), m.refetch, TRUE)
           /\ selected_files' = m.files
           /\ refused' = FALSE
           /\ IF Downloading
              THEN SaveProgress(Reselected(disk, m.files))
              ELSE /\ disk' = Reselected(disk, m.files)
                   /\ UNCHANGED <<resume, resume_files>>

\* SetSelection refused by the disk: an error for the user, nothing else.
HandleSelectionFailure ==
    /\ ~Stopped /\ set_selections # <<>>
    /\ set_selections' = Tail(set_selections)
    /\ refused' = TRUE
    /\ LET m == Head(set_selections)
       IN  /\ SetSelection(SelectionOf(m.files), m.refetch, FALSE)
           /\ \/ "open" \in Faults /\ disk' \in OpenFailures(disk, m.files)
              \/ "sync" \in Faults /\ disk' \in SyncFailures(disk, m.files)
    /\ UNCHANGED <<resume, target_exists, chosen, command_pending,
                   current_flags, requested, selected_files, resume_files>>

-----------------------------------------------------------------------------
\* The program's memory of a torrent that is not running.
Forgotten ==
    /\ WithSelection({}, SelectionOf(File))
    /\ phase' = "stopped"
    /\ next_piece' = 0 /\ paused' = FALSE /\ has_completed' = FALSE
    /\ command_pending' = FALSE
    /\ current_flags' = File
    /\ set_selections' = <<>>
    /\ requested' = {}
    /\ refused' = FALSE
    /\ selected_files' = File

\* The process is gone: what it left unsynced is written back sooner or later.
ProcessEnds(d) ==
    \/ disk' = AfterExit(Synced(d, File))
    \/ "lazy" \in Faults /\ disk' = AfterExit(d)

\* A clean stop: messages still queued are not read; the progress is saved
\* for the selection the coordinator has, unless files are being checked.
SavesOnStop ==
    \/ /\ ProcessEnds(Flushed(disk))
       /\ resume' = [exists |-> TRUE, pieces |-> completed]
       /\ resume_files' = selected_files
    \/ /\ \/ "save" \in Faults /\ ProcessEnds(Flushed(disk))
          \/ "flush" \in Faults /\ \E d \in FlushFailures(disk) : ProcessEnds(d)
       /\ UNCHANGED <<resume, resume_files>>

Stop ==
    /\ ~Stopped
    /\ IF Downloading THEN SavesOnStop
       ELSE ProcessEnds(disk) /\ UNCHANGED <<resume, resume_files>>
    /\ UNCHANGED <<target_exists, chosen>>
    /\ "hasty" \in Faults \/ ResumeCovers(chosen)'
    /\ Forgotten

Die ==
    /\ "hasty" \in Faults \/ ResumeCovers(chosen)
    /\ \/ "kill" \in Faults /\ ~Stopped /\ ProcessEnds(disk)
       \/ "power" \in Faults /\ disk' \in AfterPowerLoss(disk)
    /\ Forgotten
    /\ UNCHANGED <<resume, target_exists, chosen, resume_files>>

\* The resume file then vouches for nothing.
DeleteFiles ==
    /\ Stopped /\ "delete" \in Faults /\ target_exists
    /\ disk' = EmptyDisk
    /\ target_exists' = FALSE
    /\ resume_files' = {}
    /\ UNCHANGED <<coordinatorVars, resume, chosen, command_pending,
                   current_flags, set_selections, requested, refused, selected_files>>

-----------------------------------------------------------------------------
Init ==
    /\ StartsFrom({}, SelectionOf(File))
    /\ phase = "stopped"
    /\ next_piece = 0 /\ paused = FALSE /\ has_completed = FALSE
    /\ disk = EmptyDisk
    /\ resume = NoResume
    /\ target_exists = FALSE
    /\ chosen \in FileSet
    /\ command_pending = FALSE
    /\ current_flags = File
    /\ set_selections = <<>>
    /\ requested = {}
    /\ refused = FALSE
    /\ selected_files = File
    /\ resume_files = {}

Next ==
    \/ \E files \in FileSet : ChooseFiles(files)
    \/ Unpause
    \/ Launch \/ RelaySelection
    \/ HandleCheckTick \/ HandleRequestWork
    \/ \E p \in Piece : \/ HandlePieceFailed(p)
                        \/ HandlePieceWritten(p)
                        \/ HandleWriteFailure(p)
                        \/ HandleIgnoredPiece(p)
    \/ HandleSetSelection \/ HandleSelectionFailure
    \/ Stop \/ Die \/ DeleteFiles

Spec == Init /\ [][Next]_vars

-----------------------------------------------------------------------------
\* Progress is recorded only once the data is on disk: every byte of the
\* selected files that the resume file vouches for survives a power loss
\* (flush before persist_resume, in three handlers and at the stop).
RecordedIsDurable ==
    \A p \in resume.pieces :
        {p} \X (FilesOf[p] \cap resume_files) \subseteq disk.durable

\* A piece counts as completed only while the bytes of every selected file it
\* overlaps can be read back, across selection changes, failures and restarts.
CompletedIsStored ==
    ~Stopped => \A p \in completed :
        {p} \X (FilesOf[p] \cap selected_files) \subseteq disk.cache

\* A piece offered to other peers is wholly on disk.
ServableIsStored ==
    ~Stopped => \A p \in ServablePieces : {p} \X FilesOf[p] \subseteq disk.cache

\* A torrent announced as complete is complete, until a selection change
\* takes the announcement back.
AnnouncedIsDone == Downloading /\ has_completed => selection.wanted \subseteq completed

\* background_task's current_flags, from which it computes what to fetch
\* again, is the selection the coordinator works with once the queue is empty,
\* unless the last change was refused (then background_task is not told).
CurrentFlagsExact ==
    ~Stopped /\ set_selections = <<>> /\ ~refused => current_flags = selected_files

\* The files a stopped or running torrent was told to keep are the files it
\* fetches, serves and has handles for once no selection change is under way,
\* however many edits were coalesced, overtaken or refused before; only empty
\* files may be open beside them.
SelectionSettles ==
    ~Stopped /\ ~command_pending /\ set_selections = <<>> /\ ~refused =>
        /\ selection = SelectionOf(chosen)
        /\ chosen \subseteq disk.open
        /\ \A p \in Piece : FilesOf[p] \cap disk.open \subseteq chosen

=============================================================================
