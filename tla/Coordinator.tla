----------------------------- MODULE Coordinator -----------------------------
(***************************************************************************)
(* The message handlers of run_coordinator (src/core/coordinator.rs): the  *)
(* task that owns the piece manager and the disk of one torrent.  A        *)
(* handler's parameters are the message's fields and the outcome of the    *)
(* disk calls it makes; the modules that extend this one say where         *)
(* messages come from (Transfer) and what the disk does (Storage).         *)
(*                                                                         *)
(* The DownloadingMetadata state is left out: no caller of run_coordinator *)
(* starts in it, metadata is fetched before the coordinator exists.        *)
(***************************************************************************)
EXTENDS PieceManager, Sequences

VARIABLES
    phase,          \* which CoordinatorState, or "stopped" once the loop ended
    next_piece,     \* CheckingFiles: the piece the next tick verifies
    paused,
    has_completed   \* DownloadingData: DownloadComplete was announced

controlVars == <<phase, next_piece, paused, has_completed>>
coordinatorVars == <<managerVars, controlVars>>

NoPiece == NumPieces        \* a reply of None

ControlTypeOK ==
    /\ phase \in {"checking", "downloading", "stopped"}
    /\ next_piece \in 0 .. NumPieces
    /\ paused \in BOOLEAN
    /\ has_completed \in BOOLEAN

\* The session events a handler broadcasts.
PieceCompletedEvent(p) == [type |-> "PieceCompleted", piece |-> p]
DownloadCompleteEvent == [type |-> "DownloadComplete", piece |-> NoPiece]
SelectionChangedEvent == [type |-> "SelectionChanged", piece |-> NoPiece]

BecomesServable(p) == p \in completed' /\ p \notin selection'.unservable

When(condition, event) == IF condition THEN <<event>> ELSE <<>>

-----------------------------------------------------------------------------
Downloading == phase = "downloading"

\* One tick of the file check; `verified` says whether piece next_piece was
\* read back with the right hash.  Only wanted pieces are read.  The last tick
\* enters DownloadingData.
CheckTick(verified) ==
    /\ phase = "checking"
    /\ IF verified /\ next_piece \in selection.wanted
       THEN MarkCompleted(next_piece) ELSE UNCHANGED managerVars
    /\ next_piece' = next_piece + 1
    /\ IF next_piece' >= NumPieces
       THEN /\ phase' = "downloading"
            /\ paused' = FALSE
            /\ has_completed' = IsDone'
       ELSE UNCHANGED <<phase, paused, has_completed>>

CheckTickEvents(verified) ==
    When(verified /\ next_piece \in selection.wanted /\ BecomesServable(next_piece),
         PieceCompletedEvent(next_piece))
    \o When(phase' = "downloading" /\ IsDone', DownloadCompleteEvent)

\* The manager is asked only while downloading and not paused.
RequestWork(has, reply) ==
    /\ \/ Downloading /\ ~paused /\ reply \in Piece /\ NextWorkFor(has, reply)
       \/ Downloading /\ ~paused /\ reply = NoPiece /\ NoWorkFor(has)
       \/ ~(Downloading /\ ~paused) /\ reply = NoPiece /\ UNCHANGED managerVars
    /\ UNCHANGED controlVars

\* Availability is counted in either state.
PeerBitfield(pieces) == AddPeerPieces(pieces) /\ UNCHANGED controlVars
PeerHave(p) == AddPeerPieces({p}) /\ UNCHANGED controlVars
PeerGone(pieces) == RemovePeerPieces(pieces) /\ UNCHANGED controlVars

\* PieceDownloaded(p, data): ignored while checking and for a piece completed
\* meanwhile; otherwise written to disk, successfully or not.
IgnoresPiece(p) == ~Downloading \/ p \in completed

PieceDownloaded(p, written) ==
    \/ /\ IgnoresPiece(p)
       /\ UNCHANGED coordinatorVars
    \/ /\ ~IgnoresPiece(p) /\ ~written
       /\ ReturnWork(p)
       /\ UNCHANGED controlVars
    \/ /\ ~IgnoresPiece(p) /\ written
       /\ MarkCompleted(p)
       /\ has_completed' = (has_completed \/ IsDone')
       /\ UNCHANGED <<phase, next_piece, paused>>

PieceDownloadedEvents(p) ==
    When(p \notin completed /\ BecomesServable(p), PieceCompletedEvent(p))
    \o When(has_completed' /\ ~has_completed, DownloadCompleteEvent)

PieceFailed(p) ==
    /\ IF Downloading THEN ReturnWork(p) ELSE UNCHANGED managerVars
    /\ UNCHANGED controlVars

\* Mutant of AnnouncedAfter: the announcement is not taken back.
AnnouncedStays == has_completed

AnnouncedAfter == IF Downloading THEN IsDone' ELSE has_completed

\* SetSelection: when the disk refuses, nothing else happens.
SetSelection(sel, refetch, accepted) ==
    \/ ~accepted /\ UNCHANGED coordinatorVars
    \/ /\ accepted
       /\ ApplySelection(sel, refetch)
       /\ has_completed' = AnnouncedAfter
       /\ UNCHANGED <<phase, next_piece, paused>>

\* Mutant of SetSelectionEvents: sessions are not told to ask again.
SetSelectionEventsSilent(accepted) ==
    IF ~accepted \/ ~Downloading THEN <<>>
    ELSE When(IsDone' /\ ~has_completed, DownloadCompleteEvent)

SetSelectionEvents(accepted) ==
    IF ~accepted \/ ~Downloading THEN <<>>
    ELSE When(IsDone' /\ ~has_completed, DownloadCompleteEvent)
         \o When(~IsDone', SelectionChangedEvent)

SetPaused(value) ==
    /\ paused' = IF Downloading THEN value ELSE paused
    /\ UNCHANGED <<managerVars, phase, next_piece, has_completed>>

\* The state initial_coordinator_state builds for a new manager.
StartCoordinator(requires_check, start_paused) ==
    /\ phase' = IF requires_check /\ NumPieces > 0 THEN "checking" ELSE "downloading"
    /\ next_piece' = 0
    /\ paused' = (~requires_check /\ start_paused)
    /\ has_completed' = FALSE

=============================================================================
