----------------------------- MODULE FileLayout -----------------------------
(***************************************************************************)
(* The byte arithmetic of a torrent's files: plan_files, locate, the loops *)
(* of write_piece and read_piece (src/core/disk.rs, disk_uring.rs) and     *)
(* from_files, pieces_of_files, pieces_to_refetch                          *)
(* (src/core/selection.rs), against what they mean: files lie back to      *)
(* back, and a piece belongs to the files it shares a byte with.           *)
(*                                                                         *)
(* Init takes every layout within the bounds; plan_files goes over the     *)
(* files, and then one piece after another is written, one chunk of the    *)
(* loop per step, in any order.  A byte of the torrent is represented by   *)
(* its absolute offset.                                                    *)
(***************************************************************************)
EXTENDS Integers, FiniteSets, Sequences, FiniteSetsExt

CONSTANTS
    NumFiles,
    MaxLen,         \* bound on a file's length
    MaxPieceLen     \* bound on piece_length

File == 0 .. NumFiles - 1

ASSUME BoundsAssumption ==
    /\ NumFiles \in Nat \ {0}
    /\ MaxLen \in Nat \ {0} /\ MaxPieceLen \in Nat \ {0}

VARIABLES
    length,         \* file -> its length, possibly 0
    piece_length,
    open,           \* files with a handle
    plans,          \* the files planned so far: where each begins and ends
    offset,         \* where the next one begins
    stored,         \* file -> {<<position in the file, byte>>}
    begun,          \* pieces written, or being written
    piece,          \* the piece being written, or -1
    written         \* bytes of it dealt with

layoutVars == <<length, piece_length, open>>
planVars == <<plans, offset>>
vars == <<layoutVars, planVars, stored, begun, piece, written>>

-----------------------------------------------------------------------------
\* plan_files, one file per step.
PlanFile ==
    /\ Len(plans) < NumFiles
    /\ LET end == offset + length[Len(plans)]
       IN  plans' = Append(plans, [start |-> offset, end |-> end]) /\ offset' = end
    /\ UNCHANGED <<layoutVars, stored, begun, piece, written>>

Planned == Len(plans) = NumFiles

StartOffset(f) == plans[f + 1].start
EndOffset(f) == plans[f + 1].end
TotalLength == offset       \* once all are planned: the sum of the lengths

TotalPieces == (TotalLength + piece_length - 1) \div piece_length
Piece == 0 .. TotalPieces - 1

\* The bytes handed to write_piece: the last piece may be short.
DataLen(p) == Min({piece_length, TotalLength - p * piece_length})

\* Mutant of PartitionPoint: the boundary byte goes to the earlier file.
PartitionPointLate(at) == Min({f \in File : EndOffset(f) >= at} \cup {NumFiles})

\* locate: partition_point gives the first file that ends after the offset.
PartitionPoint(at) == Min({f \in File : EndOffset(f) > at} \cup {NumFiles})

Locates(at) ==
    LET idx == PartitionPoint(at)
    IN  idx \in File /\ StartOffset(idx) <= at

\* Mutant of PiecesOfFile: the end of the file is taken as its last byte.
PiecesOfFilePastEnd(f) ==
    IF length[f] = 0 THEN {}
    ELSE StartOffset(f) \div piece_length ..
         Min({EndOffset(f) \div piece_length, Max({TotalPieces - 1, 0})})

\* The range both loops of selection.rs mark for one file.
PiecesOfFile(f) ==
    IF length[f] = 0 THEN {}
    ELSE StartOffset(f) \div piece_length ..
         Min({(EndOffset(f) - 1) \div piece_length, Max({TotalPieces - 1, 0})})

PiecesOfFiles(files) == UNION {PiecesOfFile(f) : f \in files}

FromFiles(selected) == [wanted |-> PiecesOfFiles(selected),
                        unservable |-> PiecesOfFiles(File \ selected)]

PiecesToRefetch(before, after) == PiecesOfFiles(after \ before)

-----------------------------------------------------------------------------
BeginPiece(p) ==
    /\ piece = -1
    /\ piece' = p /\ written' = 0 /\ begun' = begun \cup {p}
    /\ UNCHANGED <<layoutVars, planVars, stored>>

CurrentAbsOffset == piece * piece_length + written

Chunk(at, file) == Min({DataLen(piece) - written, EndOffset(file) - at})

\* Mutant of FileOffset: the chunk is written at its absolute offset.
AbsoluteOffset(at, file) == at

FileOffset(at, file) == at - StartOffset(file)

\* One turn of the loop: the part of the piece that lies in one file.
WriteChunk ==
    /\ piece # -1 /\ written < DataLen(piece)
    /\ LET at == CurrentAbsOffset
           file == PartitionPoint(at)
       IN  /\ Locates(at)
           /\ stored' = IF file \notin open THEN stored
                        ELSE [stored EXCEPT ![file] = @ \cup
                                {<<FileOffset(at, file) + i, at + i>> :
                                    i \in 0 .. Chunk(at, file) - 1}]
           /\ written' = written + Chunk(at, file)
    /\ UNCHANGED <<layoutVars, planVars, begun, piece>>

EndPiece ==
    /\ piece # -1 /\ written >= DataLen(piece)
    /\ piece' = -1 /\ written' = 0
    /\ UNCHANGED <<layoutVars, planVars, stored, begun>>

Init ==
    /\ length \in [File -> 0 .. MaxLen]
    /\ \E f \in File : length[f] > 0
    /\ piece_length \in 1 .. MaxPieceLen
    /\ open \in (SUBSET File) \ {{}}
    /\ stored = [f \in File |-> {}]
    /\ plans = <<>> /\ offset = 0
    /\ begun = {}
    /\ piece = -1 /\ written = 0

Next ==
    \/ PlanFile
    \/ Planned /\ \E p \in Piece \ begun : BeginPiece(p)
    \/ WriteChunk \/ EndPiece

Spec == Init /\ [][Next]_vars /\ WF_vars(Next)

-----------------------------------------------------------------------------
\* The bytes of piece p, and the files they belong to.
BytesOf(p) == p * piece_length .. p * piece_length + DataLen(p) - 1
FilesOfPiece(p) ==
    {f \in File : \E b \in BytesOf(p) : StartOffset(f) <= b /\ b < EndOffset(f)}

Meaning == INSTANCE FileSelection WITH FilesOf <- [p \in Piece |-> FilesOfPiece(p)]

\* The arithmetic of selection.rs marks exactly the pieces that share a byte
\* with a file, empty files and short last pieces included.
SelectionArithmetic ==
    Planned => \A files \in SUBSET File :
        /\ FromFiles(files) = Meaning!SelectionOf(files)
        /\ PiecesToRefetch(open, files) = Meaning!ToRefetch(open, files)

\* What a file holds is its own bytes at their own places: every byte of the
\* pieces written so far that lies in a file with a handle, and no other.
StoredInPlace ==
    Planned /\ piece = -1 => \A f \in File :
        stored[f] = {<<b - StartOffset(f), b>> : b \in
            IF f \in open
            THEN {b \in StartOffset(f) .. EndOffset(f) - 1 : b \div piece_length \in begun}
            ELSE {}}

\* No write is refused as out of bounds or loops for ever: every piece of a
\* layout is written to its end.
AllWritten == <>(Planned /\ begun = Piece /\ piece = -1)

=============================================================================
