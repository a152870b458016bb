-------------------------- MODULE FileLayout_proofs --------------------------
(***************************************************************************)
(* For every number of files, every length and every piece length: the     *)
(* selection arithmetic marks the right pieces, and every byte is written  *)
(* to its place.  plan_files puts the files back to back, with no byte     *)
(* left out; that and the state of the write loop make the induction.      *)
(***************************************************************************)
EXTENDS FileLayout, TLAPS

\* A planned file, and the files planned so far.
FilePlan == [start : Nat, end : Nat]
PlannedFile == 0 .. Len(plans) - 1

LayoutType ==
    /\ length \in [File -> Nat] /\ piece_length \in Nat \ {0} /\ open \in SUBSET File
    /\ plans \in Seq(FilePlan) /\ offset \in Nat /\ Len(plans) <= NumFiles

\* The files lie back to back: in order, of their lengths, and every byte in one.
BackToBack ==
    /\ \A f \in PlannedFile : EndOffset(f) = StartOffset(f) + length[f] /\ EndOffset(f) <= offset
    /\ \A f, g \in PlannedFile : f < g => EndOffset(f) <= StartOffset(g)
    /\ \A b \in 0 .. offset - 1 : \E f \in PlannedFile : StartOffset(f) <= b /\ b < EndOffset(f)

\* Where the write loop is.
LoopInRange ==
    /\ begun \in SUBSET Nat /\ written \in Nat
    /\ piece = -1 \/ (piece \in begun /\ piece \in Piece /\ written <= DataLen(piece))
    /\ ~Planned => begun = {} /\ piece = -1

\* The bytes dealt with: those of the pieces before, and the first of this one.
Dealt(b) ==
    \/ b \div piece_length \in begun \ {piece}
    \/ piece # -1 /\ piece * piece_length <= b /\ b < CurrentAbsOffset

\* The bytes of a file that are on disk.
Held(f) ==
    IF Planned /\ f \in open THEN {b \in StartOffset(f) .. EndOffset(f) - 1 : Dealt(b)} ELSE {}

StoredSoFar ==
    stored = [f \in File |-> {<<b - StartOffset(f), b>> : b \in Held(f)}]

LayoutInv == LayoutType /\ BackToBack /\ LoopInRange /\ StoredSoFar

-----------------------------------------------------------------------------
(* Arithmetic.                                                             *)

\* The smaller and the larger of two numbers.
LEMMA MinMaxOfTwo ==
    ASSUME NEW a \in Int, NEW b \in Int
    PROVE  /\ Min({a, b}) = IF a <= b THEN a ELSE b
           /\ Max({a, b}) = IF a <= b THEN b ELSE a
BY DEF Min, Max

\* The next multiple is at least one length on.
LEMMA Multiples ==
    ASSUME NEW p \in Nat, NEW q \in Nat, NEW L \in Nat \ {0}, p < q
    PROVE  p * L + L <= q * L
<1> DEFINE d == q - p
<1>1. d \in Nat /\ d >= 1 /\ q = p + d
  OBVIOUS
<1> HIDE DEF d
<1>2. q * L = p * L + d * L
  BY <1>1
<1>3. d * L >= L
  BY <1>1
<1>4. p * L \in Int /\ q * L \in Int /\ d * L \in Int
  BY <1>1
<1> QED
  BY <1>2, <1>3, <1>4

\* What a division rounds down to.
LEMMA DivBounds ==
    ASSUME NEW a \in Nat, NEW L \in Nat \ {0}
    PROVE  /\ a \div L \in Nat
           /\ (a \div L) * L <= a /\ a < (a \div L) * L + L
OBVIOUS

\* The quotient compared with any number.
LEMMA DivCompared ==
    ASSUME NEW a \in Nat, NEW q \in Nat, NEW L \in Nat \ {0}
    PROVE  /\ q * L <= a <=> q <= a \div L
           /\ a < q * L + L <=> a \div L <= q
<1> DEFINE d == a \div L
<1>1. d \in Nat /\ d * L <= a /\ a < d * L + L /\ d * L \in Nat /\ q * L \in Nat
  BY DivBounds
<1>2. d < q => d * L + L <= q * L
  BY <1>1, Multiples
<1>3. q < d => q * L + L <= d * L
  BY <1>1, Multiples
<1> HIDE DEF d
<1>4. q <= d => q * L <= d * L
  BY <1>1, <1>3
<1>5. d <= q => d * L <= q * L
  BY <1>1, <1>2
<1>6. q * L <= a <=> q <= d
  BY <1>1, <1>2, <1>4
<1>7. a < q * L + L <=> d <= q
  BY <1>1, <1>3, <1>5
<1> QED
  BY <1>6, <1>7 DEF d

\* The pieces are those that begin before the end of the torrent; each is as
\* long as piece_len_at says, the last one perhaps short.
LEMMA PieceBounds ==
    ASSUME LayoutType, NEW p \in Nat
    PROVE  /\ p * piece_length \in Nat
           /\ p \in Piece <=> p * piece_length < offset
           /\ DataLen(p) = IF piece_length <= offset - p * piece_length
                           THEN piece_length ELSE offset - p * piece_length
<1> DEFINE L == piece_length
           m == p * piece_length
           t == offset + piece_length - 1
<1>1. L \in Nat \ {0} /\ offset \in Nat /\ m \in Nat /\ t \in Nat /\ t = offset + L - 1
  BY DEF LayoutType
<1>2. DataLen(p) = IF L <= offset - m THEN L ELSE offset - m
  <2>1. DataLen(p) = Min({L, offset - m})
    BY DEF DataLen, TotalLength
  <2> QED
    BY <1>1, <2>1, MinMaxOfTwo
<1>3. TotalPieces = t \div L /\ t \div L \in Nat
  BY <1>1, DivBounds DEF TotalPieces, TotalLength
<1>4. (p + 1) * L <= t <=> p + 1 <= t \div L
  BY <1>1, DivCompared
<1>5. (p + 1) * L = m + L
  BY <1>1 DEF m
<1>6. p \in Piece <=> p + 1 <= t \div L
  BY <1>3 DEF Piece
<1> HIDE DEF L, m, t
<1>7. m + L <= t <=> m < offset
  BY <1>1
<1> QED
  BY <1>1, <1>2, <1>4, <1>5, <1>6, <1>7 DEF m, L

\* The bytes of a piece are those whose offset, divided, gives the piece.
LEMMA PieceBytes ==
    ASSUME LayoutType, NEW p \in Piece, NEW b \in Nat
    PROVE  /\ b \in BytesOf(p) <=> b \div piece_length = p /\ b < offset
           /\ b \in BytesOf(p) <=> p * piece_length <= b /\ b < p * piece_length + DataLen(p)
           /\ DataLen(p) \in Nat /\ DataLen(p) > 0
<1> DEFINE L == piece_length
           m == p * piece_length
           d == b \div piece_length
           n == DataLen(p)
<1>1. L \in Nat \ {0} /\ offset \in Nat /\ p \in Nat
  BY DEF LayoutType, Piece
<1>2. /\ m \in Nat /\ m < offset
      /\ n = IF L <= offset - m THEN L ELSE offset - m
  BY <1>1, PieceBounds
<1>3. d \in Nat /\ (m <= b <=> p <= d) /\ (b < m + L <=> d <= p)
  BY <1>1, DivBounds, DivCompared
<1>4. BytesOf(p) = m .. m + n - 1
  BY DEF BytesOf
<1> HIDE DEF L, m, d, n
<1>5. n \in Nat /\ n > 0
  BY <1>1, <1>2
<1>6. b \in BytesOf(p) <=> m <= b /\ b < m + n
  BY <1>2, <1>4, <1>5
<1>7. b < m + n <=> b < m + L /\ b < offset
  BY <1>1, <1>2
<1>8. b \in BytesOf(p) <=> d = p /\ b < offset
  BY <1>1, <1>3, <1>6, <1>7
<1> QED
  BY <1>5, <1>6, <1>8 DEF m, n, d

-----------------------------------------------------------------------------
(* The selection.                                                          *)

\* A file lies within the torrent.
LEMMA FileBounds ==
    ASSUME LayoutType, BackToBack, Planned, NEW f \in File
    PROVE  /\ StartOffset(f) \in Nat /\ EndOffset(f) \in Nat /\ length[f] \in Nat
           /\ EndOffset(f) = StartOffset(f) + length[f] /\ EndOffset(f) <= offset
<1>1. NumFiles \in Nat /\ f \in PlannedFile /\ f + 1 \in 1 .. Len(plans)
  BY BoundsAssumption DEF PlannedFile, Planned, File
<1>2. plans[f + 1] \in FilePlan
  BY <1>1 DEF LayoutType
<1> QED
  BY <1>1, <1>2 DEF LayoutType, BackToBack, StartOffset, EndOffset, FilePlan

\* The pieces marked for a file are the pieces with a byte in it.
LEMMA PiecesOfFileExact ==
    ASSUME LayoutType, BackToBack, Planned, NEW f \in File
    PROVE  PiecesOfFile(f) = {p \in Piece : f \in FilesOfPiece(p)}
<1> DEFINE L == piece_length
           s == StartOffset(f)
           e == EndOffset(f)
<1>1. /\ L \in Nat \ {0} /\ offset \in Nat
      /\ s \in Nat /\ e \in Nat /\ e = s + length[f] /\ e <= offset /\ length[f] \in Nat
  BY FileBounds DEF LayoutType
<1>2. ASSUME NEW p \in Piece
      PROVE  f \in FilesOfPiece(p) <=> \E b \in Nat : b \in BytesOf(p) /\ s <= b /\ b < e
  <2>1. \A b \in BytesOf(p) : b \in Int
    BY DEF BytesOf
  <2> QED
    BY <1>1, <2>1 DEF FilesOfPiece
<1>3. CASE length[f] = 0
  <2>1. PiecesOfFile(f) = {}
    BY <1>3 DEF PiecesOfFile
  <2>2. ~\E b \in Nat : s <= b /\ b < e
    BY <1>1, <1>3
  <2> QED
    BY <1>2, <2>1, <2>2
<1>4. CASE length[f] # 0
  <2> DEFINE first == s \div L
             last == (e - 1) \div L
             top == Max({TotalPieces - 1, 0})
  <2>1. first \in Nat /\ last \in Nat /\ e - 1 \in Nat /\ s < e
    BY <1>1, <1>4, DivBounds
  <2>2. PiecesOfFile(f) = first .. Min({last, top})
    BY <1>4 DEF PiecesOfFile
  <2>3. TotalPieces \in Int /\ 0 \in Piece /\ Piece = 0 .. TotalPieces - 1
    <3>1. 0 * L = 0 /\ 0 < offset
      BY <1>1, <2>1
    <3>2. 0 \in Piece
      BY <3>1, PieceBounds
    <3>3. TotalPieces \in Nat
      <4>1. offset + L - 1 \in Nat
        BY <1>1
      <4> QED
        BY <1>1, <4>1, DivBounds DEF TotalPieces, TotalLength
    <3> QED
      BY <3>2, <3>3 DEF Piece
  <2>4. top = TotalPieces - 1 /\ top \in Nat
    BY <2>3, MinMaxOfTwo
  <2>5. \A p \in Nat : p \in PiecesOfFile(f) <=> first <= p /\ p <= last /\ p \in Piece
    <3> HIDE DEF first, last, top
    <3>1. Min({last, top}) = IF last <= top THEN last ELSE top
      BY <2>1, <2>4, MinMaxOfTwo
    <3> QED
      BY <2>1, <2>2, <2>3, <2>4, <3>1
  <2>6. ASSUME NEW p \in Piece
        PROVE  f \in FilesOfPiece(p) <=> first <= p /\ p <= last
    <3> DEFINE m == p * L
    <3>1. /\ p \in Nat /\ m \in Nat
          /\ (s < m + L <=> first <= p) /\ (m <= e - 1 <=> p <= last) /\ m < offset
      <4>1. p \in Nat
        BY DEF Piece
      <4>2. m \in Nat /\ m < offset
        BY <4>1, PieceBounds
      <4>3. s < m + L <=> first <= p
        BY <1>1, <4>1, DivCompared
      <4>4. m <= e - 1 <=> p <= last
        BY <1>1, <2>1, <4>1, DivCompared
      <4> QED
        BY <4>1, <4>2, <4>3, <4>4
    <3>2. \A b \in Nat : b \in BytesOf(p) <=> m <= b /\ b < m + L /\ b < offset
      <4>1. \A b \in Nat : /\ b \in BytesOf(p) <=> b \div L = p /\ b < offset
                           /\ b \div L \in Nat
                           /\ (m <= b <=> p <= b \div L) /\ (b < m + L <=> b \div L <= p)
        BY <1>1, <3>1, PieceBytes, DivBounds, DivCompared
      <4> QED
        BY <3>1, <4>1
    <3> HIDE DEF m, first, last, L, s, e
    <3>3. ASSUME first <= p, p <= last PROVE \E b \in Nat : b \in BytesOf(p) /\ s <= b /\ b < e
      <4>1. CASE m <= s
        BY <1>1, <2>1, <3>1, <3>2, <3>3, <4>1
      <4>2. CASE s < m
        BY <1>1, <2>1, <3>1, <3>2, <3>3, <4>2
      <4> QED
        BY <1>1, <3>1, <4>1, <4>2
    <3>4. ASSUME NEW b \in Nat, b \in BytesOf(p), s <= b, b < e PROVE first <= p /\ p <= last
      BY <1>1, <2>1, <3>1, <3>2, <3>4
    <3> QED
      BY <1>2, <3>3, <3>4 DEF s, e
  <2>7. PiecesOfFile(f) \in SUBSET Nat /\ Piece \in SUBSET Nat
    BY <2>1, <2>2, <2>3
  <2> HIDE DEF first, last, top
  <2> QED
    BY <2>5, <2>6, <2>7
<1> QED
  BY <1>3, <1>4

\* SelectionArithmetic: from_files and pieces_to_refetch mark exactly the pieces
\* that share a byte with the files they are asked about.
LEMMA SelectionExact ==
    ASSUME LayoutType, BackToBack
    PROVE  SelectionArithmetic
<1> SUFFICES ASSUME Planned, NEW files \in SUBSET File
             PROVE  /\ FromFiles(files) = Meaning!SelectionOf(files)
                    /\ PiecesToRefetch(open, files) = Meaning!ToRefetch(open, files)
  BY DEF SelectionArithmetic
<1>1. \A f \in File : PiecesOfFile(f) = {p \in Piece : f \in FilesOfPiece(p)}
  BY PiecesOfFileExact
<1>2. \A S \in SUBSET File : PiecesOfFiles(S) = {p \in Piece : FilesOfPiece(p) \cap S # {}}
  BY <1>1 DEF PiecesOfFiles
<1>3. \A p \in Piece : FilesOfPiece(p) \cap (File \ files) = FilesOfPiece(p) \ files
  BY DEF FilesOfPiece
<1>4. PiecesOfFiles(File \ files) = {p \in Piece : FilesOfPiece(p) \ files # {}}
  BY <1>2, <1>3
<1>5. PiecesToRefetch(open, files) = Meaning!ToRefetch(open, files)
  BY <1>2 DEF PiecesToRefetch, Meaning!ToRefetch
<1>6. FromFiles(files) = Meaning!SelectionOf(files)
  BY <1>2, <1>4 DEF FromFiles, Meaning!SelectionOf
<1> QED
  BY <1>5, <1>6

-----------------------------------------------------------------------------
(* The write loop.                                                         *)

\* locate finds, for every byte of the torrent, the one file it lies in.
LEMMA LocateExact ==
    ASSUME LayoutType, BackToBack, Planned, NEW b \in Nat, b < offset
    PROVE  /\ Locates(b) /\ PartitionPoint(b) \in File
           /\ StartOffset(PartitionPoint(b)) <= b /\ b < EndOffset(PartitionPoint(b))
           /\ \A g \in File : StartOffset(g) <= b /\ b < EndOffset(g) => g = PartitionPoint(b)
<1>1. PlannedFile = File /\ NumFiles \in Nat /\ offset \in Nat
  BY BoundsAssumption DEF PlannedFile, File, Planned, LayoutType
<1>2. PICK f \in File : StartOffset(f) <= b /\ b < EndOffset(f)
  BY <1>1 DEF BackToBack
<1> DEFINE S == {g \in File : EndOffset(g) > b} \cup {NumFiles}
<1>3. \A g \in File : StartOffset(g) \in Nat /\ EndOffset(g) \in Nat
  BY FileBounds
<1>4. \A g \in File : g < f => ~(EndOffset(g) > b)
  <2>1. \A g \in File : g < f => EndOffset(g) <= StartOffset(f)
    BY <1>1 DEF BackToBack
  <2> QED
    BY <1>2, <1>3, <2>1
<1>5. f \in S /\ S \in SUBSET Int /\ \A g \in S : f <= g
  <2>1. f \in S /\ S \in SUBSET Int
    BY <1>1, <1>2, <1>3 DEF File
  <2>2. \A g \in File : EndOffset(g) > b => f <= g
    BY <1>1, <1>4 DEF File
  <2>3. f <= NumFiles
    BY <1>1 DEF File
  <2> QED
    BY <2>1, <2>2, <2>3
<1>6. PartitionPoint(b) = f
  <2>1. PartitionPoint(b) = Min(S)
    BY DEF PartitionPoint
  <2> HIDE DEF S
  <2>2. Min(S) \in S /\ \A g \in S : Min(S) <= g
    <3>1. \E m \in S : \A g \in S : m <= g
      BY <1>5
    <3> QED
      BY <3>1, Zenon DEF Min
  <2>3. Min(S) <= f /\ f <= Min(S) /\ Min(S) \in Int /\ f \in Int
    BY <1>5, <2>2
  <2> QED
    BY <2>1, <2>3
<1>7. \A g \in File : StartOffset(g) <= b /\ b < EndOffset(g) => g = f
  <2> SUFFICES ASSUME NEW g \in File, StartOffset(g) <= b, b < EndOffset(g) PROVE g = f
    OBVIOUS
  <2>1. ~(g < f)
    BY <1>3, <1>4
  <2>2. f < g => EndOffset(f) <= StartOffset(g)
    BY <1>1 DEF BackToBack
  <2>3. ~(f < g)
    BY <1>2, <1>3, <2>2
  <2> QED
    BY <2>1, <2>3 DEF File
<1> QED
  BY <1>2, <1>6, <1>7 DEF Locates

\* One turn of the loop: where it writes, and how much.
LEMMA TurnBounds ==
    ASSUME LayoutInv, piece # -1, written < DataLen(piece)
    PROVE  LET at == CurrentAbsOffset
               file == PartitionPoint(at)
           IN  /\ Planned /\ at \in Nat /\ at < offset
               /\ Locates(at) /\ file \in File
               /\ StartOffset(file) <= at
               /\ Chunk(at, file) \in Nat /\ Chunk(at, file) > 0
               /\ at + Chunk(at, file) <= EndOffset(file)
               /\ written + Chunk(at, file) <= DataLen(piece)
<1> DEFINE at == CurrentAbsOffset
           file == PartitionPoint(at)
           m == piece * piece_length
           n == DataLen(piece)
           c == Chunk(at, file)
           e == EndOffset(file)
<1>1. LayoutType /\ BackToBack /\ Planned /\ piece \in Piece /\ written \in Nat
  BY DEF LayoutInv, LoopInRange
<1>2. piece \in Nat /\ piece_length \in Nat /\ offset \in Nat
  BY <1>1 DEF Piece, LayoutType
<1>3. /\ m \in Nat /\ n = IF piece_length <= offset - m THEN piece_length ELSE offset - m
      /\ m < offset
  BY <1>1, <1>2, PieceBounds
<1>4. at = m + written /\ written < n
  BY DEF CurrentAbsOffset
<1>5. at \in Nat /\ at < offset /\ n \in Nat
  <2> HIDE DEF at, m, n
  <2> QED
    BY <1>1, <1>2, <1>3, <1>4
<1>6. Locates(at) /\ file \in File /\ StartOffset(file) <= at /\ at < e
  BY <1>1, <1>5, LocateExact
<1>7. e \in Nat
  BY <1>1, <1>6, FileBounds
<1>8. c = Min({n - written, e - at})
  BY DEF Chunk
<1> HIDE DEF at, file, m, n, c, e
<1>9. c = IF n - written <= e - at THEN n - written ELSE e - at
  BY <1>1, <1>5, <1>7, <1>8, MinMaxOfTwo
<1>10. c \in Nat /\ c > 0 /\ at + c <= e /\ written + c <= n
  BY <1>1, <1>4, <1>5, <1>6, <1>7, <1>9
<1> QED
  BY <1>1, <1>5, <1>6, <1>10 DEF at, file, c, n, e

-----------------------------------------------------------------------------
(* Every step keeps the invariant.                                         *)

\* Before the first file is planned nothing is written.
LEMMA LayoutInit ==
    ASSUME Init
    PROVE  LayoutInv
<1>1. Len(plans) = 0 /\ plans \in Seq(FilePlan) /\ PlannedFile = {} /\ ~Planned
  BY BoundsAssumption DEF Init, Planned, PlannedFile
<1>2. LayoutType
  BY <1>1, BoundsAssumption DEF Init, LayoutType
<1>3. BackToBack /\ LoopInRange
  BY <1>1 DEF Init, BackToBack, LoopInRange
<1>4. StoredSoFar
  BY <1>1 DEF Init, StoredSoFar, Held
<1> QED
  BY <1>2, <1>3, <1>4 DEF LayoutInv

\* plan_files puts a file behind those before.
LEMMA PlanKeepsLayout ==
    ASSUME LayoutInv, PlanFile
    PROVE  LayoutInv'
<1>0. PICK n : n = Len(plans)
  OBVIOUS
<1> DEFINE r == [start |-> offset, end |-> offset + length[n]]
<1>1. LayoutType /\ BackToBack /\ ~Planned /\ begun = {} /\ piece = -1 /\ written \in Nat
  BY DEF LayoutInv, LoopInRange, PlanFile, Planned, LayoutType
<1>2. /\ n \in Nat /\ n < NumFiles /\ NumFiles \in Nat /\ n \in File /\ length[n] \in Nat
      /\ offset \in Nat /\ plans \in Seq(FilePlan)
  BY <1>0, <1>1, BoundsAssumption DEF LayoutType, PlanFile, File
<1>3. /\ plans' = Append(plans, r) /\ offset' = offset + length[n]
      /\ UNCHANGED <<length, piece_length, open, stored, begun, piece, written>>
  BY <1>0 DEF PlanFile, layoutVars
<1>4. r \in FilePlan /\ r.start = offset /\ r.end = offset + length[n]
  BY <1>2 DEF FilePlan
<1> HIDE DEF r
<1>5. /\ plans' \in Seq(FilePlan) /\ Len(plans') = n + 1
      /\ plans'[n + 1] = r /\ \A i \in 1 .. n : plans'[i] = plans[i] /\ plans[i] \in FilePlan
  <2> HIDE DEF FilePlan
  <2> QED
    BY <1>0, <1>2, <1>3, <1>4
<1>6. LayoutType'
  BY <1>1, <1>2, <1>3, <1>5 DEF LayoutType
<1>7. /\ PlannedFile = 0 .. n - 1 /\ PlannedFile' = 0 .. n
      /\ StartOffset(n)' = offset /\ EndOffset(n)' = offset + length[n]
      /\ \A f \in PlannedFile : /\ StartOffset(f)' = StartOffset(f) /\ EndOffset(f)' = EndOffset(f)
                                /\ StartOffset(f) \in Nat /\ EndOffset(f) \in Nat
                                /\ f \in File
  <2>1. PlannedFile = 0 .. n - 1 /\ PlannedFile' = 0 .. n
    BY <1>0, <1>2, <1>5 DEF PlannedFile
  <2>2. StartOffset(n)' = offset /\ EndOffset(n)' = offset + length[n]
    BY <1>2, <1>3, <1>4, <1>5 DEF StartOffset, EndOffset
  <2>3. \A f \in 0 .. n - 1 : f + 1 \in 1 .. n /\ f \in File
    BY <1>2 DEF File
  <2> QED
    BY <1>5, <2>1, <2>2, <2>3 DEF StartOffset, EndOffset, FilePlan
<1>8. \A f \in PlannedFile' : f \in PlannedFile \/ f = n
  BY <1>2, <1>7
<1>9. \A f \in PlannedFile' : EndOffset(f)' = StartOffset(f)' + length[f] /\ EndOffset(f)' <= offset'
  <2>1. \A f \in PlannedFile : EndOffset(f) = StartOffset(f) + length[f] /\ EndOffset(f) <= offset
    BY <1>1 DEF BackToBack
  <2> SUFFICES ASSUME NEW f \in PlannedFile'
               PROVE  EndOffset(f)' = StartOffset(f)' + length[f] /\ EndOffset(f)' <= offset'
    OBVIOUS
  <2>2. CASE f = n
    <3>1. offset + length[n] <= offset + length[n]
      BY <1>2
    <3> QED
      BY <1>3, <1>7, <2>2, <3>1
  <2>3. CASE f \in PlannedFile
    <3>1. offset <= offset' /\ offset \in Nat /\ offset' \in Nat
      BY <1>2, <1>3
    <3> QED
      BY <1>7, <2>1, <2>3, <3>1
  <2> QED
    BY <1>8, <2>2, <2>3
<1>10. \A f, g \in PlannedFile' : f < g => EndOffset(f)' <= StartOffset(g)'
  <2> SUFFICES ASSUME NEW f \in PlannedFile', NEW g \in PlannedFile', f < g
               PROVE  EndOffset(f)' <= StartOffset(g)'
    OBVIOUS
  <2>1. f \in PlannedFile
    BY <1>2, <1>7
  <2>2. CASE g = n
    BY <1>1, <1>7, <2>1, <2>2 DEF BackToBack
  <2>3. CASE g \in PlannedFile
    BY <1>1, <1>7, <2>1, <2>3 DEF BackToBack
  <2> QED
    BY <1>8, <2>2, <2>3
<1>11. \A b \in 0 .. offset' - 1 : \E f \in PlannedFile' : StartOffset(f)' <= b /\ b < EndOffset(f)'
  <2> SUFFICES ASSUME NEW b \in 0 .. offset' - 1
               PROVE  \E f \in PlannedFile' : StartOffset(f)' <= b /\ b < EndOffset(f)'
    OBVIOUS
  <2>1. CASE b < offset
    <3>1. PICK f \in PlannedFile : StartOffset(f) <= b /\ b < EndOffset(f)
      BY <1>1, <1>2, <1>3, <2>1 DEF BackToBack
    <3>2. f \in PlannedFile'
      BY <1>2, <1>7
    <3> QED
      BY <1>7, <3>1, <3>2
  <2>2. CASE b >= offset
    <3>1. n \in PlannedFile'
      BY <1>2, <1>7
    <3>2. offset <= b /\ b < offset + length[n]
      BY <1>2, <1>3, <2>2
    <3> QED
      BY <1>7, <3>1, <3>2
  <2> QED
    BY <1>2, <1>3, <2>1, <2>2
<1>12. BackToBack'
  BY <1>3, <1>9, <1>10, <1>11 DEF BackToBack
<1>13. LoopInRange'
  BY <1>1, <1>3 DEF LoopInRange
<1>14. StoredSoFar'
  <2>1. \A f \in File : Held(f) = {} /\ Held(f)' = {}
    BY <1>1, <1>3 DEF Held, Dealt
  <2> QED
    BY <1>3, <2>1 DEF LayoutInv, StoredSoFar
<1> QED
  BY <1>6, <1>12, <1>13, <1>14 DEF LayoutInv

\* The layout stays as planned.
LEMMA LayoutUnchanged ==
    ASSUME LayoutInv, UNCHANGED <<layoutVars, planVars>>
    PROVE  /\ LayoutType' /\ BackToBack' /\ (Planned' <=> Planned) /\ Piece' = Piece
           /\ \A f \in File : StartOffset(f)' = StartOffset(f) /\ EndOffset(f)' = EndOffset(f)
           /\ \A p \in Nat : DataLen(p)' = DataLen(p)
<1>1. UNCHANGED <<length, piece_length, open, plans, offset>>
  BY DEF layoutVars, planVars
<1>2. LayoutType' /\ (Planned' <=> Planned) /\ Piece' = Piece
  BY <1>1 DEF LayoutInv, LayoutType, Planned, Piece, TotalPieces, TotalLength
<1>3. \A f : StartOffset(f)' = StartOffset(f) /\ EndOffset(f)' = EndOffset(f)
  BY <1>1 DEF StartOffset, EndOffset
<1>4. BackToBack'
  BY <1>1, <1>3 DEF LayoutInv, BackToBack, PlannedFile
<1>5. \A p \in Nat : DataLen(p)' = DataLen(p)
  BY <1>1 DEF DataLen, TotalLength
<1> QED
  BY <1>2, <1>3, <1>4, <1>5

\* write_piece begins: nothing is dealt with that was not before.
LEMMA BeginKeepsLayout ==
    ASSUME LayoutInv, Planned, NEW p \in Piece \ begun, BeginPiece(p)
    PROVE  LayoutInv'
<1>1. /\ UNCHANGED <<layoutVars, planVars, stored>> /\ piece = -1
      /\ piece' = p /\ written' = 0 /\ begun' = begun \cup {p}
  BY DEF BeginPiece
<1>2. LayoutType /\ begun \in SUBSET Nat /\ p \in Nat /\ piece_length' = piece_length
  BY <1>1 DEF LayoutInv, LoopInRange, Piece, layoutVars, LayoutType
<1>3. /\ LayoutType' /\ BackToBack' /\ Planned' /\ Piece' = Piece
      /\ \A f \in File : StartOffset(f)' = StartOffset(f) /\ EndOffset(f)' = EndOffset(f)
      /\ DataLen(p)' = DataLen(p)
  BY <1>1, <1>2, LayoutUnchanged
<1>4. LoopInRange'
  <2>1. DataLen(p) \in Nat
    <3>1. 0 \in Nat
      OBVIOUS
    <3> QED
      BY <1>2, <3>1, PieceBytes
  <2>2. DataLen(piece)' = DataLen(p)
    BY <1>1, <1>3 DEF DataLen
  <2> QED
    BY <1>1, <1>2, <1>3, <2>1, <2>2 DEF LoopInRange
<1>5. ASSUME NEW b \in Int PROVE Dealt(b)' <=> Dealt(b)
  <2>1. begun \ {piece} = begun /\ begun' \ {piece'} = begun
    BY <1>1, <1>2
  <2>2. p * piece_length \in Int /\ (CurrentAbsOffset)' = p * piece_length
    BY <1>1, <1>2 DEF CurrentAbsOffset, LayoutType
  <2> QED
    BY <1>1, <1>2, <2>1, <2>2 DEF Dealt
<1>6. ASSUME NEW f \in File PROVE Held(f)' = Held(f)
  <2>1. StartOffset(f) \in Nat /\ EndOffset(f) \in Nat
    BY FileBounds DEF LayoutInv
  <2>2. \A b \in StartOffset(f) .. EndOffset(f) - 1 : b \in Int
    BY <2>1
  <2> QED
    BY <1>1, <1>3, <1>5, <2>2 DEF Held, layoutVars
<1>7. StoredSoFar'
  BY <1>1, <1>3, <1>6 DEF LayoutInv, StoredSoFar
<1> QED
  BY <1>3, <1>4, <1>7 DEF LayoutInv

\* write_piece ends: all the bytes of the piece are dealt with.
LEMMA EndKeepsLayout ==
    ASSUME LayoutInv, EndPiece
    PROVE  LayoutInv'
<1>1. /\ UNCHANGED <<layoutVars, planVars, stored, begun>> /\ piece # -1
      /\ piece' = -1 /\ written' = 0 /\ written >= DataLen(piece)
  BY DEF EndPiece
<1>2. /\ LayoutType /\ BackToBack /\ begun \in SUBSET Nat /\ Planned
      /\ piece \in begun /\ piece \in Piece /\ written <= DataLen(piece)
      /\ written \in Nat /\ piece_length' = piece_length
  BY <1>1 DEF LayoutInv, LoopInRange, layoutVars
<1>3. /\ LayoutType' /\ BackToBack' /\ Planned'
      /\ \A f \in File : StartOffset(f)' = StartOffset(f) /\ EndOffset(f)' = EndOffset(f)
  BY <1>1, <1>2, LayoutUnchanged
<1>4. LoopInRange'
  BY <1>1, <1>2, <1>3 DEF LoopInRange
<1>5. written = DataLen(piece)
  <2>1. DataLen(piece) \in Nat
    <3>1. 0 \in Nat
      OBVIOUS
    <3> QED
      BY <1>2, <3>1, PieceBytes
  <2> QED
    BY <1>1, <1>2, <2>1
<1>6. ASSUME NEW b \in Nat, b < offset PROVE Dealt(b)' <=> Dealt(b)
  <2>1. b \div piece_length = piece
           <=> piece * piece_length <= b /\ b < piece * piece_length + DataLen(piece)
    BY <1>2, <1>6, PieceBytes
  <2>2. b \div piece_length = piece <=> piece * piece_length <= b /\ b < CurrentAbsOffset
    BY <1>5, <2>1 DEF CurrentAbsOffset
  <2>3. Dealt(b) <=> b \div piece_length \in begun
    BY <1>1, <1>2, <2>2 DEF Dealt
  <2>4. begun' \ {piece'} = begun
    BY <1>1, <1>2
  <2> QED
    BY <1>1, <1>2, <2>3, <2>4 DEF Dealt
<1>7. ASSUME NEW f \in File PROVE Held(f)' = Held(f)
  <2>1. StartOffset(f) \in Nat /\ EndOffset(f) \in Nat /\ EndOffset(f) <= offset /\ offset \in Nat
    BY <1>2, FileBounds DEF LayoutType
  <2>2. \A b \in StartOffset(f) .. EndOffset(f) - 1 : b \in Nat /\ b < offset
    BY <2>1
  <2> QED
    BY <1>1, <1>2, <1>3, <1>6, <2>2 DEF Held, layoutVars
<1>8. StoredSoFar'
  BY <1>1, <1>3, <1>7 DEF LayoutInv, StoredSoFar
<1> QED
  BY <1>3, <1>4, <1>8 DEF LayoutInv

\* One turn of the loop: the chunk goes to the file it lies in, behind what is
\* there of this piece, or nowhere when that file has no handle.
LEMMA WriteKeepsLayout ==
    ASSUME LayoutInv, WriteChunk
    PROVE  LayoutInv'
<1>0. PICK at, file, c : at = CurrentAbsOffset /\ file = PartitionPoint(at) /\ c = Chunk(at, file)
  OBVIOUS
<1>1. /\ UNCHANGED <<layoutVars, planVars, begun, piece>> /\ piece # -1
      /\ written < DataLen(piece) /\ written' = written + c
      /\ stored' = IF file \notin open THEN stored
                   ELSE [stored EXCEPT ![file] = @ \cup
                           {<<FileOffset(at, file) + i, at + i>> : i \in 0 .. c - 1}]
  BY <1>0 DEF WriteChunk
<1>2. /\ LayoutType /\ BackToBack /\ begun \in SUBSET Nat
      /\ piece \in begun /\ piece \in Piece /\ piece \in Nat
      /\ written \in Nat /\ piece_length' = piece_length /\ open' = open
      /\ piece_length \in Nat /\ offset \in Nat
  BY <1>1 DEF LayoutInv, LoopInRange, layoutVars, LayoutType, Piece
<1>3. /\ Planned /\ at \in Nat /\ at < offset /\ file \in File
      /\ StartOffset(file) <= at /\ c \in Nat /\ c > 0
      /\ at + c <= EndOffset(file) /\ written + c <= DataLen(piece)
  BY <1>0, <1>1, TurnBounds
<1>4. /\ LayoutType' /\ BackToBack' /\ Planned' /\ Piece' = Piece
      /\ \A f \in File : StartOffset(f)' = StartOffset(f) /\ EndOffset(f)' = EndOffset(f)
      /\ DataLen(piece)' = DataLen(piece)
  <2>1. DataLen(piece)' = DataLen(piece)
    BY <1>1 DEF DataLen, TotalLength, layoutVars, planVars
  <2> QED
    BY <1>1, <1>3, <2>1, LayoutUnchanged
<1>5. LoopInRange'
  BY <1>1, <1>2, <1>3, <1>4 DEF LoopInRange
<1>6. \A f \in File : /\ StartOffset(f) \in Nat /\ EndOffset(f) \in Nat /\ EndOffset(f) <= offset
  BY <1>2, <1>3, FileBounds
<1>7. ASSUME NEW b \in Nat PROVE Dealt(b)' <=> Dealt(b) \/ (at <= b /\ b < at + c)
  <2> DEFINE m == piece * piece_length
  <2>1. m \in Nat /\ at = m + written
    BY <1>0, <1>2 DEF CurrentAbsOffset
  <2>2. CurrentAbsOffset = at /\ (CurrentAbsOffset)' = m + (written + c)
    BY <1>0, <1>1, <1>2 DEF CurrentAbsOffset
  <2>3. Dealt(b) <=> b \div piece_length \in begun \ {piece} \/ (m <= b /\ b < at)
    BY <1>1, <2>2 DEF Dealt
  <2>4. Dealt(b)' <=> b \div piece_length \in begun \ {piece} \/ (m <= b /\ b < m + (written + c))
    BY <1>1, <1>2, <2>2 DEF Dealt
  <2> HIDE DEF m
  <2>5. (m <= b /\ b < m + (written + c)) <=> (m <= b /\ b < at) \/ (at <= b /\ b < at + c)
    BY <1>2, <1>3, <2>1
  <2> QED
    BY <2>3, <2>4, <2>5
<1> DEFINE R == {b \in Nat : at <= b /\ b < at + c}
           Bytes(f) == StartOffset(f) .. EndOffset(f) - 1
<1>8. ASSUME NEW f \in File
      PROVE  Held(f)' = IF f \in open THEN {b \in Bytes(f) : Dealt(b) \/ b \in R} ELSE {}
  <2>1. \A b \in Bytes(f) : b \in Nat
    BY <1>6
  <2>2. Held(f)' = IF f \in open THEN {b \in Bytes(f) : Dealt(b)'} ELSE {}
    BY <1>2, <1>4 DEF Held
  <2> HIDE DEF Bytes
  <2>3. \A b \in Bytes(f) : Dealt(b)' <=> Dealt(b) \/ b \in R
    BY <1>7, <2>1
  <2> QED
    BY <2>2, <2>3
<1>9. ASSUME NEW f \in File, f # file PROVE Held(f)' = Held(f)
  <2>1. EndOffset(f) <= StartOffset(file) \/ EndOffset(file) <= StartOffset(f)
    <3>1. f \in PlannedFile /\ file \in PlannedFile /\ (f < file \/ file < f)
      BY <1>3, <1>9, BoundsAssumption DEF PlannedFile, File, Planned
    <3> QED
      BY <1>2, <3>1 DEF BackToBack
  <2>2. \A b \in Bytes(f) : b \notin R
    BY <1>3, <1>6, <2>1
  <2> HIDE DEF Bytes, R
  <2> QED
    BY <1>3, <1>8, <2>2 DEF Held, Bytes
<1>10. CASE file \notin open
  <2>1. Held(file)' = Held(file)
    BY <1>3, <1>8, <1>10 DEF Held
  <2>2. \A f \in File : Held(f)' = Held(f) /\ StartOffset(f)' = StartOffset(f)
    BY <1>4, <1>9, <2>1
  <2> QED
    BY <1>1, <1>4, <1>5, <1>10, <2>2 DEF LayoutInv, StoredSoFar
<1>11. CASE file \in open
  <2> DEFINE s == StartOffset(file)
             New == {<<FileOffset(at, file) + i, at + i>> : i \in 0 .. c - 1}
             Placed(f) == {<<b - StartOffset(f), b>> : b \in Held(f)}
  <2>1. Held(file)' = Held(file) \cup R
    <3>1. R \in SUBSET Bytes(file)
      BY <1>3, <1>6
    <3> HIDE DEF R, Bytes
    <3>2. Held(file) = {b \in Bytes(file) : Dealt(b)}
      BY <1>3, <1>11 DEF Held, Bytes
    <3> QED
      BY <1>3, <1>8, <1>11, <3>1, <3>2
  <2>2. New = {<<b - s, b>> : b \in R}
    <3>1. s \in Nat /\ FileOffset(at, file) = at - s
      BY <1>3, <1>6 DEF FileOffset
    <3> HIDE DEF s
    <3>2. \A i \in 0 .. c - 1 : at + i \in R /\ (at - s) + i = (at + i) - s
      BY <1>3, <3>1
    <3>3. \A b \in R : b - at \in 0 .. c - 1 /\ (at - s) + (b - at) = b - s /\ at + (b - at) = b
      BY <1>3, <3>1
    <3> HIDE DEF R
    <3>4. \A x \in New : x \in {<<b - s, b>> : b \in R}
      BY <3>1, <3>2
    <3>5. \A x \in {<<b - s, b>> : b \in R} : x \in New
      BY <3>1, <3>3
    <3> QED
      BY <3>4, <3>5
  <2>3. stored = [f \in File |-> Placed(f)]
    BY DEF LayoutInv, StoredSoFar
  <2> HIDE DEF New, R
  <2>4. stored' = [stored EXCEPT ![file] = stored[file] \cup New]
    BY <1>1, <1>11 DEF New
  <2>5. {<<b - s, b>> : b \in Held(file) \cup R} = Placed(file) \cup New
    BY <2>2
  <2>6. Placed(file)' = Placed(file) \cup New
    BY <1>3, <1>4, <2>1, <2>5
  <2>7. \A f \in File : f # file => Placed(f)' = Placed(f)
    BY <1>4, <1>9
  <2> HIDE DEF Placed
  <2>8. stored' = [f \in File |-> Placed(f)']
    BY <1>3, <2>3, <2>4, <2>6, <2>7
  <2>9. StoredSoFar'
    BY <2>8 DEF StoredSoFar, Placed
  <2> QED
    BY <1>4, <1>5, <2>9 DEF LayoutInv
<1> QED
  BY <1>10, <1>11

\* The invariant of the plan and of the loop.
LEMMA LayoutInductive == Spec => []LayoutInv
<1>1. LayoutInv /\ [Next]_vars => LayoutInv'
  <2> SUFFICES ASSUME LayoutInv, [Next]_vars PROVE LayoutInv'
    OBVIOUS
  <2>1. CASE PlanFile
    BY <2>1, PlanKeepsLayout
  <2>2. CASE Planned /\ \E p \in Piece \ begun : BeginPiece(p)
    BY <2>2, BeginKeepsLayout
  <2>3. CASE WriteChunk
    BY <2>3, WriteKeepsLayout
  <2>4. CASE EndPiece
    BY <2>4, EndKeepsLayout
  <2>5. CASE UNCHANGED vars
    <3>1. UNCHANGED <<layoutVars, planVars, stored, begun, piece, written>>
      BY <2>5 DEF vars
    <3>2. UNCHANGED <<length, piece_length, open, plans, offset>>
      BY <3>1 DEF layoutVars, planVars
    <3> QED
      BY <3>1, <3>2
         DEF LayoutInv, LayoutType, BackToBack, LoopInRange, StoredSoFar, Held, Dealt, PlannedFile,
             StartOffset, EndOffset, CurrentAbsOffset, Planned, Piece, TotalPieces, TotalLength, DataLen
  <2> QED
    BY <2>1, <2>2, <2>3, <2>4, <2>5 DEF Next
<1> QED
  BY <1>1, LayoutInit, PTL DEF Spec

-----------------------------------------------------------------------------
\* from_files and pieces_to_refetch, for every torrent: the pieces marked are
\* the pieces that share a byte with the files asked about.
THEOREM SelectionAlwaysExact == Spec => []SelectionArithmetic
<1>1. LayoutInv => SelectionArithmetic
  BY SelectionExact DEF LayoutInv
<1> QED
  BY <1>1, LayoutInductive, PTL

\* write_piece, for every torrent and every order of the pieces: a file holds
\* its own bytes at their own places, those of the pieces written and no other.
THEOREM BytesAlwaysInPlace == Spec => []StoredInPlace
<1>1. ASSUME LayoutInv PROVE StoredInPlace
  <2> SUFFICES ASSUME Planned, piece = -1, NEW f \in File
               PROVE  stored[f] = {<<b - StartOffset(f), b>> : b \in
                          IF f \in open
                          THEN {b \in StartOffset(f) .. EndOffset(f) - 1 :
                                   b \div piece_length \in begun}
                          ELSE {}}
    BY DEF StoredInPlace
  <2>1. stored[f] = {<<b - StartOffset(f), b>> : b \in Held(f)}
    BY <1>1 DEF LayoutInv, StoredSoFar
  <2>2. begun \ {piece} = begun
    BY <1>1 DEF LayoutInv, LoopInRange
  <2>3. \A b : Dealt(b) <=> b \div piece_length \in begun
    BY <2>2 DEF Dealt
  <2>4. Held(f) = IF f \in open
                  THEN {b \in StartOffset(f) .. EndOffset(f) - 1 : b \div piece_length \in begun}
                  ELSE {}
    BY <2>3 DEF Held
  <2> QED
    BY <2>1, <2>4
<1> QED
  BY <1>1, LayoutInductive, PTL

\* locate never refuses a byte of the torrent, and every turn of the loop gets
\* on with the piece: no "piece offset out of bounds", no endless loop.
WriteGoesOn ==
    piece # -1 /\ written < DataLen(piece) =>
        /\ Locates(CurrentAbsOffset)
        /\ Chunk(CurrentAbsOffset, PartitionPoint(CurrentAbsOffset)) > 0

\* The write loop, for every torrent: locate finds a file for every byte, and
\* every turn writes at least one.
THEOREM WriteNeverRefused == Spec => []WriteGoesOn
<1>1. LayoutInv => WriteGoesOn
  BY TurnBounds DEF WriteGoesOn
<1> QED
  BY <1>1, LayoutInductive, PTL

=============================================================================
