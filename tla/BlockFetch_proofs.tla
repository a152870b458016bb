-------------------------- MODULE BlockFetch_proofs --------------------------
(***************************************************************************)
(* What holds of a session that fetches block by block, for pieces, blocks,*)
(* limits and time-outs of any size.                                       *)
(***************************************************************************)
EXTENDS BlockFetch, FiniteSetTheorems, SequenceTheorems, WellFoundedInduction, TLAPS

\* A set of numbers has a least one: every induction over blocks is this.
LEMMA Least ==
    ASSUME NEW T \in SUBSET Nat, T # {}
    PROVE  \E m \in T : \A k \in T : m <= k
<1>1. PICK m \in T : \A k \in T : ~(<<k, m>> \in OpToRel(<, Nat))
  BY NatLessThanWellFounded, WFMin, Zenon
<1>2. \A k \in T : ~(k < m)
  BY <1>1 DEF OpToRel
<1> QED
  BY <1>2

-----------------------------------------------------------------------------
(* Blocks: their order and their lengths.                                  *)

\* Every subset of the blocks is finite.
LEMMA BlocksFinite ==
    ASSUME NEW S \in SUBSET Block
    PROVE  IsFiniteSet(S) /\ Cardinality(S) \in Nat /\ IsFiniteSet(Block)
<1>1. IsFiniteSet(Block) /\ NumBlocks \in Nat
  BY FS_Interval, PiecesAssumption DEF Block
<1> QED
  BY <1>1, FS_Subset, FS_CardinalityType

\* There is a block at every place in the order of a set of blocks: next_request
\* finds as many blocks as are wanting.
LEMMA NthBlock ==
    ASSUME NEW S \in SUBSET Block, NEW i \in 1..Cardinality(S)
    PROVE  Nth(S, i) \in S
<1> DEFINE UpTo(b) == {c \in S : c <= b}
           Below(b) == {c \in S : c < b}
           T == {b \in Nat : Cardinality(UpTo(b)) >= i}
<1>0. NumBlocks \in Nat /\ S \subseteq Nat /\ \A c \in S : c >= 1 /\ c <= NumBlocks
  BY PiecesAssumption DEF Block
<1>1. \A c \in S : c \in Nat /\ c >= 1
  BY <1>0
<1>2. ASSUME NEW b \in Nat
      PROVE  /\ b = 0 => Below(b) = {}
             /\ UpTo(b - 1) = Below(b)
             /\ UpTo(b) = Below(b) \cup (IF b \in S THEN {b} ELSE {})
  BY <1>1
<1>3. NumBlocks \in T
  <2>1. UpTo(NumBlocks) = S
    BY <1>0
  <2> QED
    BY <1>0, <2>1, BlocksFinite
<1>4. PICK m \in T : \A k \in T : m <= k
  BY <1>3, Least
<1>5. m \in Nat /\ Cardinality(UpTo(m)) >= i
  BY <1>4
<1>6. \A b \in Nat : IsFiniteSet(UpTo(b)) /\ IsFiniteSet(Below(b)) /\ Cardinality(UpTo(b)) \in Nat
                     /\ Cardinality(Below(b)) \in Nat
  BY BlocksFinite
<1>7. Cardinality(Below(m)) < i
  <2>1. CASE m = 0
    <3>1. Below(m) = {}
      BY <1>5, <1>2, <2>1
    <3> QED
      BY <3>1, FS_EmptySet, BlocksFinite
  <2>2. CASE m # 0
    <3>1. m - 1 \in Nat /\ m - 1 \notin T
      BY <1>4, <2>2
    <3>2. UpTo(m - 1) = Below(m)
      BY <1>5, <1>2
    <3>3. ~(Cardinality(UpTo(m - 1)) >= i)
      BY <3>1
    <3> HIDE DEF UpTo, Below
    <3> QED
      BY <1>4, <1>6, <3>2, <3>3, BlocksFinite
  <2> QED
    BY <2>1, <2>2
<1>8. Cardinality(UpTo(m)) = IF m \in S THEN Cardinality(Below(m)) + 1 ELSE Cardinality(Below(m))
  <2>1. CASE m \in S
    <3>1. UpTo(m) = Below(m) \cup {m} /\ m \notin Below(m)
      BY <1>5, <1>2, <2>1
    <3> HIDE DEF UpTo, Below
    <3> QED
      BY <1>4, <1>6, <2>1, <3>1, FS_AddElement
  <2>2. CASE m \notin S
    <3>1. UpTo(m) = Below(m)
      BY <1>5, <1>2, <2>2
    <3> QED
      BY <2>2, <3>1
  <2> QED
    BY <2>1, <2>2
<1>9. m \in S /\ Cardinality({c \in S : c < m}) = i - 1
  <2> HIDE DEF UpTo, Below
  <2>1. m \in Nat /\ Cardinality(UpTo(m)) >= i
    BY <1>4
  <2>2. m \in S /\ Cardinality(Below(m)) = i - 1
    BY <1>6, <1>7, <1>8, <2>1, BlocksFinite
  <2> QED
    BY <2>2 DEF Below
<1> QED
  BY <1>9 DEF Nth

\* A new block adds its length.
LEMMA SizeAdds ==
    ASSUME NEW S \in SUBSET Block, NEW b \in Block, b \notin S
    PROVE  Size(S) \in Nat /\ Size(S \cup {b}) = Size(S) + Units(b)
<1> DEFINE R == S \ {NumBlocks}
           n == Cardinality(R)
<1>1. IsFiniteSet(R) /\ n \in Nat
  BY BlocksFinite
<1>2. BlockUnits \in Nat /\ LastUnits \in Nat /\ NumBlocks \in Nat
  BY PiecesAssumption
<1> HIDE DEF n
<1>3. BlockUnits * n \in Nat /\ BlockUnits * (n + 1) = BlockUnits * n + BlockUnits
  BY <1>1, <1>2
<1>4. Size(S) = BlockUnits * n + IF NumBlocks \in S THEN LastUnits ELSE 0
  BY DEF Size, n
<1>5. CASE b = NumBlocks
  <2>1. (S \cup {b}) \ {NumBlocks} = R
    BY <1>5
  <2>2. Size(S \cup {b}) = BlockUnits * n + LastUnits
    BY <1>5, <2>1 DEF Size, n
  <2> QED
    BY <1>2, <1>3, <1>4, <1>5, <2>2 DEF Units
<1>6. CASE b # NumBlocks
  <2>1. (S \cup {b}) \ {NumBlocks} = R \cup {b} /\ b \notin R
    BY <1>6
  <2>2. Cardinality(R \cup {b}) = n + 1
    BY <1>1, <2>1, FS_AddElement DEF n
  <2>3. Size(S \cup {b}) = BlockUnits * (n + 1) + IF NumBlocks \in S THEN LastUnits ELSE 0
    BY <1>6, <2>1, <2>2 DEF Size
  <2> QED
    BY <1>2, <1>3, <1>4, <1>6, <2>3 DEF Units
<1> QED
  BY <1>5, <1>6

\* The received bytes reach the length of the piece only with its last missing block.
LEMMA SizeComplete ==
    ASSUME NEW S \in SUBSET Block, Size(S) = ExpectedLength
    PROVE  S = Block
<1> DEFINE R == S \ {NumBlocks}
           B == Block \ {NumBlocks}
           n == Cardinality(R)
           m == Cardinality(B)
<1>1. /\ IsFiniteSet(R) /\ n \in Nat /\ IsFiniteSet(B) /\ m \in Nat
  BY BlocksFinite
<1>2. BlockUnits \in Nat \ {0} /\ LastUnits \in Nat \ {0} /\ NumBlocks \in Block
  BY PiecesAssumption DEF Block
<1>3. n <= m /\ (n = m => R = B)
  BY <1>1, FS_Subset
<1>4. /\ Size(S) = BlockUnits * n + IF NumBlocks \in S THEN LastUnits ELSE 0
      /\ ExpectedLength = BlockUnits * m + LastUnits
  BY <1>2 DEF Size, ExpectedLength
<1> HIDE DEF n, m, R, B
<1>5. BlockUnits * m = BlockUnits * n + BlockUnits * (m - n) /\ BlockUnits * n \in Nat
      /\ BlockUnits * (m - n) \in Nat
  BY <1>1, <1>2, <1>3
<1>6. n < m => BlockUnits * (m - n) > 0
  BY <1>1, <1>2, <1>3
<1> DEFINE x == BlockUnits * n
           y == BlockUnits * (m - n)
           z == BlockUnits * m
<1>7. NumBlocks \in S /\ n = m
  <2>1. x \in Nat /\ y \in Nat /\ z = x + y /\ z + LastUnits = x + IF NumBlocks \in S THEN LastUnits ELSE 0
    BY <1>4, <1>5
  <2>2. n < m => y > 0
    BY <1>6
  <2> HIDE DEF x, y, z
  <2> QED
    BY <1>1, <1>2, <1>3, <2>1, <2>2
<1> QED
  BY <1>2, <1>3, <1>7 DEF R, B

-----------------------------------------------------------------------------
(* The stream of units from the peer to the decoder.                       *)

Unit == {u \in [type : {"piece", "choke", "unchoke"}, piece : 0..LastPiece,
                block : 0..NumBlocks, k : Nat, len : Nat] :
            u.type = "piece" => u.block \in Block}

Stream == decoded \o socket

\* Every unit stands in the middle of its whole message.  Said of the place of each
\* unit, and not of neighbours, it needs no induction along the stream.
Whole(st) ==
    \A i \in DOMAIN st :
        LET start == i - st[i].k
        IN /\ st[i].k >= 1 /\ st[i].k <= st[i].len
           /\ start >= 0 /\ start + st[i].len <= Len(st)
           /\ \A j \in (start + 1)..(start + st[i].len) :
                 st[j].k = j - start /\ st[j].len = st[i].len

\* A message is whole.
LEMMA MessageWhole ==
    ASSUME NEW type \in {"piece", "choke", "unchoke"}, NEW piece \in 0..LastPiece,
           NEW b \in 0..NumBlocks, type = "piece" => b \in Block, NEW len \in Nat \ {0}
    PROVE  Message(type, piece, b, len) \in Seq(Unit) /\ Whole(Message(type, piece, b, len))
<1> DEFINE m == Message(type, piece, b, len)
           U(k) == [type |-> type, piece |-> piece, block |-> b, k |-> k, len |-> len]
<1>1. \A k \in 1..len : U(k) \in Unit /\ U(k).k = k /\ U(k).len = len
  BY DEF Unit
<1>2. m = [k \in 1..len |-> U(k)]
  BY DEF Message
<1> HIDE DEF m, U
<1>3. m \in Seq(Unit) /\ Len(m) = len /\ DOMAIN m = 1..len
  BY <1>1, <1>2
<1>4. \A i \in 1..len : m[i].k = i /\ m[i].len = len
  BY <1>1, <1>2
<1>5. Whole(m)
  BY <1>3, <1>4 DEF Whole
<1> QED
  BY <1>3, <1>5 DEF m

\* What is sent after a whole stream makes a whole stream.
LEMMA WholeAppend ==
    ASSUME NEW s \in Seq(Unit), NEW t \in Seq(Unit), Whole(s), Whole(t)
    PROVE  Whole(s \o t)
<1> DEFINE r == s \o t
           m == Len(s)
           n == Len(t)
<1>1. /\ m \in Nat /\ n \in Nat /\ DOMAIN s = 1..m /\ DOMAIN t = 1..n /\ DOMAIN r = 1..(m + n)
      /\ Len(r) = m + n
      /\ \A i \in 1..m : r[i] = s[i] /\ s[i] \in Unit
      /\ \A i \in (m + 1)..(m + n) : r[i] = t[i - m] /\ i - m \in 1..n /\ t[i - m] \in Unit
  <2> HIDE DEF Unit
  <2>1. \A i \in 1..n : r[m + i] = t[i] /\ t[i] \in Unit
    OBVIOUS
  <2>2. \A i \in (m + 1)..(m + n) : i - m \in 1..n /\ m + (i - m) = i
    OBVIOUS
  <2> QED
    BY <2>1, <2>2
<1>2. \A u \in Unit : u.k \in Nat /\ u.len \in Nat
  BY DEF Unit
<1> HIDE DEF r, m, n, Unit
<1> SUFFICES ASSUME NEW i \in 1..(m + n)
             PROVE  LET start == i - r[i].k
                    IN /\ r[i].k >= 1 /\ r[i].k <= r[i].len
                       /\ start >= 0 /\ start + r[i].len <= m + n
                       /\ \A j \in (start + 1)..(start + r[i].len) :
                             r[j].k = j - start /\ r[j].len = r[i].len
  BY <1>1 DEF Whole, r
<1>3. CASE i <= m
  <2>1. /\ i \in 1..m /\ r[i] = s[i] /\ s[i].k \in Nat /\ s[i].len \in Nat
    BY <1>1, <1>2, <1>3
  <2> DEFINE start == i - s[i].k
  <2>2. /\ s[i].k >= 1 /\ s[i].k <= s[i].len /\ start >= 0 /\ start + s[i].len <= m
        /\ \A j \in (start + 1)..(start + s[i].len) : s[j].k = j - start /\ s[j].len = s[i].len
    BY <1>1, <2>1 DEF Whole, m
  <2>3. ASSUME NEW j \in (start + 1)..(start + s[i].len) PROVE j \in 1..m
    BY <1>1, <2>1, <2>2
  <2>4. \A j \in (start + 1)..(start + s[i].len) : r[j] = s[j]
    BY <1>1, <2>3
  <2>5. start + s[i].len <= m + n
    BY <1>1, <2>1, <2>2
  <2> QED
    BY <2>1, <2>2, <2>4, <2>5
<1>4. CASE i > m
  <2> DEFINE h == i - m
             start == h - t[h].k
  <2>1. /\ h \in 1..n /\ r[i] = t[h] /\ t[h].k \in Nat /\ t[h].len \in Nat
    BY <1>1, <1>2, <1>4
  <2>2. /\ t[h].k >= 1 /\ t[h].k <= t[h].len /\ start >= 0 /\ start + t[h].len <= n
        /\ \A j \in (start + 1)..(start + t[h].len) : t[j].k = j - start /\ t[j].len = t[h].len
    BY <1>1, <2>1 DEF Whole, n
  <2>3. i - t[h].k = m + start /\ start \in Int
    BY <1>1, <2>1
  <2> DEFINE L == t[h].len
  <2>4. L \in Nat /\ start \in Nat /\ start + L <= n
    BY <2>1, <2>2
  <2> HIDE DEF start, L, h
  <2>5. ASSUME NEW j \in (m + start + 1)..(m + start + L)
        PROVE  r[j].k = j - (m + start) /\ r[j].len = L
    <3>1. j \in (m + 1)..(m + n) /\ j - m \in (start + 1)..(start + L) /\ (j - m) - start = j - (m + start)
      <4>1. j \in Int /\ m + start + 1 <= j /\ j <= m + start + L
        BY <1>1, <2>4
      <4>2. m \in Nat /\ n \in Nat
        BY <1>1
      <4> HIDE DEF m, n
      <4> QED
        BY <2>4, <4>1, <4>2
    <3>2. r[j] = t[j - m]
      BY <1>1, <3>1
    <3> QED
      BY <2>2, <3>1, <3>2 DEF L
  <2>6. m + start >= 0 /\ m + start + L <= m + n
    BY <1>1, <2>4
  <2> QED
    BY <2>1, <2>2, <2>3, <2>5, <2>6 DEF L
<1> QED
  BY <1>1, <1>3, <1>4

\* Without its first message a whole stream is whole.
LEMMA WholeDrop ==
    ASSUME NEW s \in Seq(Unit), Whole(s), s # <<>>
    PROVE  /\ s[1].len \in 1..Len(s)
           /\ Whole(SubSeq(s, s[1].len + 1, Len(s)))
<1> DEFINE n == Len(s)
           L == s[1].len
           r == SubSeq(s, L + 1, n)
<1>1. n \in Nat \ {0} /\ DOMAIN s = 1..n /\ \A i \in 1..n : s[i] \in Unit
  <2> HIDE DEF Unit
  <2> QED
    OBVIOUS
<1>2. \A u \in Unit : u.k \in Nat /\ u.len \in Nat
  BY DEF Unit
<1> HIDE DEF n, Unit
<1>3. \A i \in 1..n : /\ s[i].k \in Nat /\ s[i].len \in Nat /\ s[i].k >= 1 /\ s[i].k <= s[i].len
                      /\ i - s[i].k >= 0 /\ i - s[i].k + s[i].len <= n
                      /\ \A j \in (i - s[i].k + 1)..(i - s[i].k + s[i].len) :
                            s[j].k = j - (i - s[i].k) /\ s[j].len = s[i].len
  BY <1>1, <1>2 DEF Whole, n
<1>4. s[1].k = 1 /\ L \in 1..n
  BY <1>1, <1>3
<1>5. s[L].k = L /\ s[L].len = L
  <2>1. L \in (1 - s[1].k + 1)..(1 - s[1].k + s[1].len) /\ L - (1 - s[1].k) = L
    BY <1>4
  <2> QED
    BY <1>1, <1>3, <1>4, <2>1
<1> HIDE DEF L
\* No message begins before the end of the first one and ends after it.
<1>6. \A i \in (L + 1)..n : i - s[i].k >= L
  <2> SUFFICES ASSUME NEW i \in (L + 1)..n, i - s[i].k < L PROVE FALSE
    BY <1>1, <1>3, <1>4
  <2>1. i \in 1..n
    BY <1>1, <1>4
  <2>2. L \in (i - s[i].k + 1)..(i - s[i].k + s[i].len)
    BY <1>1, <1>3, <1>4, <2>1
  <2>3. s[L].k = L - (i - s[i].k) /\ s[L].len = s[i].len
    BY <1>3, <2>1, <2>2
  <2> QED
    BY <1>1, <1>3, <1>4, <1>5, <2>1, <2>3
<1>7. /\ Len(r) = n - L /\ DOMAIN r = 1..(n - L)
      /\ \A i \in 1..(n - L) : r[i] = s[i + L] /\ i + L \in (L + 1)..n
  <2>1. L + 1 \in Int /\ n \in Int /\ \A i \in (L + 1)..n : s[i] \in Unit
    BY <1>1, <1>4
  <2>2. /\ r \in Seq(Unit) /\ Len(r) = IF L + 1 <= n THEN n - (L + 1) + 1 ELSE 0
        /\ \A i \in 1..(n - (L + 1) + 1) : r[i] = s[(L + 1) + i - 1]
    BY <2>1, SubSeqProperties
  <2>3. \A i \in 1..(n - L) : (L + 1) + i - 1 = i + L /\ i + L \in (L + 1)..n
    BY <1>1, <1>4
  <2>4. Len(r) = n - L /\ DOMAIN r = 1..Len(r) /\ n - (L + 1) + 1 = n - L
    <3> HIDE DEF r
    <3> QED
      BY <1>1, <1>4, <2>2
  <2> HIDE DEF r
  <2> QED
    BY <2>2, <2>3, <2>4
<1> HIDE DEF r
<1>8. ASSUME NEW i \in 1..(n - L)
      PROVE  /\ r[i].k >= 1 /\ r[i].k <= r[i].len
             /\ i - r[i].k >= 0 /\ i - r[i].k + r[i].len <= n - L
             /\ \A j \in (i - r[i].k + 1)..(i - r[i].k + r[i].len) :
                   r[j].k = j - (i - r[i].k) /\ r[j].len = r[i].len
  <2> DEFINE h == i + L
             K == s[h].k
             M == s[h].len
  <2>1. h \in (L + 1)..n /\ r[i] = s[h] /\ h \in 1..n
    BY <1>1, <1>4, <1>7
  <2>2. /\ K \in Nat /\ M \in Nat /\ K >= 1 /\ K <= M /\ h - K + M <= n /\ h - K >= L
        /\ \A j \in (h - K + 1)..(h - K + M) : s[j].k = j - (h - K) /\ s[j].len = M
    BY <1>3, <1>6, <2>1
  <2> HIDE DEF K, M
  <2>3. i - K >= 0 /\ i - K + M <= n - L
    BY <1>1, <1>4, <2>2
  <2>4. ASSUME NEW j \in (i - K + 1)..(i - K + M) PROVE r[j].k = j - (i - K) /\ r[j].len = M
    <3>1. j \in 1..(n - L) /\ j + L \in (h - K + 1)..(h - K + M) /\ (j + L) - (h - K) = j - (i - K)
      BY <1>1, <1>4, <2>2, <2>3
    <3>2. r[j] = s[j + L]
      BY <1>7, <3>1
    <3> QED
      BY <2>2, <3>1, <3>2
  <2> QED
    BY <2>1, <2>2, <2>3, <2>4 DEF K, M
<1>9. Whole(r)
  BY <1>7, <1>8 DEF Whole
<1> QED
  BY <1>4, <1>9 DEF L, n, r

\* In a whole stream the units follow each other as StreamWhole says.
LEMMA WholeFollows ==
    ASSUME NEW s \in Seq(Unit), Whole(s)
    PROVE  /\ s # <<>> => s[1].k = 1
           /\ \A i \in 1..(Len(s) - 1) :
                 s[i + 1].k = IF s[i].k = s[i].len THEN 1 ELSE s[i].k + 1
<1> DEFINE n == Len(s)
<1>1. n \in Nat /\ DOMAIN s = 1..n /\ (\A i \in 1..n : s[i] \in Unit) /\ (s # <<>> => n > 0)
  <2> HIDE DEF Unit
  <2> QED
    OBVIOUS
<1>2. \A u \in Unit : u.k \in Nat /\ u.len \in Nat
  BY DEF Unit
<1> HIDE DEF n, Unit
<1>3. \A i \in 1..n : /\ s[i].k \in Nat /\ s[i].len \in Nat /\ s[i].k >= 1 /\ s[i].k <= s[i].len
                      /\ i - s[i].k >= 0
                      /\ \A j \in (i - s[i].k + 1)..(i - s[i].k + s[i].len) :
                            s[j].k = j - (i - s[i].k) /\ s[j].len = s[i].len
  BY <1>1, <1>2 DEF Whole
<1>4. s # <<>> => s[1].k = 1
  BY <1>1, <1>3
<1>5. ASSUME NEW i \in 1..(n - 1)
      PROVE  s[i + 1].k = IF s[i].k = s[i].len THEN 1 ELSE s[i].k + 1
  <2> DEFINE h == i + 1
  <2>1. i \in 1..n /\ h \in 1..n /\ h - 1 = i
    BY <1>1
  <2>2. /\ s[i].k \in Nat /\ s[i].len \in Nat /\ s[i].k >= 1 /\ s[i].k <= s[i].len
        /\ s[h].k \in Nat /\ s[h].len \in Nat /\ s[h].k >= 1 /\ s[h].k <= s[h].len
    BY <1>3, <2>1
  <2>3. s[i].k < s[i].len => s[h].k = s[i].k + 1
    <3> SUFFICES ASSUME s[i].k < s[i].len PROVE s[h].k = s[i].k + 1
      OBVIOUS
    <3>1. h \in (i - s[i].k + 1)..(i - s[i].k + s[i].len) /\ h - (i - s[i].k) = s[i].k + 1
      BY <2>1, <2>2
    <3> HIDE DEF h
    <3> QED
      BY <1>3, <2>1, <3>1
  <2>4. s[h].k > 1 => s[i].k < s[i].len
    <3> SUFFICES ASSUME s[h].k > 1 PROVE s[i].k < s[i].len
      OBVIOUS
    <3>1. i \in (h - s[h].k + 1)..(h - s[h].k + s[h].len) /\ i - (h - s[h].k) = s[h].k - 1
      BY <2>1, <2>2
    <3> HIDE DEF h
    <3>2. s[i].k = s[h].k - 1 /\ s[i].len = s[h].len
      BY <1>3, <2>1, <3>1
    <3> QED
      BY <2>2, <3>2
  <2> HIDE DEF h
  <2>5. s[h].k = IF s[i].k = s[i].len THEN 1 ELSE s[i].k + 1
    BY <2>2, <2>3, <2>4
  <2> QED
    BY <2>5 DEF h
<1> QED
  BY <1>4, <1>5 DEF n

\* The socket and the decoder's buffer are put together in any order.
LEMMA UnitsAssociate ==
    ASSUME NEW x \in Seq(Unit), NEW y \in Seq(Unit), NEW z \in Seq(Unit)
    PROVE  (x \o y) \o z = x \o (y \o z)
<1> HIDE DEF Unit
<1> QED
  BY ConcatAssociative

\* Taking from the front of the socket to the end of the decoder's buffer changes nothing.
LEMMA StreamMoves ==
    ASSUME NEW d \in Seq(Unit), NEW s \in Seq(Unit), NEW n \in 0..Len(s)
    PROVE  /\ d \o SubSeq(s, 1, n) \in Seq(Unit) /\ SubSeq(s, n + 1, Len(s)) \in Seq(Unit)
           /\ (d \o SubSeq(s, 1, n)) \o SubSeq(s, n + 1, Len(s)) = d \o s
<1> HIDE DEF Unit
<1> DEFINE a == SubSeq(s, 1, n)
           b == SubSeq(s, n + 1, Len(s))
           l == Len(s)
<1>1. l \in Nat /\ n \in Nat /\ n <= l
  OBVIOUS
<1>2. a \in Seq(Unit) /\ Len(a) = n /\ \A i \in 1..n : a[i] = s[i]
  OBVIOUS
<1>3. b \in Seq(Unit) /\ Len(b) = l - n /\ \A i \in 1..(l - n) : b[i] = s[n + i]
  OBVIOUS
<1> HIDE DEF a, b
<1>4. s \in Seq(Unit) /\ l = Len(s)
  OBVIOUS
<1> HIDE DEF l
<1>5. a \o b \in Seq(Unit) /\ Len(a \o b) = n + (l - n)
  BY <1>2, <1>3, ConcatProperties
<1>6. a \o b \in Seq(Unit) /\ Len(a \o b) = l
  BY <1>1, <1>5
<1>7. \A i \in 1..l : (a \o b)[i] = s[i]
  <2> SUFFICES ASSUME NEW i \in 1..l PROVE (a \o b)[i] = s[i]
    OBVIOUS
  <2>1. CASE i <= n
    BY <1>1, <1>2, <1>3, <2>1
  <2>2. CASE i > n
    <3>1. i - n \in 1..(l - n) /\ n + (i - n) = i
      BY <1>1, <2>2
    <3>2. (a \o b)[i] = b[i - n]
      BY <1>1, <1>2, <1>3, <2>2
    <3> QED
      BY <1>3, <3>1, <3>2
  <2>3. i <= n \/ i > n
    BY <1>1
  <2> QED
    BY <2>1, <2>2, <2>3
<1>8. a \o b = s
  BY <1>6, <1>7, <1>4, SeqEqual
<1>9. d \in Seq(Unit) /\ a \in Seq(Unit) /\ b \in Seq(Unit)
  BY <1>2, <1>3
<1>10. (d \o a) \o b = d \o (a \o b)
  BY <1>9, UnitsAssociate
<1>11. d \o a \in Seq(Unit)
  BY <1>2, ConcatProperties
<1> QED
  BY <1>3, <1>8, <1>10, <1>11 DEF a, b

\* A message that is in the decoder's buffer as a whole is the first of the stream.
LEMMA StreamConsumed ==
    ASSUME NEW d \in Seq(Unit), NEW s \in Seq(Unit), d # <<>>, NEW n \in 0..Len(d)
    PROVE  /\ SubSeq(d, n + 1, Len(d)) \in Seq(Unit)
           /\ SubSeq(d, n + 1, Len(d)) \o s = SubSeq(d \o s, n + 1, Len(d \o s))
           /\ (d \o s)[1] = Head(d) /\ d \o s # <<>> /\ Head(d) \in Unit
<1> HIDE DEF Unit
<1> DEFINE a == SubSeq(d, n + 1, Len(d))
           w == d \o s
           b == SubSeq(w, n + 1, Len(w))
           l == Len(d)
           m == Len(s)
<1>1. l \in Nat \ {0} /\ m \in Nat /\ n \in Nat /\ n <= l
  OBVIOUS
<1>2. a \in Seq(Unit) /\ Len(a) = l - n /\ \A i \in 1..(l - n) : a[i] = d[n + i]
  OBVIOUS
<1>3. w \in Seq(Unit) /\ Len(w) = l + m /\ (\A i \in 1..l : w[i] = d[i]) /\ \A i \in 1..m : w[l + i] = s[i]
  OBVIOUS
<1>4. w[1] = Head(d) /\ w # <<>> /\ Head(d) \in Unit
  BY <1>1, <1>3
<1> HIDE DEF w
<1>5. b \in Seq(Unit) /\ Len(b) = l + m - n /\ \A i \in 1..(l + m - n) : b[i] = w[n + i]
  BY <1>1, <1>3
<1> HIDE DEF a, b
<1>6. s \in Seq(Unit) /\ m = Len(s)
  OBVIOUS
<1> HIDE DEF l, m
<1>7. a \o s \in Seq(Unit) /\ Len(a \o s) = (l - n) + m
  BY <1>2, <1>6, ConcatProperties
<1>8. a \o s \in Seq(Unit) /\ Len(a \o s) = l + m - n
  BY <1>1, <1>7
<1>9. ASSUME NEW i \in 1..(l + m - n) PROVE (a \o s)[i] = b[i]
  <2>1. CASE i <= l - n
    <3>1. (a \o s)[i] = a[i] /\ i \in 1..(l - n) /\ n + i \in 1..l
      BY <1>1, <1>2, <2>1
    <3> QED
      BY <1>2, <1>3, <1>5, <3>1
  <2>2. CASE i > l - n
    <3> DEFINE h == i - (l - n)
    <3>1. h \in 1..m /\ l + h = n + i
      BY <1>1, <2>2
    <3>2. (a \o s)[i] = s[i - Len(a)] /\ Len(a) = l - n
      <4>1. /\ Len(a) = l - n /\ Len(s) = m /\ i \in 1..(Len(a) + Len(s)) /\ ~(i <= Len(a))
        BY <1>1, <1>2, <1>6, <2>2
      <4> QED
        BY <1>2, <1>6, <4>1, ConcatProperties
    <3>3. (a \o s)[i] = s[h]
      BY <3>2
    <3> HIDE DEF h
    <3> QED
      BY <1>3, <1>5, <3>1, <3>3
  <2>3. i <= l - n \/ i > l - n
    BY <1>1
  <2> QED
    BY <2>1, <2>2, <2>3
<1>10. a \o s = b
  BY <1>5, <1>8, <1>9, SeqEqual
<1> QED
  BY <1>2, <1>4, <1>10 DEF a, b, w

-----------------------------------------------------------------------------
(* The session.                                                            *)

Request == [piece : 0..LastPiece, block : Block]

\* An assembler whose blocks are of `piece` and are counted once.
Exact(a, piece) ==
    /\ a.completed \in SUBSET Block /\ a.buffer \in [Block -> 0..LastPiece]
    /\ a.received = Size(a.completed)
    /\ \A b \in a.completed : a.buffer[b] = piece

FetchTypes ==
    /\ todo \in Seq(1..LastPiece) /\ job \in 0..LastPiece
    /\ requests \in Seq(Request)
    /\ decoded \in Seq(Unit) /\ socket \in Seq(Unit)
    /\ rate \in Nat /\ tokens \in Int

\* The inductive invariant.  StreamWhole needs that messages are whole, BlocksExact that
\* every block on the stream and in the peer's queue is one of the piece's.
FetchInv == FetchTypes /\ Exact(Assembler, job) /\ Whole(Stream)

\* An assembler without blocks is exact for every piece.
LEMMA FreshExact ==
    ASSUME NEW piece
    PROVE  Exact(Fresh, piece)
<1>1. BlockUnits \in Nat /\ NumBlocks \in Nat /\ LastPiece \in Nat
  BY PiecesAssumption
<1>2. Cardinality({} \ {NumBlocks}) = 0
  BY FS_EmptySet
<1>3. Size({}) = 0
  BY <1>1, <1>2 DEF Size
<1> QED
  BY <1>1, <1>3 DEF Exact, Fresh, NoJob

\* What a select! branch leaves to maybe_request_work and fill_pipeline stays exact, and
\* every request is for a block of the piece.
LEMMA ProceedKeeps ==
    ASSUME FetchTypes, NEW queue \in Seq(1..LastPiece), NEW piece \in 0..LastPiece,
           NEW a, Exact(a, piece), NEW quiet, NEW choking, Proceed(queue, piece, a, quiet, choking)
    PROVE  /\ todo' \in Seq(1..LastPiece) /\ job' \in 0..LastPiece /\ requests' \in Seq(Request)
           /\ Exact(Assembler', job')
<1> DEFINE starts == piece = NoJob /\ ~choking /\ queue # <<>>
           now == IF starts THEN Head(queue) ELSE piece
           base == IF starts THEN Fresh ELSE a
           asked == IF now = NoJob \/ choking THEN {} ELSE NextRequests(base)
           sent == [i \in 1..Cardinality(asked) |-> [piece |-> now, block |-> Nth(asked, i)]]
<1>1. /\ todo' = IF starts THEN Tail(queue) ELSE queue
      /\ job' = now
      /\ completed' = base.completed /\ buffer' = base.buffer /\ received' = base.received
      /\ requests' = IF choked THEN requests ELSE requests \o sent
  BY DEF Proceed
<1>2. now \in 0..LastPiece /\ todo' \in Seq(1..LastPiece)
  <2>1. CASE starts
    <3>1. now = Head(queue) /\ todo' = Tail(queue) /\ queue # <<>>
      BY <1>1, <2>1
    <3>2. Head(queue) \in 1..LastPiece /\ Tail(queue) \in Seq(1..LastPiece)
      BY <3>1, HeadTailProperties
    <3> QED
      BY <3>1, <3>2, PiecesAssumption
  <2>2. CASE ~starts
    BY <1>1, <2>2
  <2> QED
    BY <2>1, <2>2
<1>3. Exact(base, now)
  BY FreshExact
<1>4. asked \in SUBSET Block
  BY DEF NextRequests
<1> HIDE DEF now, base, asked
<1>5. sent \in Seq(Request)
  <2>1. Cardinality(asked) \in Nat
    BY <1>4, BlocksFinite
  <2>2. \A i \in 1..Cardinality(asked) : Nth(asked, i) \in Block
    BY <1>4, NthBlock
  <2>3. \A i \in 1..Cardinality(asked) : [piece |-> now, block |-> Nth(asked, i)] \in Request
    BY <1>2, <2>2 DEF Request
  <2> QED
    BY <2>1, <2>3
<1>6. requests' \in Seq(Request)
  <2>1. requests \o sent \in Seq(Request)
    BY <1>5, ConcatProperties DEF FetchTypes
  <2> QED
    BY <1>1, <2>1 DEF FetchTypes
<1>7. Exact(Assembler', job')
  BY <1>1, <1>3 DEF Exact, Assembler
<1> QED
  BY <1>1, <1>2, <1>6, <1>7

\* A message is taken from the stream as a whole.
LEMMA DecodesKeeps ==
    ASSUME FetchInv, NEW type, Decodes(type)
    PROVE  /\ decoded' \in Seq(Unit) /\ socket' = socket /\ rate' = rate /\ tokens' = tokens
           /\ Whole(Stream') /\ Head(decoded) \in Unit /\ Head(decoded).type = type
<1> DEFINE n == Head(decoded).len
           w == decoded \o socket
<1>1. /\ decoded # <<>> /\ Len(decoded) >= n /\ Head(decoded).type = type
      /\ decoded' = SubSeq(decoded, n + 1, Len(decoded))
      /\ socket' = socket /\ rate' = rate /\ tokens' = tokens
  BY DEF Decodes, Complete, Consumed, limiterVars
<1>2. decoded \in Seq(Unit) /\ socket \in Seq(Unit) /\ Whole(w)
  BY DEF FetchInv, FetchTypes, Stream
<1>3. Head(decoded) \in Unit
  BY <1>1, <1>2, HeadTailProperties
<1>4. n \in Nat
  BY <1>3 DEF Unit
<1>5. n \in 0..Len(decoded)
  <2> HIDE DEF n, Unit
  <2> QED
    BY <1>1, <1>2, <1>4
<1>6. /\ decoded' \in Seq(Unit)
      /\ decoded' \o socket = SubSeq(w, n + 1, Len(w))
      /\ w[1] = Head(decoded) /\ w # <<>>
  BY <1>1, <1>2, <1>5, StreamConsumed
<1>7. w \in Seq(Unit)
  BY <1>2, ConcatProperties
<1>8. Whole(SubSeq(w, w[1].len + 1, Len(w)))
  <2> HIDE DEF w, Unit
  <2> QED
    BY <1>2, <1>6, <1>7, WholeDrop
<1>9. Whole(decoded' \o socket')
  BY <1>1, <1>6, <1>8
<1> QED
  BY <1>1, <1>3, <1>6, <1>9 DEF Stream

\* Min of two numbers.
LEMMA MinOfTwo ==
    ASSUME NEW x \in Int, NEW y \in Int
    PROVE  Min({x, y}) = IF x <= y THEN x ELSE y
<1> DEFINE S == {x, y}
           m == IF x <= y THEN x ELSE y
<1>1. m \in S /\ \A z \in S : m =< z
  OBVIOUS
<1>2. \A v \in S : (\A z \in S : v =< z) => v = m
  BY <1>1
<1> HIDE DEF m, S
<1> QED
  BY <1>1, <1>2 DEF Min, S, m

\* Max of two numbers.
LEMMA MaxOfTwo ==
    ASSUME NEW x \in Int, NEW y \in Int
    PROVE  Max({x, y}) = IF x >= y THEN x ELSE y
<1> DEFINE S == {x, y}
           m == IF x >= y THEN x ELSE y
<1>1. m \in S /\ \A z \in S : m >= z
  OBVIOUS
<1>2. \A v \in S : (\A z \in S : v >= z) => v = m
  BY <1>1
<1> HIDE DEF m, S
<1> QED
  BY <1>1, <1>2 DEF Max, S, m

\* The burst a limit allows.
LEMMA BurstType ==
    ASSUME NEW r \in Nat
    PROVE  Burst(r) \in Int
<1>1. r \div 4 \in Int /\ MinBurst \in Int
  BY LimitsAssumption
<1> DEFINE q == r \div 4
<1> HIDE DEF q
<1>2. Max({q, MinBurst}) = IF q >= MinBurst THEN q ELSE MinBurst
  BY <1>1, MaxOfTwo DEF q
<1> QED
  BY <1>1, <1>2 DEF Burst, q

\* A block that completes the piece leaves no other block missing, and each of them came
\* from this piece: the hash of what was assembled is the right one.
LEMMA PieceMatches ==
    ASSUME FetchInv, NEW b \in Block, ExpectedNew(job, b)
    PROVE  LET a == AddBlock(Assembler, b, job)
           IN /\ Exact(a, job)
              /\ a.received = ExpectedLength => \A c \in Block : a.buffer[c] = job
<1> DEFINE a == AddBlock(Assembler, b, job)
<1>1. /\ a.completed = completed \cup {b} /\ a.buffer = [buffer EXCEPT ![b] = job]
      /\ a.received = received + Units(b)
  BY DEF AddBlock, Assembler
<1>2. /\ completed \in SUBSET Block /\ buffer \in [Block -> 0..LastPiece] /\ b \notin completed
      /\ received = Size(completed) /\ (\A c \in completed : buffer[c] = job) /\ job \in 0..LastPiece
  BY DEF FetchInv, FetchTypes, Exact, Assembler, ExpectedNew
<1>3. Size(completed \cup {b}) = Size(completed) + Units(b)
  BY <1>2, SizeAdds
<1>4. a.received = Size(a.completed)
  BY <1>1, <1>2, <1>3
<1> HIDE DEF a
<1>5. a.completed \in SUBSET Block /\ a.buffer \in [Block -> 0..LastPiece]
      /\ \A c \in a.completed : a.buffer[c] = job
  BY <1>1, <1>2
<1>6. a.received = ExpectedLength => a.completed = Block
  BY <1>4, <1>5, SizeComplete
<1> QED
  BY <1>4, <1>5, <1>6 DEF Exact, a

\* A decoded PIECE is never followed by a mismatch, and leaves the assembler exact.
LEMMA PieceKeeps ==
    ASSUME FetchInv, PieceReceived
    PROVE  FetchInv' /\ dropped' = dropped
<1> DEFINE piece == Head(decoded).piece
           b == Head(decoded).block
           a == AddBlock(Assembler, b, piece)
<1>1. Decodes("piece")
  BY DEF PieceReceived
<1>2. /\ decoded' \in Seq(Unit) /\ socket' = socket /\ rate' = rate /\ tokens' = tokens
      /\ Whole(Stream') /\ Head(decoded) \in Unit /\ Head(decoded).type = "piece"
  BY <1>1, DecodesKeeps
<1>3. b \in Block /\ piece \in 0..LastPiece
  BY <1>2 DEF Unit
<1>4. /\ FetchTypes /\ todo \in Seq(1..LastPiece) /\ job \in 0..LastPiece
      /\ Exact(Assembler, job) /\ NoJob \in 0..LastPiece
  BY PiecesAssumption DEF FetchInv, FetchTypes, NoJob
<1> HIDE DEF piece, b
<1>5. ASSUME NEW q \in 0..LastPiece, NEW c, Exact(c, q), NEW quiet, Proceed(todo, q, c, quiet, peer_choking)
      PROVE  FetchInv'
  <2>1. /\ todo' \in Seq(1..LastPiece) /\ job' \in 0..LastPiece /\ requests' \in Seq(Request)
        /\ Exact(Assembler', job')
    BY <1>4, <1>5, ProceedKeeps
  <2> QED
    BY <1>2, <2>1, <1>4 DEF FetchInv, FetchTypes
<1>6. CASE ~ExpectedNew(piece, b)
  <2>1. Proceed(todo, job, Assembler, silent, peer_choking) /\ dropped' = dropped
    BY <1>6 DEF PieceReceived, piece, b
  <2> QED
    BY <1>4, <1>5, <2>1
<1>7. CASE ExpectedNew(piece, b)
  <2>1. piece = job
    BY <1>7 DEF ExpectedNew
  <2>2. /\ Exact(a, job)
        /\ a.received = ExpectedLength => \A c \in Block : a.buffer[c] = job
    BY <1>3, <1>7, <2>1, PieceMatches
  <2>3. CASE a.received # ExpectedLength
    <3>1. Proceed(todo, job, a, 0, peer_choking) /\ dropped' = dropped
      BY <1>7, <2>3 DEF PieceReceived, piece, b
    <3> QED
      BY <1>4, <1>5, <2>2, <3>1
  <2>4. CASE a.received = ExpectedLength
    <3>1. Proceed(todo, NoJob, Fresh, 0, peer_choking) /\ dropped' = dropped
      BY <1>7, <2>2, <2>4 DEF PieceReceived, piece, b
    <3> QED
      BY <1>4, <1>5, <3>1, FreshExact
  <2> QED
    BY <2>3, <2>4
<1> QED
  BY <1>6, <1>7

\* The other steps of the session.
LEMMA SessionKeeps ==
    ASSUME FetchInv, ChokeReceived \/ UnchokeReceived \/ OtherFinished \/ Tick
    PROVE  FetchInv'
<1>1. /\ FetchTypes /\ todo \in Seq(1..LastPiece) /\ job \in 0..LastPiece
      /\ Exact(Assembler, job) /\ NoJob \in 0..LastPiece
      /\ rate \in Nat /\ tokens \in Int
  BY PiecesAssumption DEF FetchInv, FetchTypes, NoJob
<1> DEFINE Moved == /\ decoded' \in Seq(Unit) /\ socket' = socket /\ rate' = rate /\ tokens' \in Int
                    /\ Whole(Stream')
<1>2. ASSUME Moved, NEW queue \in Seq(1..LastPiece), NEW q \in 0..LastPiece, NEW c, Exact(c, q),
             NEW quiet, NEW choking, Proceed(queue, q, c, quiet, choking)
      PROVE  FetchInv'
  <2>1. /\ todo' \in Seq(1..LastPiece) /\ job' \in 0..LastPiece /\ requests' \in Seq(Request)
        /\ Exact(Assembler', job')
    BY <1>1, <1>2, ProceedKeeps
  <2> QED
    BY <1>1, <1>2, <2>1 DEF FetchInv, FetchTypes
<1>3. Exact(ResetRequests(Assembler), job)
  BY <1>1 DEF Exact, ResetRequests, Assembler
<1>4. CASE ChokeReceived
  <2>1. Decodes("choke") /\ Proceed(todo, job, ResetRequests(Assembler), silent, TRUE)
    BY <1>4 DEF ChokeReceived
  <2>2. Moved
    BY <1>1, <2>1, DecodesKeeps
  <2> HIDE DEF Moved
  <2> QED
    BY <1>1, <1>2, <1>3, <2>1, <2>2
<1>5. CASE UnchokeReceived
  <2>1. Decodes("unchoke") /\ Proceed(todo, job, Assembler, silent, FALSE)
    BY <1>5 DEF UnchokeReceived
  <2>2. Moved
    BY <1>1, <2>1, DecodesKeeps
  <2> HIDE DEF Moved
  <2> QED
    BY <1>1, <1>2, <2>1, <2>2
<1>6. CASE OtherFinished
  <2>1. Proceed(todo, NoJob, Fresh, silent, peer_choking) /\ UNCHANGED <<socket, decoded, rate, tokens>>
    BY <1>6 DEF OtherFinished, limiterVars
  <2>2. Moved
    BY <1>1, <2>1 DEF FetchInv, FetchTypes, Stream
  <2> HIDE DEF Moved
  <2> QED
    BY <1>1, <1>2, <2>1, <2>2, FreshExact
<1>7. CASE Tick
  <2> DEFINE quiet == IF silent > Max({StallTimeout, ChokedTimeout}) THEN silent ELSE silent + 1
             aged == [Assembler EXCEPT !.requested = [b \in Block |-> Older(@[b], RetryTimeout)]]
  <2>1. /\ UNCHANGED <<socket, decoded, rate>>
        /\ tokens' = IF rate = 0 THEN tokens ELSE Min({tokens + rate, Burst(rate)})
    BY <1>7 DEF Tick, TickKeeping
  <2>2. tokens' \in Int
    <3>1. tokens + rate \in Int /\ Burst(rate) \in Int
      BY <1>1, BurstType
    <3>2. Min({tokens + rate, Burst(rate)}) \in Int
      BY <3>1, MinOfTwo
    <3> QED
      BY <1>1, <2>1, <3>2
  <2>3. Moved
    BY <1>1, <2>1, <2>2 DEF FetchInv, FetchTypes, Stream
  <2>4. Exact(aged, job)
    BY <1>1 DEF Exact, Assembler
  <2>5. Append(todo, job) \in Seq(1..LastPiece) \/ job = NoJob
    <3>1. job # NoJob => job \in 1..LastPiece
      BY <1>1, PiecesAssumption DEF NoJob
    <3> QED
      BY <1>1, <3>1
  <2>6. \/ UNCHANGED <<todo, job, requested, completed, buffer, received, requests>>
        \/ job # NoJob /\ Proceed(Append(todo, job), NoJob, Fresh, quiet, peer_choking)
        \/ Proceed(todo, job, aged, quiet, peer_choking)
    BY <1>7 DEF Tick, TickKeeping, TooLongChoked, GivenBack, assemblerVars
  <2> HIDE DEF Moved, aged, quiet
  <2>7. CASE UNCHANGED <<todo, job, requested, completed, buffer, received, requests>>
    <3>1. Exact(Assembler', job')
      BY <1>1, <2>7 DEF Exact, Assembler
    <3> QED
      BY <1>1, <2>3, <2>7, <3>1 DEF FetchInv, FetchTypes, Moved
  <2>8. CASE job # NoJob /\ Proceed(Append(todo, job), NoJob, Fresh, quiet, peer_choking)
    BY <1>1, <1>2, <2>3, <2>5, <2>8, FreshExact
  <2>9. CASE Proceed(todo, job, aged, quiet, peer_choking)
    BY <1>1, <1>2, <2>3, <2>4, <2>9
  <2> QED
    BY <2>6, <2>7, <2>8, <2>9
<1> QED
  BY <1>4, <1>5, <1>6, <1>7

\* Reading moves units and the limiter's tokens.
LEMMA ReadKeeps ==
    ASSUME FetchInv, Read
    PROVE  FetchInv'
<1> DEFINE n == Min({Allowed, Len(socket)})
<1>1. /\ CanRead /\ decoded' = decoded \o SubSeq(socket, 1, n)
      /\ socket' = SubSeq(socket, n + 1, Len(socket))
      /\ tokens' = IF rate = 0 THEN tokens ELSE tokens - n
      /\ UNCHANGED <<todo, job, requested, completed, buffer, received, requests, rate>>
  BY DEF Read, sessionVars, assemblerVars, peerVars
<1>2. decoded \in Seq(Unit) /\ socket \in Seq(Unit) /\ rate \in Nat /\ tokens \in Int
  BY DEF FetchInv, FetchTypes
<1>3. Allowed \in Int /\ Allowed > 0
  <2>1. ReadChunk \in Int
    BY LimitsAssumption
  <2>2. Min({tokens, ReadChunk}) \in Int
    BY <1>2, <2>1, MinOfTwo
  <2> QED
    BY <1>1, <2>1, <2>2 DEF CanRead, Allowed
<1>4. n \in 0..Len(socket)
  <2> DEFINE l == Len(socket)
  <2>1. l \in Nat
    <3> HIDE DEF Unit
    <3> QED
      BY <1>2
  <2> HIDE DEF l
  <2>2. Min({Allowed, l}) = IF Allowed <= l THEN Allowed ELSE l
    BY <1>3, <2>1, MinOfTwo
  <2> QED
    BY <1>3, <2>1, <2>2 DEF l
<1> HIDE DEF n, Unit
<1>5. decoded' \in Seq(Unit) /\ socket' \in Seq(Unit) /\ decoded' \o socket' = decoded \o socket
  BY <1>1, <1>2, <1>4, StreamMoves
<1>6. tokens' \in Int
  BY <1>1, <1>2, <1>4
<1>7. Exact(Assembler', job') /\ Whole(Stream')
  BY <1>1, <1>5 DEF Exact, Assembler, FetchInv, Stream
<1> QED
  BY <1>1, <1>5, <1>6, <1>7 DEF FetchInv, FetchTypes

\* The peer sends whole messages, about blocks it was asked for.
LEMMA PeerKeeps ==
    ASSUME FetchInv, Serve \/ PeerChokes \/ PeerUnchokes
    PROVE  FetchInv'
<1>1. /\ UNCHANGED <<todo, job, requested, completed, buffer, received, decoded, rate, tokens>>
  BY DEF Serve, PeerChokes, PeerUnchokes, sessionVars, assemblerVars, limiterVars
<1>2. decoded \in Seq(Unit) /\ socket \in Seq(Unit) /\ requests \in Seq(Request) /\ Whole(Stream)
  BY DEF FetchInv, FetchTypes
<1>3. /\ NoJob \in 0..LastPiece /\ 0 \in 0..NumBlocks /\ 1 \in Nat \ {0}
  BY PiecesAssumption DEF NoJob
<1> DEFINE Sends(m) == m \in Seq(Unit) /\ Whole(m) /\ socket' = socket \o m
<1>4. (\E m : Sends(m)) /\ requests' \in Seq(Request)
  <2>1. CASE Serve
    <3> DEFINE r == Head(requests)
    <3>1. /\ requests # <<>> /\ requests' = Tail(requests)
          /\ socket' = socket \o Message("piece", r.piece, r.block, Units(r.block))
      BY <2>1 DEF Serve
    <3>2. r \in Request /\ Tail(requests) \in Seq(Request)
      BY <1>2, <3>1, HeadTailProperties
    <3>3. r.piece \in 0..LastPiece /\ r.block \in Block /\ r.block \in 0..NumBlocks
      BY <3>2, PiecesAssumption DEF Request, Block
    <3>4. Units(r.block) \in Nat \ {0}
      BY PiecesAssumption DEF Units
    <3> HIDE DEF r
    <3>5. /\ Message("piece", r.piece, r.block, Units(r.block)) \in Seq(Unit)
          /\ Whole(Message("piece", r.piece, r.block, Units(r.block)))
      BY <3>3, <3>4, MessageWhole
    <3> QED
      BY <3>1, <3>2, <3>5
  <2>2. CASE PeerChokes
    <3>1. requests' = <<>> /\ socket' = socket \o Message("choke", NoJob, 0, 1)
      BY <2>2 DEF PeerChokes
    <3>2. Message("choke", NoJob, 0, 1) \in Seq(Unit) /\ Whole(Message("choke", NoJob, 0, 1))
      BY <1>3, MessageWhole
    <3>3. requests' \in Seq(Request)
      BY <3>1, EmptySeq
    <3> QED
      BY <3>1, <3>2, <3>3
  <2>3. CASE PeerUnchokes
    <3>1. requests' = requests /\ socket' = socket \o Message("unchoke", NoJob, 0, 1)
      BY <2>3 DEF PeerUnchokes
    <3>2. Message("unchoke", NoJob, 0, 1) \in Seq(Unit) /\ Whole(Message("unchoke", NoJob, 0, 1))
      BY <1>3, MessageWhole
    <3> QED
      BY <1>2, <3>1, <3>2
  <2> QED
    BY <2>1, <2>2, <2>3
<1>5. PICK m : Sends(m)
  BY <1>4
<1> HIDE DEF Unit
<1>6. socket' \in Seq(Unit) /\ decoded \o socket \in Seq(Unit)
      /\ decoded \o (socket \o m) = (decoded \o socket) \o m
  <2>1. decoded \in Seq(Unit) /\ socket \in Seq(Unit) /\ m \in Seq(Unit) /\ socket' = socket \o m
    BY <1>2, <1>5
  <2>2. (decoded \o socket) \o m = decoded \o (socket \o m)
    BY <2>1, UnitsAssociate
  <2>3. socket \o m \in Seq(Unit) /\ decoded \o socket \in Seq(Unit)
    BY <2>1, ConcatProperties
  <2> QED
    BY <2>1, <2>2, <2>3
<1>7. Whole((decoded \o socket) \o m)
  BY <1>2, <1>5, <1>6, WholeAppend DEF Stream
<1>8. Whole(Stream')
  BY <1>1, <1>5, <1>6, <1>7 DEF Stream
<1>9. Exact(Assembler', job')
  BY <1>1 DEF Exact, Assembler, FetchInv
<1> QED
  BY <1>1, <1>4, <1>6, <1>8, <1>9 DEF FetchInv, FetchTypes

\* The invariant holds before anything is sent.
LEMMA InitIsFetch ==
    ASSUME Init
    PROVE  FetchInv
<1>1. LastPiece \in Nat /\ NoJob \in 0..LastPiece
  BY PiecesAssumption DEF NoJob
<1>2. todo = [i \in 1..LastPiece |-> i] /\ job = NoJob /\ requests = <<>>
  BY DEF Init
<1>3. todo \in Seq(1..LastPiece)
  BY <1>1, <1>2
<1>4. socket = <<>> /\ decoded = <<>> /\ rate \in Rates /\ tokens = Burst(rate)
  BY DEF Init
<1>5. rate \in Nat /\ tokens \in Int
  BY <1>4, LimitsAssumption, BurstType
<1>6. decoded \in Seq(Unit) /\ socket \in Seq(Unit) /\ requests \in Seq(Request)
  BY <1>2, <1>4, EmptySeq
<1>7. Whole(Stream)
  <2>1. decoded \o socket = <<>>
    BY <1>4, <1>6, ConcatEmptySeq
  <2>2. DOMAIN (decoded \o socket) = {}
    BY <2>1
  <2> QED
    BY <2>2 DEF Whole, Stream
<1>8. completed = Fresh.completed /\ buffer = Fresh.buffer /\ received = Fresh.received
  BY DEF Init, Fresh
<1>9. Exact(Assembler, job)
  <2>1. Exact(Fresh, job)
    BY FreshExact
  <2> QED
    BY <1>8, <2>1 DEF Exact, Assembler
<1> QED
  BY <1>1, <1>2, <1>3, <1>5, <1>6, <1>7, <1>9 DEF FetchInv, FetchTypes

\* Every step keeps it.
LEMMA StepKeepsFetch ==
    ASSUME FetchInv, [Next]_vars
    PROVE  FetchInv'
<1>1. ASSUME NEW r \in Rates, SetRate(r) PROVE FetchInv'
  <2>1. /\ rate' = r /\ tokens' = Min({tokens, Burst(r)})
        /\ UNCHANGED <<todo, job, requested, completed, buffer, received, requests, socket, decoded>>
    BY <1>1 DEF SetRate, sessionVars, assemblerVars, peerVars
  <2>2. r \in Nat /\ tokens \in Int /\ Burst(r) \in Int
    BY LimitsAssumption, BurstType DEF FetchInv, FetchTypes
  <2>3. tokens' \in Int
    BY <2>1, <2>2, MinOfTwo
  <2>4. Exact(Assembler', job') /\ Whole(Stream')
    BY <2>1 DEF Exact, Assembler, FetchInv, Stream
  <2> QED
    BY <2>1, <2>2, <2>3, <2>4 DEF FetchInv, FetchTypes
<1>2. CASE UNCHANGED vars
  <2>1. UNCHANGED <<todo, job, requested, completed, buffer, received, requests, socket, decoded,
                    rate, tokens>>
    BY <1>2 DEF vars, sessionVars, assemblerVars, peerVars, limiterVars
  <2>2. Exact(Assembler', job') /\ Whole(Stream')
    BY <2>1 DEF Exact, Assembler, FetchInv, Stream
  <2> QED
    BY <2>1, <2>2 DEF FetchInv, FetchTypes
<1> QED
  BY <1>1, <1>2, PieceKeeps, SessionKeeps, ReadKeeps, PeerKeeps DEF Next, Session

\* The invariant, for every behaviour.
LEMMA AlwaysFetch == Spec => []FetchInv
<1>1. Init => FetchInv
  BY InitIsFetch
<1>2. FetchInv /\ [Next]_vars => FetchInv'
  BY StepKeepsFetch
<1> QED
  BY <1>1, <1>2, PTL DEF Spec

\* For every size of pieces, blocks and reads and every limit: the decoder's buffer and
\* the socket hold whole messages in order, however reads are cut and cancelled.
THEOREM StreamAlwaysWhole == Spec => []StreamWhole
<1>1. FetchInv => StreamWhole
  <2> SUFFICES ASSUME FetchInv PROVE StreamWhole
    OBVIOUS
  <2> DEFINE w == decoded \o socket
  <2>1. decoded \in Seq(Unit) /\ socket \in Seq(Unit) /\ Whole(w)
    BY DEF FetchInv, FetchTypes, Stream
  <2>2. w \in Seq(Unit)
    BY <2>1, ConcatProperties
  <2>3. decoded # <<>> => w[1] = Head(decoded) /\ w # <<>>
    <3> SUFFICES ASSUME decoded # <<>> PROVE w[1] = Head(decoded) /\ w # <<>>
      OBVIOUS
    <3>1. 0 \in 0..Len(decoded)
      <4> HIDE DEF Unit
      <4> QED
        BY <2>1
    <3> QED
      BY <2>1, <3>1, StreamConsumed
  <2> HIDE DEF w
  <2>4. /\ w # <<>> => w[1].k = 1
        /\ \A i \in 1..(Len(w) - 1) : w[i + 1].k = IF w[i].k = w[i].len THEN 1 ELSE w[i].k + 1
    BY <2>1, <2>2, WholeFollows
  <2>5. decoded # <<>> => Head(decoded).k = 1
    BY <2>3, <2>4
  <2> QED
    BY <2>4, <2>5 DEF StreamWhole, w
<1> QED
  BY <1>1, AlwaysFetch, PTL

\* For every number and size of blocks: what the assembler counts is the length of the
\* blocks it has, each of them data of the piece being fetched, although requests are
\* repeated, reset and answered after another session finished the piece.
THEOREM BlocksAlwaysExact == Spec => []BlocksExact
<1>1. FetchInv => BlocksExact
  BY DEF FetchInv, Exact, Assembler, BlocksExact
<1> QED
  BY <1>1, AlwaysFetch, PTL

\* A peer that sends what it is asked for never has a piece rejected: when
\* received_bytes reaches expected_length every block is there and is of this piece.
THEOREM PieceNeverRejected == Spec => [][PieceReceived => dropped' = dropped]_vars
<1>1. FetchInv /\ [Next]_vars => [PieceReceived => dropped' = dropped]_vars
  BY PieceKeeps
<1> QED
  BY <1>1, AlwaysFetch, PTL DEF Spec

=============================================================================
