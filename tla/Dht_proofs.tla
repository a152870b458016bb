------------------------------ MODULE Dht_proofs ------------------------------
(***************************************************************************)
(* What holds of the distributed hash table, for any network, ids of any   *)
(* width and buckets, short lists and searches of any size.                *)
(***************************************************************************)
EXTENDS Dht, FiniteSetTheorems, FunctionTheorems, SequenceTheorems, WellFoundedInduction, TLAPS

-----------------------------------------------------------------------------
(* Numbers, and functions defined by recursion on them.                    *)

\* A set of numbers has a least one.
LEMMA Least ==
    ASSUME NEW T \in SUBSET Nat, T # {}
    PROVE  \E m \in T : \A k \in T : m <= k
<1>1. PICK m \in T : \A k \in T : ~(<<k, m>> \in OpToRel(<, Nat))
  BY NatLessThanWellFounded, WFMin, Zenon
<1>2. \A k \in T : ~(k < m)
  BY <1>1 DEF OpToRel
<1> QED
  BY <1>2

\* A bounded set of numbers has a greatest one, and Max is that one.
LEMMA MaxIsGreatest ==
    ASSUME NEW n \in Nat, NEW T \in SUBSET (0..n), T # {}
    PROVE  Max(T) \in T /\ \A k \in T : k <= Max(T)
<1> DEFINE U == {j \in Nat : n - j \in T}
<1>1. U # {}
  <2>1. PICK t \in T : TRUE
    OBVIOUS
  <2>2. n - t \in U
    BY <2>1
  <2> QED
    BY <2>2
<1>2. PICK m \in U : \A k \in U : m <= k
  BY <1>1, Least
<1>3. n - m \in T /\ \A k \in T : n - m >= k
  <2>1. \A k \in T : n - k \in U
    OBVIOUS
  <2> QED
    BY <1>2, <2>1
<1>4. Max(T) \in T /\ \A k \in T : Max(T) >= k
  BY <1>3 DEF Max
<1> QED
  BY <1>4

\* h is the function with the given start and the given step from k - 1 to k.
Solves(h, x, step, n) == h[0] = x /\ \A k \in 1..n : h[k] = step[<<k, h[k - 1]>>]

\* Every recursion over 0..n within a set has a solution.
LEMMA RecursionExists ==
    ASSUME NEW S, NEW x \in S, NEW step \in [Nat \X S -> S], NEW n \in Nat
    PROVE  \E h \in [0..n -> S] : Solves(h, x, step, n)
<1> DEFINE Solution(h, m) == h[0] = x /\ \A k \in 1..m : h[k] = step[<<k, h[k - 1]>>]
           T == {m \in Nat : ~\E h \in [0..m -> S] : Solution(h, m)}
<1>1. ASSUME T # {}
      PROVE  FALSE
  <2>1. PICK m \in T : \A k \in T : m <= k
    BY <1>1, Least
  <2>2. m # 0
    <3>1. Solution([k \in 0..0 |-> x], 0) /\ [k \in 0..0 |-> x] \in [0..0 -> S]
      OBVIOUS
    <3> QED
      BY <2>1, <3>1
  <2>3. m - 1 \in Nat /\ m - 1 \notin T
    BY <2>1, <2>2
  <2>4. PICK h \in [0..(m - 1) -> S] : Solution(h, m - 1)
    BY <2>3
  <2> DEFINE g == [k \in 0..m |-> IF k = m THEN step[<<m, h[m - 1]>>] ELSE h[k]]
  <2>5. h[m - 1] \in S /\ step[<<m, h[m - 1]>>] \in S
    BY <2>3
  <2>6. g \in [0..m -> S]
    BY <2>5
  <2>7. Solution(g, m)
    <3>1. \A k \in 0..(m - 1) : g[k] = h[k]
      BY <2>3
    <3>2. g[0] = x
      BY <2>3, <2>4, <3>1
    <3>3. \A k \in 1..m : g[k] = step[<<k, g[k - 1]>>]
      <4>1. TAKE k \in 1..m
      <4>2. CASE k = m
        <5>1. g[m] = step[<<m, h[m - 1]>>] /\ m - 1 \in 0..(m - 1)
          BY <2>1, <2>2
        <5> QED
          BY <4>2, <3>1, <5>1
      <4>3. CASE k # m
        BY <4>3, <3>1, <2>3, <2>4
      <4> QED
        BY <4>2, <4>3
    <3> QED
      BY <3>2, <3>3
  <2> QED
    BY <2>1, <2>6, <2>7
<1>2. \E h \in [0..n -> S] : Solution(h, n)
  BY <1>1
<1> QED
  BY <1>2 DEF Solves

\* What a recursion starts in and every step of it stays in, all of it is in.
LEMMA RecursionStays ==
    ASSUME NEW S, NEW n \in Nat, NEW h, h[0] \in S, \A k \in 1..n : h[k - 1] \in S => h[k] \in S
    PROVE  \A k \in 0..n : h[k] \in S
<1> DEFINE T == {k \in 0..n : h[k] \notin S}
<1>1. ASSUME T # {}
      PROVE  FALSE
  <2>0. T \in SUBSET Nat
    OBVIOUS
  <2>1. PICK m \in T : \A k \in T : m <= k
    <3> HIDE DEF T
    <3> QED
      BY <1>1, <2>0, Least
  <2>2. m # 0 /\ m \in 1..n /\ m - 1 \in 0..n
    BY <2>1
  <2>3. h[m - 1] \in S
    BY <2>1, <2>2
  <2> QED
    BY <2>1, <2>2, <2>3
<1> QED
  BY <1>1

-----------------------------------------------------------------------------
(* Sets in order: what sorting and filtering a list are built from.        *)

\* `order` is a strict total order of S.
Orders(order, S) ==
    /\ \A x \in S : <<x, x>> \notin order
    /\ \A x, y \in S : x # y => <<x, y>> \in order \/ <<y, x>> \in order
    /\ \A x, y, z \in S : <<x, y>> \in order /\ <<y, z>> \in order => <<x, z>> \in order

\* The members of S that come before x.
Below(S, order, x) == {y \in S : <<y, x>> \in order}

\* A finite set in order holds each of its members once, the lesser ones first.
LEMMA InOrderLists ==
    ASSUME NEW S, IsFiniteSet(S), NEW order, Orders(order, S)
    PROVE  /\ Cardinality(S) \in Nat
           /\ DOMAIN InOrder(S, order) = 1..Cardinality(S)
           /\ \A r \in 1..Cardinality(S) : InOrder(S, order)[r] \in S
           /\ \A x \in S : \E r \in 1..Cardinality(S) : InOrder(S, order)[r] = x
           /\ \A r, q \in 1..Cardinality(S) :
                 r < q => <<InOrder(S, order)[r], InOrder(S, order)[q]>> \in order
           /\ \A r \in 1..Cardinality(S) :
                 Cardinality(Below(S, order, InOrder(S, order)[r])) = r - 1
<1> DEFINE Before(x) == {y \in S : <<y, x>> \in order}
           n == Cardinality(S)
           rank == [x \in S |-> Cardinality(Before(x)) + 1]
<1>1. n \in Nat
  BY FS_CardinalityType
<1>2. \A x \in S : IsFiniteSet(Before(x)) /\ Cardinality(Before(x)) \in Nat
  BY FS_Subset, FS_CardinalityType
<1>3. \A x \in S : Cardinality(Before(x)) < n
  <2>1. TAKE x \in S
  <2>2. Before(x) \subseteq S /\ Before(x) # S
    BY DEF Orders
  <2>3. Cardinality(Before(x)) <= n /\ (n = Cardinality(Before(x)) => S = Before(x))
    BY <2>2, FS_Subset
  <2> QED
    BY <2>2, <2>3, <1>1, <1>2
<1>4. ASSUME NEW x \in S, NEW y \in S, <<x, y>> \in order
      PROVE  rank[x] < rank[y]
  <2>1. Before(x) \subseteq Before(y) /\ x \in Before(y) /\ x \notin Before(x)
    BY <1>4 DEF Orders
  <2>2. /\ Cardinality(Before(x)) <= Cardinality(Before(y))
        /\ Cardinality(Before(y)) = Cardinality(Before(x)) => Before(y) = Before(x)
    BY <2>1, <1>2, FS_Subset
  <2> QED
    BY <2>1, <2>2, <1>2
<1>5. rank \in [S -> 1..n]
  BY <1>1, <1>2, <1>3
<1> HIDE DEF rank, n
<1>6. \A x, y \in S : rank[x] = rank[y] => x = y
  <2>1. \A x, y \in S : rank[x] = rank[y] => ~(rank[x] < rank[y]) /\ ~(rank[y] < rank[x])
    BY <1>1, <1>5
  <2> QED
    BY <1>4, <2>1 DEF Orders
<1>7. rank \in Injection(S, 1..n)
  BY <1>5, <1>6, Fun_IsInj
<1>8. Cardinality(1..n) = n /\ IsFiniteSet(1..n)
  BY <1>1, FS_Interval
<1>9. rank \in Surjection(S, 1..n)
  BY <1>7, <1>8, FS_Injection DEF n
<1>10. \A r \in 1..n : \E x \in S : rank[x] = r
  BY <1>9, Fun_SurjectionProperties
<1> DEFINE list == InOrder(S, order)
<1>11. DOMAIN list = 1..n /\ \A r \in 1..n : list[r] = CHOOSE x \in S : Cardinality(Before(x)) = r - 1
  BY DEF InOrder, n
<1>12. \A r \in 1..n : list[r] \in S /\ rank[list[r]] = r
  <2>1. TAKE r \in 1..n
  <2>2. PICK x \in S : rank[x] = r
    BY <1>10
  <2>3. Cardinality(Before(x)) = r - 1
    BY <2>2, <1>2, <1>1 DEF rank
  <2>4. list[r] \in S /\ Cardinality(Before(list[r])) = r - 1
    <3> HIDE DEF list, Before
    <3> QED
      BY <2>3, <1>11, Zenon
  <2> QED
    BY <2>4, <1>1 DEF rank
<1> HIDE DEF list
<1>13. \A x \in S : \E r \in 1..n : list[r] = x
  BY <1>5, <1>6, <1>12
<1>14. \A r, q \in 1..n : r < q => <<list[r], list[q]>> \in order
  <2>1. TAKE r, q \in 1..n
  <2>2. HAVE r < q
  <2>3. list[r] \in S /\ list[q] \in S /\ rank[list[r]] = r /\ rank[list[q]] = q /\ list[r] # list[q]
    BY <1>12, <2>2, <1>1
  <2>4. ~(<<list[q], list[r]>> \in order)
    BY <2>2, <2>3, <1>4, <1>1
  <2> QED
    BY <2>3, <2>4 DEF Orders
<1>15. \A r \in 1..n : Cardinality(Before(list[r])) = r - 1
  <2>1. TAKE r \in 1..n
  <2>2. list[r] \in S /\ rank[list[r]] = r
    BY <1>12
  <2>3. rank[list[r]] = Cardinality(Before(list[r])) + 1
    BY <2>2 DEF rank
  <2>4. Cardinality(Before(list[r])) \in Nat
    BY <1>2, <2>2
  <2> HIDE DEF Before
  <2> QED
    BY <1>1, <2>2, <2>3, <2>4
<1>16. \A r \in 1..n : Cardinality(Below(S, order, list[r])) = r - 1
  BY <1>15 DEF Below
<1> QED
  BY <1>1, <1>11, <1>12, <1>13, <1>14, <1>16 DEF list, n

\* The numbers of a set in order are what Part goes by.
LEMMA AscendingOrders ==
    ASSUME NEW n \in Nat, NEW S \in SUBSET (1..n)
    PROVE  IsFiniteSet(S) /\ Orders(Ascending(S), S)
<1>1. IsFiniteSet(1..n)
  BY FS_Interval
<1>2. IsFiniteSet(S)
  BY <1>1, FS_Subset
<1> QED
  BY <1>2 DEF Ascending, Orders

\* Part keeps exactly the elements at the given places, in their order.
LEMMA PartKeeps ==
    ASSUME NEW V, NEW seq \in Seq(V), NEW S \in SUBSET (DOMAIN seq)
    PROVE  /\ Part(seq, S) \in Seq(V)
           /\ Len(Part(seq, S)) = Cardinality(S)
           /\ \A r \in DOMAIN Part(seq, S) : \E i \in S : Part(seq, S)[r] = seq[i]
           /\ \A i \in S : \E r \in DOMAIN Part(seq, S) : Part(seq, S)[r] = seq[i]
           /\ \A r, q \in DOMAIN Part(seq, S) : r < q =>
                 \E i, j \in S : i < j /\ Part(seq, S)[r] = seq[i] /\ Part(seq, S)[q] = seq[j]
<1> DEFINE places == InOrder(S, Ascending(S))
           n == Cardinality(S)
<1>1. Len(seq) \in Nat /\ DOMAIN seq = 1..Len(seq) /\ \A i \in DOMAIN seq : seq[i] \in V
  BY LenProperties
<1>2. /\ n \in Nat /\ DOMAIN places = 1..n
      /\ \A r \in 1..n : places[r] \in S
      /\ \A x \in S : \E r \in 1..n : places[r] = x
      /\ \A r, q \in 1..n : r < q => <<places[r], places[q]>> \in Ascending(S)
  <2>1. S \in SUBSET (1..Len(seq))
    BY <1>1
  <2>2. IsFiniteSet(S) /\ Orders(Ascending(S), S)
    BY <1>1, <2>1, AscendingOrders
  <2>3. /\ Cardinality(S) \in Nat /\ DOMAIN InOrder(S, Ascending(S)) = 1..Cardinality(S)
        /\ \A r \in 1..Cardinality(S) : InOrder(S, Ascending(S))[r] \in S
    BY <2>2, InOrderLists
  <2>4. \A x \in S : \E r \in 1..Cardinality(S) : InOrder(S, Ascending(S))[r] = x
    BY <2>2, InOrderLists
  <2>5. \A r, q \in 1..Cardinality(S) :
           r < q => <<InOrder(S, Ascending(S))[r], InOrder(S, Ascending(S))[q]>> \in Ascending(S)
    BY <2>2, InOrderLists
  <2> QED
    BY <2>3, <2>4, <2>5
<1>3. Part(seq, S) = [r \in DOMAIN places |-> seq[places[r]]]
  BY DEF Part
<1> HIDE DEF places, n
<1>4. Part(seq, S) = [r \in 1..n |-> seq[places[r]]]
  BY <1>2, <1>3
<1>5. Part(seq, S) \in Seq(V) /\ Len(Part(seq, S)) = n /\ DOMAIN Part(seq, S) = 1..n
  <2>1. \A r \in 1..n : seq[places[r]] \in V
    BY <1>1, <1>2
  <2> QED
    BY <1>2, <1>4, <2>1
<1>6. \A r, q \in 1..n : r < q => places[r] \in S /\ places[q] \in S /\ places[r] < places[q]
  BY <1>2 DEF Ascending
<1> DEFINE part == Part(seq, S)
<1>7. \A r, q \in DOMAIN part : r < q => \E i, j \in S : i < j /\ part[r] = seq[i] /\ part[q] = seq[j]
  BY <1>4, <1>5, <1>6
<1>8. \A i \in S : \E r \in DOMAIN part : part[r] = seq[i]
  <2>1. TAKE i \in S
  <2>2. PICK r \in 1..n : places[r] = i
    BY <1>2
  <2>3. part[r] = seq[i] /\ r \in DOMAIN part
    BY <2>2, <1>4, <1>5
  <2> QED
    BY <2>3
<1>9. \A r \in DOMAIN part : \E i \in S : part[r] = seq[i]
  BY <1>2, <1>4, <1>5
<1>10. part \in Seq(V) /\ Len(part) = Cardinality(S)
  BY <1>5 DEF n
<1> HIDE DEF part
<1> QED
  BY <1>7, <1>8, <1>9, <1>10 DEF part

-----------------------------------------------------------------------------
(* Ids: their common prefix, and the order of their distances to a target. *)

\* leading_zeros counts exactly the bits before the first one that differs.
LEMMA CommonPrefixIs ==
    ASSUME NEW a \in NodeId, NEW b \in NodeId
    PROVE  /\ CommonPrefix(a, b) \in 0..Bits
           /\ \A i \in 1..CommonPrefix(a, b) : a[i] = b[i]
           /\ CommonPrefix(a, b) < Bits =>
                 a[CommonPrefix(a, b) + 1] # b[CommonPrefix(a, b) + 1]
           /\ \A z \in 0..Bits : (\A i \in 1..z : a[i] = b[i]) => z <= CommonPrefix(a, b)
           /\ a # b => CommonPrefix(a, b) < Bits
<1> DEFINE T == {z \in 0..Bits : \A i \in 1..z : a[i] = b[i]}
           c == CommonPrefix(a, b)
<1>1. Bits \in Nat
  BY BitsAssumption
<1>2. 0 \in T /\ T \in SUBSET (0..Bits)
  BY <1>1
<1>3. c \in T /\ \A z \in T : z <= c
  <2>1. c = Max(T)
    BY DEF CommonPrefix
  <2> HIDE DEF T, c
  <2> QED
    BY <1>1, <1>2, <2>1, MaxIsGreatest
<1> HIDE DEF c
<1>4. c \in 0..Bits /\ \A i \in 1..c : a[i] = b[i]
  BY <1>3
<1>5. ASSUME c < Bits, a[c + 1] = b[c + 1]
      PROVE  FALSE
  <2>1. c + 1 \in 0..Bits
    BY <1>4, <1>5, <1>1
  <2>2. \A i \in 1..(c + 1) : a[i] = b[i]
    BY <1>4, <1>5
  <2>3. c + 1 <= c
    BY <1>3, <2>1, <2>2
  <2> QED
    BY <1>4, <2>3
<1>6. ASSUME c = Bits
      PROVE  a = b
  BY <1>4, <1>6 DEF NodeId
<1> QED
  BY <1>1, <1>3, <1>4, <1>5, <1>6 DEF c

\* Two ids whose first difference is known have that common prefix.
LEMMA CommonPrefixUnique ==
    ASSUME NEW a \in NodeId, NEW b \in NodeId, NEW c \in 0..(Bits - 1),
           \A i \in 1..c : a[i] = b[i], a[c + 1] # b[c + 1]
    PROVE  CommonPrefix(a, b) = c
<1>1. Bits \in Nat
  BY BitsAssumption
<1>2. c <= CommonPrefix(a, b) /\ CommonPrefix(a, b) \in 0..Bits
  BY <1>1, CommonPrefixIs
<1>3. ~(c + 1 <= CommonPrefix(a, b))
  BY <1>2, CommonPrefixIs
<1> QED
  BY <1>2, <1>3

\* The first difference of two ids does not depend on which one comes first.
LEMMA CommonPrefixSymmetric ==
    ASSUME NEW a \in NodeId, NEW b \in NodeId, a # b
    PROVE  CommonPrefix(a, b) = CommonPrefix(b, a)
<1>1. Bits \in Nat /\ CommonPrefix(a, b) \in 0..(Bits - 1)
  BY BitsAssumption, CommonPrefixIs
<1>2. /\ \A i \in 1..CommonPrefix(a, b) : b[i] = a[i]
      /\ b[CommonPrefix(a, b) + 1] # a[CommonPrefix(a, b) + 1]
  BY <1>1, CommonPrefixIs
<1> QED
  BY <1>1, <1>2, CommonPrefixUnique

\* Distances to a target are totally ordered, and different ids have different ones.
LEMMA CloserOrders ==
    ASSUME NEW t \in NodeId
    PROVE  /\ \A a \in NodeId : ~Closer(a, a, t)
           /\ \A a, b \in NodeId : a # b => Closer(a, b, t) \/ Closer(b, a, t)
           /\ \A a, b, c \in NodeId : Closer(a, b, t) /\ Closer(b, c, t) => Closer(a, c, t)
<1>0. Bits \in Nat
  BY BitsAssumption
<1>1. \A a \in NodeId : ~Closer(a, a, t)
  BY DEF Closer
<1>2. ASSUME NEW a \in NodeId, NEW b \in NodeId, a # b
      PROVE  Closer(a, b, t) \/ Closer(b, a, t)
  <2>1. CommonPrefix(a, b) \in 0..(Bits - 1) /\ CommonPrefix(a, b) = CommonPrefix(b, a)
    BY <1>0, <1>2, CommonPrefixIs, CommonPrefixSymmetric
  <2> DEFINE i == CommonPrefix(a, b) + 1
  <2>2. i \in 1..Bits /\ a[i] # b[i]
    BY <1>0, <1>2, <2>1, CommonPrefixIs
  <2>3. a[i] \in {0, 1} /\ b[i] \in {0, 1} /\ t[i] \in {0, 1}
    BY <2>2 DEF NodeId
  <2>4. a[i] = t[i] \/ b[i] = t[i]
    BY <2>2, <2>3
  <2> QED
    BY <1>2, <2>1, <2>4 DEF Closer
<1>3. ASSUME NEW a \in NodeId, NEW b \in NodeId, NEW c \in NodeId,
             Closer(a, b, t), Closer(b, c, t)
      PROVE  Closer(a, c, t)
  <2> DEFINE i == CommonPrefix(a, b)
             j == CommonPrefix(b, c)
  <2>1. a # b /\ b # c /\ a[i + 1] = t[i + 1] /\ b[j + 1] = t[j + 1]
    BY <1>3 DEF Closer
  <2>2. /\ i \in 0..(Bits - 1) /\ (\A k \in 1..i : a[k] = b[k]) /\ a[i + 1] # b[i + 1]
        /\ j \in 0..(Bits - 1) /\ (\A k \in 1..j : b[k] = c[k]) /\ b[j + 1] # c[j + 1]
    BY <1>0, <2>1, CommonPrefixIs
  <2> HIDE DEF i, j
  <2>3. CASE i < j
    <3>1. (\A k \in 1..i : a[k] = c[k]) /\ a[i + 1] # c[i + 1]
      BY <2>2, <2>3
    <3>2. CommonPrefix(a, c) = i
      BY <2>2, <3>1, CommonPrefixUnique
    <3> QED
      BY <2>1, <3>1, <3>2 DEF Closer
  <2>4. CASE j < i
    <3>1. (\A k \in 1..j : a[k] = c[k]) /\ a[j + 1] # c[j + 1] /\ a[j + 1] = b[j + 1]
      BY <2>2, <2>4
    <3>2. CommonPrefix(a, c) = j
      BY <2>2, <3>1, CommonPrefixUnique
    <3> QED
      BY <2>1, <3>1, <3>2 DEF Closer
  <2>5. i # j
    BY <2>1, <2>2
  <2> QED
    BY <2>2, <2>3, <2>4, <2>5
<1> QED
  BY <1>1, <1>2, <1>3

\* The sort key of sort_by_key, with the old place where keys are equal, is an order.
LEMMA NearerOrders ==
    ASSUME NEW at, NEW order, Orders(order, DOMAIN at), \A x \in DOMAIN at : at[x].id \in NodeId,
           NEW t \in NodeId
    PROVE  Orders(Nearer(at, order, t), DOMAIN at)
<1> DEFINE N == Nearer(at, order, t)
<1>1. \A x, y \in DOMAIN at : <<x, y>> \in N <=>
         \/ Closer(at[x].id, at[y].id, t)
         \/ at[x].id = at[y].id /\ <<x, y>> \in order
  BY DEF Nearer
<1> HIDE DEF N
<1>2. \A x \in DOMAIN at : <<x, x>> \notin N
  BY <1>1, CloserOrders DEF Orders
<1>3. \A x, y \in DOMAIN at : x # y => <<x, y>> \in N \/ <<y, x>> \in N
  <2>1. TAKE x, y \in DOMAIN at
  <2>2. HAVE x # y
  <2>3. CASE at[x].id = at[y].id
    BY <1>1, <2>2, <2>3 DEF Orders
  <2>4. CASE at[x].id # at[y].id
    <3>1. Closer(at[x].id, at[y].id, t) \/ Closer(at[y].id, at[x].id, t)
      BY <2>4, CloserOrders
    <3> QED
      BY <1>1, <3>1
  <2> QED
    BY <2>3, <2>4
<1>4. \A x, y, z \in DOMAIN at : <<x, y>> \in N /\ <<y, z>> \in N => <<x, z>> \in N
  BY <1>1, CloserOrders DEF Orders
<1> QED
  BY <1>2, <1>3, <1>4 DEF Orders, N

\* `list` holds the contacts at the places D, each place once, closest first.
IsSorted(list, at, D, t) ==
    /\ Len(list) = Cardinality(D)
    /\ \A r \in DOMAIN list : \E x \in D : list[r] = at[x]
    /\ \A x \in D : \E r \in DOMAIN list : list[r] = at[x]
    /\ \A r, q \in DOMAIN list : r < q =>
          \E x, y \in D : /\ x # y /\ list[r] = at[x] /\ list[q] = at[y]
                          /\ Closer(at[x].id, at[y].id, t) \/ at[x].id = at[y].id

\* sort_by_key returns the sorted list.
LEMMA SortedList ==
    ASSUME NEW V, NEW D, IsFiniteSet(D), NEW at \in [D -> V], \A x \in D : at[x].id \in NodeId,
           NEW order, Orders(order, D), NEW t \in NodeId
    PROVE  /\ SortByDistance(at, order, t) \in Seq(V)
           /\ IsSorted(SortByDistance(at, order, t), at, D, t)
<1> DEFINE N == Nearer(at, order, t)
           places == InOrder(DOMAIN at, N)
           n == Cardinality(D)
           list == SortByDistance(at, order, t)
<1>1. DOMAIN at = D
  OBVIOUS
<1>2. Orders(N, D)
  BY <1>1, NearerOrders
<1>3. /\ n \in Nat /\ DOMAIN places = 1..n
      /\ \A r \in 1..n : places[r] \in D
      /\ \A x \in D : \E r \in 1..n : places[r] = x
      /\ \A r, q \in 1..n : r < q => <<places[r], places[q]>> \in N
  <2> HIDE DEF N
  <2> QED
    BY <1>1, <1>2, InOrderLists
<1>4. list = [r \in 1..n |-> at[places[r]]]
  BY <1>3 DEF SortByDistance
<1>5. \A r, q \in 1..n : r < q =>
         /\ places[r] # places[q]
         /\ \/ Closer(at[places[r]].id, at[places[q]].id, t)
            \/ at[places[r]].id = at[places[q]].id
  <2>1. \A x, y \in D : <<x, y>> \in N =>
           x # y /\ (Closer(at[x].id, at[y].id, t) \/ at[x].id = at[y].id)
    BY <1>2 DEF Orders, Nearer
  <2> HIDE DEF N, places
  <2> QED
    BY <1>3, <2>1
<1> HIDE DEF places, N, n, list
<1>6. list \in Seq(V) /\ Len(list) = n /\ DOMAIN list = 1..n
  <2>1. \A r \in 1..n : at[places[r]] \in V
    BY <1>3
  <2> QED
    BY <1>3, <1>4, <2>1
<1>7. \A r \in DOMAIN list : \E x \in D : list[r] = at[x]
  BY <1>3, <1>4, <1>6
<1>8. \A x \in D : \E r \in DOMAIN list : list[r] = at[x]
  <2>1. TAKE x \in D
  <2>2. PICK r \in 1..n : places[r] = x
    BY <1>3
  <2>3. list[r] = at[x] /\ r \in DOMAIN list
    BY <2>2, <1>4, <1>6
  <2> QED
    BY <2>3
<1>9. \A r, q \in DOMAIN list : r < q =>
         \E x, y \in D : /\ x # y /\ list[r] = at[x] /\ list[q] = at[y]
                         /\ Closer(at[x].id, at[y].id, t) \/ at[x].id = at[y].id
  <2>1. TAKE r, q \in DOMAIN list
  <2>2. HAVE r < q
  <2>3. /\ places[r] \in D /\ places[q] \in D /\ list[r] = at[places[r]] /\ list[q] = at[places[q]]
        /\ places[r] # places[q]
        /\ Closer(at[places[r]].id, at[places[q]].id, t) \/ at[places[r]].id = at[places[q]].id
    BY <1>3, <1>4, <1>5, <1>6, <2>2
  <2> QED
    BY <2>3
<1>10. Len(list) = Cardinality(D)
  BY <1>6 DEF n
<1> QED
  BY <1>6, <1>7, <1>8, <1>9, <1>10 DEF list, IsSorted

-----------------------------------------------------------------------------
(* Routing tables: what every insertion keeps.                             *)

\* Contacts a node may hear of: their ids are true, but for placeholders.
Peers == {c \in [id : NodeId, addr : Node] : "pseudo" \in Behaviours \/ c.id = IdOf[c.addr]}

\* The last bucket of a table carries the prefix length of the one before it: both
\* halves of a split bucket get the same.  Bucket i holds what shares i - 1 bits with
\* the own id, from its split, and what shares i, from after the next one.  No bucket
\* holds an id twice.
Buckets == [prefix_len : 0..Bits, nodes : Seq(Peers)]
Belongs(local, id, i, last) ==
    /\ CommonPrefix(local, id) >= i - 1
    /\ i < last => CommonPrefix(local, id) <= IF i + 1 = last THEN i - 1 ELSE i
NoDoubles(nodes) == \A k, l \in 1..Len(nodes) : k < l => nodes[k].id # nodes[l].id
Tables(local) ==
    {t \in Seq(Buckets) :
        /\ t # <<>>
        /\ \A i \in 1..Len(t) : t[i].prefix_len = IF i < Len(t) THEN i ELSE i - 1
        /\ \A i \in 1..Len(t) : \A k \in 1..Len(t[i].nodes) :
              Belongs(local, t[i].nodes[k].id, i, Len(t))
        /\ \A i \in 1..Len(t) : NoDoubles(t[i].nodes)}

\* What a table of the right shape is, in terms the provers like.
LEMMA TableIs ==
    ASSUME NEW local \in NodeId, NEW t \in Tables(local)
    PROVE  /\ Len(t) \in Nat /\ Len(t) >= 1 /\ DOMAIN t = 1..Len(t)
           /\ t \in Seq(Buckets)
           /\ \A i \in 1..Len(t) : /\ t[i] \in Buckets
                                   /\ t[i].prefix_len = IF i < Len(t) THEN i ELSE i - 1
                                   /\ t[i].nodes \in Seq(Peers)
                                   /\ Len(t[i].nodes) \in Nat
                                   /\ DOMAIN t[i].nodes = 1..Len(t[i].nodes)
           /\ \A i \in 1..Len(t) : \A k \in 1..Len(t[i].nodes) :
                 /\ t[i].nodes[k] \in Peers
                 /\ Belongs(local, t[i].nodes[k].id, i, Len(t))
           /\ \A i \in 1..Len(t) : NoDoubles(t[i].nodes)
<1>1. t \in Seq(Buckets) /\ t # <<>>
  BY DEF Tables
<1>2. Len(t) \in Nat /\ Len(t) >= 1 /\ DOMAIN t = 1..Len(t) /\ \A i \in 1..Len(t) : t[i] \in Buckets
  BY <1>1, LenProperties, EmptySeq
<1>3. \A i \in 1..Len(t) : t[i].nodes \in Seq(Peers)
  BY <1>2 DEF Buckets
<1>4. \A s \in Seq(Peers) : Len(s) \in Nat /\ DOMAIN s = 1..Len(s) /\ \A k \in 1..Len(s) : s[k] \in Peers
  BY LenProperties
<1> QED
  BY <1>1, <1>2, <1>3, <1>4 DEF Tables

\* bucket_index: the bucket found for an id is one it belongs in.
LEMMA BucketIndexIs ==
    ASSUME NEW local \in NodeId, NEW t \in Tables(local), NEW id \in NodeId
    PROVE  /\ BucketIndex(t, local, id) \in 1..Len(t)
           /\ Belongs(local, id, BucketIndex(t, local, id), Len(t))
<1> DEFINE n == Len(t)
           p == CommonPrefix(local, id)
           fits == {i \in DOMAIN t : p >= t[i].prefix_len}
<1>1. /\ n \in Nat /\ n >= 1 /\ DOMAIN t = 1..n
      /\ \A i \in 1..n : t[i].prefix_len = IF i < n THEN i ELSE i - 1
  BY TableIs
<1>2. Bits \in Nat /\ p \in Nat
  BY BitsAssumption, CommonPrefixIs
<1>3. BucketIndex(t, local, id) = IF fits = {} THEN 1 ELSE Max(fits)
  BY DEF BucketIndex
<1>4. \A i \in 1..n : i \in fits <=> p >= (IF i < n THEN i ELSE i - 1)
  BY <1>1
<1>5. fits \in SUBSET (0..n) /\ fits \subseteq 1..n
  BY <1>1
<1> HIDE DEF p, fits, n
<1>6. CASE fits = {}
  BY <1>1, <1>2, <1>3, <1>4, <1>6 DEF Belongs, n, p
<1>7. CASE fits # {}
  <2>1. Max(fits) \in fits /\ \A k \in fits : k <= Max(fits)
    BY <1>1, <1>5, <1>7, MaxIsGreatest
  <2>2. PICK m : m = Max(fits)
    OBVIOUS
  <2>3. m \in 1..n /\ p >= (IF m < n THEN m ELSE m - 1)
    BY <2>1, <2>2, <1>4, <1>5
  <2>4. m < n => m + 1 \in 1..n /\ m + 1 \notin fits
    BY <2>1, <2>2, <2>3, <1>1
  <2>5. m < n => p <= IF m + 1 = n THEN m - 1 ELSE m
    <3>1. SUFFICES ASSUME m < n
                   PROVE  p <= IF m + 1 = n THEN m - 1 ELSE m
      OBVIOUS
    <3>2. PICK q \in 1..n : q = m + 1 /\ q \notin fits
      BY <2>4, <3>1
    <3>3. ~(p >= (IF q < n THEN q ELSE q - 1))
      BY <1>4, <3>2
    <3> QED
      BY <1>1, <1>2, <2>3, <3>1, <3>2, <3>3
  <2>6. p >= m - 1
    BY <2>3, <1>1, <1>2
  <2> QED
    BY <1>3, <1>7, <2>2, <2>3, <2>5, <2>6 DEF Belongs, n, p
<1> QED
  BY <1>6, <1>7

\* What Belongs says of a list of contacts.
AllBelong(local, nodes, i, last) == \A k \in 1..Len(nodes) : Belongs(local, nodes[k].id, i, last)

\* What it takes to be a table of the right shape.
LEMMA IsTable ==
    ASSUME NEW local, NEW u \in Seq(Buckets), u # <<>>,
           \A i \in 1..Len(u) : u[i].prefix_len = IF i < Len(u) THEN i ELSE i - 1,
           \A i \in 1..Len(u) : AllBelong(local, u[i].nodes, i, Len(u)),
           \A i \in 1..Len(u) : NoDoubles(u[i].nodes)
    PROVE  u \in Tables(local)
BY DEF Tables, AllBelong

\* Some contacts of a bucket are as different as all of them.
LEMMA PartDistinct ==
    ASSUME NEW nodes \in Seq(Peers), NoDoubles(nodes), NEW S \in SUBSET (DOMAIN nodes)
    PROVE  \A r, q \in DOMAIN Part(nodes, S) : r < q => Part(nodes, S)[r].id # Part(nodes, S)[q].id
<1>1. DOMAIN nodes = 1..Len(nodes)
  BY LenProperties
<1>2. PICK part : part = Part(nodes, S)
  OBVIOUS
<1>3. \A r, q \in DOMAIN part : r < q => \E i, j \in S : i < j /\ part[r] = nodes[i] /\ part[q] = nodes[j]
  BY <1>2, PartKeeps
<1>4. \A i, j \in S : i < j => nodes[i].id # nodes[j].id
  BY <1>1 DEF NoDoubles
<1>5. \A r, q \in DOMAIN part : r < q => part[r].id # part[q].id
  BY <1>3, <1>4
<1> QED
  BY <1>2, <1>5

\* Storing a contact in the bucket found for it keeps the shape of the table.
LEMMA PutKeeps ==
    ASSUME NEW local \in NodeId, NEW t \in Tables(local), NEW c \in Peers,
           NEW i \in 1..Len(t), Belongs(local, c.id, i, Len(t))
    PROVE  [t EXCEPT ![i] = Put(@, c)] \in Tables(local)
<1> DEFINE old == t[i].nodes
           kept == Part(old, {k \in DOMAIN old : old[k].id # c.id})
           new == Append(kept, c)
           u == [t EXCEPT ![i] = Put(@, c)]
<1>1. /\ Len(t) \in Nat /\ Len(t) >= 1 /\ DOMAIN t = 1..Len(t) /\ t \in Seq(Buckets)
      /\ t[i] \in Buckets /\ old \in Seq(Peers) /\ DOMAIN old = 1..Len(old)
      /\ \A k \in 1..Len(old) : Belongs(local, old[k].id, i, Len(t))
      /\ NoDoubles(old)
  BY TableIs
<1>2. /\ kept \in Seq(Peers)
      /\ \A r \in DOMAIN kept : \E k \in DOMAIN old : kept[r] = old[k] /\ old[k].id # c.id
      /\ \A r, q \in DOMAIN kept : r < q => kept[r].id # kept[q].id
  <2> DEFINE S == {k \in DOMAIN old : old[k].id # c.id}
  <2>1. S \in SUBSET (DOMAIN old)
    OBVIOUS
  <2> HIDE DEF S
  <2>2. /\ Part(old, S) \in Seq(Peers)
        /\ \A r \in DOMAIN Part(old, S) : \E k \in S : Part(old, S)[r] = old[k]
    BY <1>1, <2>1, PartKeeps
  <2>3. \A r \in DOMAIN Part(old, S) : \E k \in DOMAIN old : Part(old, S)[r] = old[k] /\ old[k].id # c.id
    BY <2>2 DEF S
  <2>4. \A r, q \in DOMAIN Part(old, S) : r < q => Part(old, S)[r].id # Part(old, S)[q].id
    BY <1>1, <2>1, PartDistinct
  <2> QED
    BY <2>2, <2>3, <2>4 DEF S
<1> HIDE DEF kept
<1>3. /\ new \in Seq(Peers) /\ Len(new) = Len(kept) + 1 /\ Len(kept) \in Nat
      /\ \A k \in 1..Len(kept) : new[k] = kept[k]
      /\ new[Len(kept) + 1] = c
  BY <1>2, AppendProperties, LenProperties
<1>4. DOMAIN kept = 1..Len(kept)
  BY <1>2, LenProperties
<1>5. AllBelong(local, new, i, Len(t))
  <2>1. \A k \in 1..Len(kept) : Belongs(local, new[k].id, i, Len(t))
    BY <1>1, <1>2, <1>3, <1>4
  <2>2. \A k \in 1..Len(new) : k \in 1..Len(kept) \/ k = Len(kept) + 1
    BY <1>3
  <2> QED
    BY <2>1, <2>2, <1>3 DEF AllBelong
<1>6. Put(t[i], c) = [t[i] EXCEPT !.nodes = new]
  BY DEF Put, kept
<1> HIDE DEF new, old
<1>7. NoDoubles(new)
  <2>1. SUFFICES ASSUME NEW k \in 1..Len(new), NEW l \in 1..Len(new), k < l
                 PROVE  new[k].id # new[l].id
    BY DEF NoDoubles
  <2>2. k \in 1..Len(kept) /\ (l \in 1..Len(kept) \/ l = Len(kept) + 1)
    BY <1>3, <2>1
  <2>3. \A r \in DOMAIN kept : kept[r].id # c.id
    BY <1>2
  <2>4. CASE l \in 1..Len(kept)
    BY <1>2, <1>3, <1>4, <2>1, <2>2, <2>4
  <2>5. CASE l = Len(kept) + 1
    BY <1>3, <1>4, <2>2, <2>3, <2>5
  <2> QED
    BY <2>2, <2>4, <2>5
<1>8. /\ Put(t[i], c) \in Buckets /\ Put(t[i], c).nodes = new
      /\ Put(t[i], c).prefix_len = t[i].prefix_len
  BY <1>1, <1>3, <1>6 DEF Buckets
<1>9. /\ u \in Seq(Buckets) /\ Len(u) = Len(t) /\ u[i] = Put(t[i], c)
      /\ \A j \in 1..Len(t) : j # i => u[j] = t[j]
  BY <1>1, <1>8, ExceptSeq
<1> HIDE DEF u
<1>10. u # <<>>
  BY <1>1, <1>9
<1>11. \A j \in 1..Len(t) : u[j].prefix_len = t[j].prefix_len
  BY <1>8, <1>9
<1>12. \A j \in 1..Len(t) : AllBelong(local, u[j].nodes, j, Len(t))
  <2>1. \A j \in 1..Len(t) : AllBelong(local, t[j].nodes, j, Len(t))
    BY TableIs DEF AllBelong
  <2> QED
    BY <1>5, <1>8, <1>9, <2>1
<1>13. \A j \in 1..Len(t) : u[j].prefix_len = IF j < Len(t) THEN j ELSE j - 1
  BY <1>11, TableIs
<1>14. \A j \in 1..Len(t) : NoDoubles(u[j].nodes)
  <2>1. \A j \in 1..Len(t) : NoDoubles(t[j].nodes)
    BY TableIs
  <2> QED
    BY <1>8, <1>9, <1>7, <2>1
<1> QED
  <2>1. u \in Tables(local)
    BY <1>9, <1>10, <1>12, <1>13, <1>14, IsTable
  <2> QED
    BY <2>1 DEF u

\* split_bucket: the shape of the table survives the split of its last bucket.
LEMMA SplitKeeps ==
    ASSUME NEW local \in NodeId, NEW t \in Tables(local), t[Len(t)].prefix_len < Bits
    PROVE  SplitLast(t, local) \in Tables(local)
<1>1. PICK n : n = Len(t)
  OBVIOUS
<1>2. PICK nodes : nodes = t[n].nodes
  OBVIOUS
<1> DEFINE near == {k \in DOMAIN nodes : nodes[k].id[n] = local[n]}
           far == DOMAIN nodes \ near
           front == SubSeq(t, 1, n - 1)
           back == <<[prefix_len |-> n, nodes |-> Part(nodes, far)],
                     [prefix_len |-> n, nodes |-> Part(nodes, near)]>>
           u == front \o back
<1>3. /\ n \in Nat /\ n >= 1 /\ DOMAIN t = 1..n /\ t \in Seq(Buckets)
      /\ t[n].prefix_len = n - 1 /\ Bits \in Nat /\ n <= Bits
      /\ nodes \in Seq(Peers) /\ DOMAIN nodes = 1..Len(nodes)
      /\ \A k \in 1..Len(nodes) : nodes[k] \in Peers /\ Belongs(local, nodes[k].id, n, n)
      /\ NoDoubles(nodes)
  <2>1. /\ n \in Nat /\ n >= 1 /\ DOMAIN t = 1..n /\ t \in Seq(Buckets)
        /\ t[n].prefix_len = n - 1
        /\ nodes \in Seq(Peers) /\ DOMAIN nodes = 1..Len(nodes)
        /\ \A k \in 1..Len(nodes) : nodes[k] \in Peers /\ Belongs(local, nodes[k].id, n, n)
        /\ NoDoubles(nodes)
    BY <1>1, <1>2, TableIs
  <2> QED
    BY <2>1, <1>1, BitsAssumption
<1>4. SplitLast(t, local) = u
  <2>1. n - 1 + 1 = n
    BY <1>3
  <2> QED
    BY <1>1, <1>2, <1>3, <2>1 DEF SplitLast
<1>5. \A k \in DOMAIN nodes : LET p == CommonPrefix(local, nodes[k].id)
                              IN /\ p \in Nat /\ p >= n - 1
                                 /\ nodes[k].id[n] = local[n] => p >= n
                                 /\ nodes[k].id[n] # local[n] => p <= n - 1
  <2>1. TAKE k \in DOMAIN nodes
  <2>2. PICK id \in NodeId : id = nodes[k].id
    BY <1>3 DEF Peers
  <2>3. PICK p \in 0..Bits : p = CommonPrefix(local, id)
    BY CommonPrefixIs
  <2>4. p >= n - 1
    BY <1>3, <2>1, <2>2, <2>3 DEF Belongs
  <2>5. p < Bits => local[p + 1] # id[p + 1]
    BY <2>3, CommonPrefixIs
  <2>6. \A i \in 1..p : local[i] = id[i]
    BY <2>3, CommonPrefixIs
  <2>7. id[n] = local[n] => p >= n
    <3>1. p = n - 1 => id[n] # local[n]
      BY <2>5, <1>3
    <3> QED
      BY <3>1, <2>4, <1>3, <2>3
  <2>8. id[n] # local[n] => p <= n - 1
    <3>1. p >= n => id[n] = local[n]
      BY <2>6, <1>3
    <3> QED
      BY <3>1, <1>3
  <2> QED
    BY <2>2, <2>3, <2>4, <2>7, <2>8
<1>6. ASSUME NEW S \in SUBSET (DOMAIN nodes)
      PROVE  /\ Part(nodes, S) \in Seq(Peers)
             /\ \A r \in 1..Len(Part(nodes, S)) : \E k \in S : Part(nodes, S)[r] = nodes[k]
             /\ NoDoubles(Part(nodes, S))
  <2>1. /\ Part(nodes, S) \in Seq(Peers)
        /\ \A r \in DOMAIN Part(nodes, S) : \E k \in S : Part(nodes, S)[r] = nodes[k]
    BY <1>3, PartKeeps
  <2>2. DOMAIN Part(nodes, S) = 1..Len(Part(nodes, S))
    BY <2>1, LenProperties
  <2>3. NoDoubles(Part(nodes, S))
    BY <1>3, <2>2, PartDistinct DEF NoDoubles
  <2> QED
    BY <2>1, <2>2, <2>3
<1>7. near \in SUBSET (DOMAIN nodes) /\ far \in SUBSET (DOMAIN nodes)
  OBVIOUS
<1>8. AllBelong(local, Part(nodes, far), n, n + 1)
  <2>1. \A k \in far : Belongs(local, nodes[k].id, n, n + 1)
    BY <1>5, <1>3 DEF Belongs
  <2> HIDE DEF far
  <2> QED
    BY <1>6, <1>7, <2>1 DEF AllBelong
<1>9. AllBelong(local, Part(nodes, near), n + 1, n + 1)
  <2>1. \A k \in near : Belongs(local, nodes[k].id, n + 1, n + 1)
    BY <1>5, <1>3 DEF Belongs
  <2> HIDE DEF near
  <2> QED
    BY <1>6, <1>7, <2>1 DEF AllBelong
<1>10. /\ Part(nodes, far) \in Seq(Peers) /\ Part(nodes, near) \in Seq(Peers)
       /\ NoDoubles(Part(nodes, far)) /\ NoDoubles(Part(nodes, near))
  <2> HIDE DEF near, far
  <2> QED
    BY <1>6, <1>7
<1> HIDE DEF near, far
<1>11. back \in Seq(Buckets) /\ Len(back) = 2
  BY <1>3, <1>10 DEF Buckets
<1>12. /\ front \in Seq(Buckets) /\ Len(front) = n - 1
       /\ \A i \in 1..(n - 1) : front[i] = t[i]
  <2>1. \A i \in 1..(n - 1) : t[i] \in Buckets
    BY <1>3, LenProperties
  <2> QED
    BY <1>3, <2>1, SubSeqProperties
<1> HIDE DEF front
<1>13. back[1].prefix_len = n /\ back[1].nodes = Part(nodes, far) /\ back[2].prefix_len = n
       /\ back[2].nodes = Part(nodes, near)
  OBVIOUS
<1> HIDE DEF back
<1>14. /\ u \in Seq(Buckets) /\ Len(u) = n + 1
       /\ \A i \in 1..(n - 1) : u[i] = t[i]
       /\ u[n] = back[1] /\ u[n + 1] = back[2]
  <2>1. /\ u \in Seq(Buckets) /\ Len(u) = n + 1
        /\ \A i \in 1..(n + 1) : u[i] = IF i <= n - 1 THEN front[i] ELSE back[i - (n - 1)]
    <3>1. /\ front \o back \in Seq(Buckets) /\ Len(front \o back) = Len(front) + Len(back)
          /\ \A i \in 1..(Len(front) + Len(back)) :
                (front \o back)[i] = IF i <= Len(front) THEN front[i] ELSE back[i - Len(front)]
      BY <1>11, <1>12, ConcatProperties
    <3>2. Len(front) = n - 1 /\ Len(back) = 2 /\ (n - 1) + 2 = n + 1
      BY <1>3, <1>11, <1>12
    <3> QED
      BY <3>1, <3>2
  <2>2. n - (n - 1) = 1 /\ n + 1 - (n - 1) = 2
    BY <1>3
  <2> HIDE DEF u
  <2>3. ASSUME NEW i \in 1..(n - 1)
        PROVE  u[i] = t[i]
    <3>1. i \in 1..(n + 1) /\ i <= n - 1
      BY <1>3
    <3> QED
      BY <1>12, <2>1, <3>1
  <2>4. n \in 1..(n + 1) /\ ~(n <= n - 1) /\ n + 1 \in 1..(n + 1) /\ ~(n + 1 <= n - 1)
    BY <1>3
  <2>5. u[n] = back[1] /\ u[n + 1] = back[2]
    BY <2>1, <2>2, <2>4
  <2> QED
    BY <2>1, <2>3, <2>5
<1> HIDE DEF u
<1>15. \A i \in 1..Len(u) : i \in 1..(n - 1) \/ i = n \/ i = n + 1
  BY <1>3, <1>14
<1>16. \A i \in 1..(n - 1) : u[i].prefix_len = i /\ AllBelong(local, u[i].nodes, i, n + 1)
  <2>1. TAKE i \in 1..(n - 1)
  <2>2. i \in 1..n /\ i < n /\ i < n + 1
    BY <1>3
  <2>3. t[i].prefix_len = i /\ \A k \in 1..Len(t[i].nodes) : Belongs(local, t[i].nodes[k].id, i, n)
    BY <1>1, <2>2, TableIs
  <2>4. \A id \in NodeId : Belongs(local, id, i, n) => Belongs(local, id, i, n + 1)
    <3>1. TAKE id \in NodeId
    <3>2. CommonPrefix(local, id) \in Nat
      BY CommonPrefixIs
    <3> QED
      BY <1>3, <2>2, <3>2 DEF Belongs
  <2>5. \A k \in 1..Len(t[i].nodes) : t[i].nodes[k].id \in NodeId
    BY <1>1, <2>2, TableIs DEF Peers
  <2> QED
    BY <1>14, <2>3, <2>4, <2>5 DEF AllBelong
<1>17. \A i \in 1..Len(u) : u[i].prefix_len = IF i < Len(u) THEN i ELSE i - 1
  BY <1>3, <1>13, <1>14, <1>15, <1>16
<1>18. \A i \in 1..Len(u) : AllBelong(local, u[i].nodes, i, Len(u))
  BY <1>3, <1>8, <1>9, <1>13, <1>14, <1>15, <1>16
<1>19. u # <<>>
  BY <1>14, <1>3
<1>20. \A i \in 1..Len(u) : NoDoubles(u[i].nodes)
  <2>1. \A i \in 1..(n - 1) : NoDoubles(u[i].nodes)
    <3>1. \A i \in 1..n : NoDoubles(t[i].nodes)
      BY <1>1, TableIs
    <3> QED
      BY <1>3, <1>14, <3>1
  <2> QED
    BY <1>10, <1>13, <1>14, <1>15, <2>1
<1> QED
  BY <1>4, <1>14, <1>17, <1>18, <1>19, <1>20, IsTable

\* The states of an insertion.
Rounds(local) == [buckets : Tables(local), done : BOOLEAN]

\* One round of the insertion: whatever it does, the shape survives.
LEMMA RoundKeeps ==
    ASSUME NEW local \in NodeId, NEW state \in Rounds(local), NEW c \in Peers
    PROVE  InsertRound(state, local, c) \in Rounds(local)
<1> DEFINE t == state.buckets
           i == BucketIndex(t, local, c.id)
<1>1. t \in Tables(local) /\ state.done \in BOOLEAN /\ c.id \in NodeId
  BY DEF Rounds, Peers
<1>2. i \in 1..Len(t) /\ Belongs(local, c.id, i, Len(t))
  BY <1>1, BucketIndexIs
<1>3. [t EXCEPT ![i] = Put(@, c)] \in Tables(local)
  <2> HIDE DEF i, t
  <2> QED
    BY <1>1, <1>2, PutKeeps
<1>4. i = Len(t) /\ t[i].prefix_len < Bits => SplitLast(t, local) \in Tables(local)
  <2> HIDE DEF i, t
  <2> QED
    BY <1>1, SplitKeeps
<1>5. InsertRound(state, local, c) \in
         {state, [buckets |-> [t EXCEPT ![i] = Put(@, c)], done |-> TRUE], [state EXCEPT !.done = TRUE]}
            \cup (IF i = Len(t) /\ t[i].prefix_len < Bits
                  THEN {[buckets |-> SplitLast(t, local), done |-> FALSE]} ELSE {})
  BY DEF InsertRound
<1>6. [state EXCEPT !.done = TRUE] \in Rounds(local)
  BY DEF Rounds
<1>7. [buckets |-> [t EXCEPT ![i] = Put(@, c)], done |-> TRUE] \in Rounds(local)
  <2> HIDE DEF i, t
  <2> QED
    BY <1>3 DEF Rounds
<1>8. i = Len(t) /\ t[i].prefix_len < Bits =>
         [buckets |-> SplitLast(t, local), done |-> FALSE] \in Rounds(local)
  <2> HIDE DEF i, t
  <2> QED
    BY <1>4 DEF Rounds
<1> HIDE DEF i, t
<1> QED
  BY <1>5, <1>6, <1>7, <1>8

\* RoutingTable::insert keeps the shape.
LEMMA InsertKeeps ==
    ASSUME NEW local \in NodeId, NEW t \in Tables(local), NEW c \in Peers
    PROVE  Insert(t, local, c) \in Tables(local)
<1> DEFINE R == Rounds(local)
           n == Bits + 1
           x == [buckets |-> t, done |-> FALSE]
           step == [p \in Nat \X R |-> InsertRound(p[2], local, c)]
           Is(h) == h = [k \in 0..n |-> IF k = 0 THEN x ELSE InsertRound(h[k - 1], local, c)]
           after == CHOOSE h : Is(h)
<1>1. n \in Nat /\ x \in R
  BY BitsAssumption DEF Rounds
<1>2. step \in [Nat \X R -> R]
  BY RoundKeeps
<1>3. PICK h \in [0..n -> R] : h[0] = x /\ \A k \in 1..n : h[k] = step[<<k, h[k - 1]>>]
  <2> HIDE DEF n, x, step, R
  <2>1. PICK h \in [0..n -> R] : Solves(h, x, step, n)
    BY <1>1, <1>2, RecursionExists
  <2> QED
    BY <2>1 DEF Solves
<1>4. \A k \in 0..n : h[k] = IF k = 0 THEN x ELSE InsertRound(h[k - 1], local, c)
  <2>1. TAKE k \in 0..n
  <2>2. CASE k = 0
    BY <1>3, <2>2
  <2>3. CASE k # 0
    <3>1. k \in Nat /\ h[k - 1] \in R
      <4>1. k \in Nat /\ k - 1 \in 0..n
        BY <1>1, <2>3
      <4> HIDE DEF n, R
      <4> QED
        BY <4>1, <1>3
    <3>2. step[<<k, h[k - 1]>>] = InsertRound(h[k - 1], local, c)
      BY <3>1
    <3>3. h[k] = step[<<k, h[k - 1]>>]
      <4> HIDE DEF step, x
      <4> QED
        BY <1>3, <2>3
    <3> QED
      BY <2>3, <3>2, <3>3
  <2> QED
    BY <2>2, <2>3
<1>5. Is(h)
  <2> HIDE DEF n, x, R
  <2>1. h = [k \in 0..n |-> h[k]]
    BY <1>3
  <2> QED
    BY <1>4, <2>1
<1>6. Is(after)
  <2> HIDE DEF Is
  <2> QED
    BY <1>5
<1>7. after[0] = x /\ \A k \in 1..n : after[k] = InsertRound(after[k - 1], local, c)
  <2> HIDE DEF after, x
  <2> QED
    BY <1>1, <1>6
<1>8. \A k \in 1..n : after[k - 1] \in R => after[k] \in R
  <2> HIDE DEF after
  <2> QED
    BY <1>7, RoundKeeps
<1>9. after[n] \in R
  <2> HIDE DEF after, R, x
  <2>1. \A k \in 0..n : after[k] \in R
    <3> HIDE DEF n
    <3> QED
      BY <1>1, <1>7, <1>8, RecursionStays
  <2> QED
    BY <1>1, <2>1
<1>10. Insert(t, local, c) = IF c.id = local THEN t ELSE after[n].buckets
  BY DEF Insert
<1> HIDE DEF after, n
<1> QED
  BY <1>9, <1>10 DEF Rounds

\* Inserting contacts one after another keeps the shape.
LEMMA InsertAllKeeps ==
    ASSUME NEW local \in NodeId, NEW t \in Tables(local), NEW contacts \in Seq(Peers)
    PROVE  InsertAll(t, local, contacts) \in Tables(local)
<1> DEFINE R == Tables(local)
           n == Len(contacts)
           step == [p \in Nat \X R |->
                      IF p[1] \in 1..n THEN Insert(p[2], local, contacts[p[1]]) ELSE p[2]]
           Is(h) == h = [k \in 0..n |-> IF k = 0 THEN t ELSE Insert(h[k - 1], local, contacts[k])]
           after == CHOOSE h : Is(h)
<1>1. n \in Nat /\ \A k \in 1..n : contacts[k] \in Peers
  BY LenProperties
<1>2. step \in [Nat \X R -> R]
  BY <1>1, InsertKeeps
<1>3. PICK h \in [0..n -> R] : h[0] = t /\ \A k \in 1..n : h[k] = step[<<k, h[k - 1]>>]
  <2> HIDE DEF n, step, R
  <2>1. t \in R
    BY DEF R
  <2>2. PICK h \in [0..n -> R] : Solves(h, t, step, n)
    BY <1>1, <1>2, <2>1, RecursionExists
  <2> QED
    BY <2>2 DEF Solves
<1>4. \A k \in 0..n : h[k] = IF k = 0 THEN t ELSE Insert(h[k - 1], local, contacts[k])
  <2>1. TAKE k \in 0..n
  <2>2. CASE k = 0
    BY <1>3, <2>2
  <2>3. CASE k # 0
    <3>1. k \in Nat /\ k \in 1..n /\ h[k - 1] \in R
      <4>1. k \in Nat /\ k \in 1..n /\ k - 1 \in 0..n
        BY <1>1, <2>3
      <4> HIDE DEF n, R
      <4> QED
        BY <4>1, <1>3
    <3>2. step[<<k, h[k - 1]>>] = Insert(h[k - 1], local, contacts[k])
      BY <3>1
    <3>3. h[k] = step[<<k, h[k - 1]>>]
      <4> HIDE DEF step
      <4> QED
        BY <1>3, <3>1
    <3> QED
      BY <2>3, <3>2, <3>3
  <2> QED
    BY <2>2, <2>3
<1>5. Is(h)
  <2> HIDE DEF n, R
  <2>1. h = [k \in 0..n |-> h[k]]
    BY <1>3
  <2> QED
    BY <1>4, <2>1
<1>6. Is(after)
  <2> HIDE DEF Is
  <2> QED
    BY <1>5
<1>7. after[0] = t /\ \A k \in 1..n : after[k] = Insert(after[k - 1], local, contacts[k])
  <2> HIDE DEF after
  <2> QED
    BY <1>1, <1>6
<1>8. \A k \in 1..n : after[k - 1] \in R => after[k] \in R
  <2> HIDE DEF after
  <2> QED
    BY <1>1, <1>7, InsertKeeps
<1>9. after[n] \in R
  <2>1. t \in R
    OBVIOUS
  <2> HIDE DEF after, R
  <2>2. \A k \in 0..n : after[k] \in R
    <3> HIDE DEF n
    <3> QED
      BY <1>1, <1>7, <1>8, <2>1, RecursionStays
  <2> QED
    BY <1>1, <2>2
<1>10. InsertAll(t, local, contacts) = after[n]
  BY DEF InsertAll
<1> HIDE DEF after, n
<1> QED
  BY <1>9, <1>10

\* The buckets of a table of the right shape are ordered by distance.
LEMMA TablesAreOrdered ==
    ASSUME NEW local \in NodeId, NEW t \in Tables(local), NEW i \in 1..Len(t), NEW j \in 1..Len(t),
           i < j, NEW c \in 1..Len(t[i].nodes), NEW d \in 1..Len(t[j].nodes)
    PROVE  CommonPrefix(local, t[i].nodes[c].id) <= CommonPrefix(local, t[j].nodes[d].id)
<1>1. /\ Len(t) \in Nat
      /\ t[i].nodes[c] \in Peers /\ Belongs(local, t[i].nodes[c].id, i, Len(t))
      /\ t[j].nodes[d] \in Peers /\ Belongs(local, t[j].nodes[d].id, j, Len(t))
  BY TableIs
<1>2. CommonPrefix(local, t[i].nodes[c].id) \in 0..Bits /\ CommonPrefix(local, t[j].nodes[d].id) \in 0..Bits
  BY <1>1, CommonPrefixIs DEF Peers
<1>3. Bits \in Nat
  BY BitsAssumption
<1> QED
  BY <1>1, <1>2, <1>3 DEF Belongs

\* A new table has the right shape.
LEMMA NewTableIs ==
    ASSUME NEW local \in NodeId
    PROVE  NewTable \in Tables(local)
<1>1. NewTable \in Seq(Buckets) /\ Len(NewTable) = 1 /\ NewTable # <<>>
      /\ NewTable[1].prefix_len = 0 /\ NewTable[1].nodes = <<>>
  BY BitsAssumption DEF NewTable, Buckets
<1>2. \A i \in 1..Len(NewTable) : i = 1
  BY <1>1
<1> HIDE DEF NewTable
<1>3. \A i \in 1..Len(NewTable) : AllBelong(local, NewTable[i].nodes, i, Len(NewTable))
  BY <1>1, <1>2 DEF AllBelong
<1>4. \A i \in 1..Len(NewTable) : NewTable[i].prefix_len = IF i < Len(NewTable) THEN i ELSE i - 1
  BY <1>1, <1>2
<1>5. \A i \in 1..Len(NewTable) : NoDoubles(NewTable[i].nodes)
  BY <1>1, <1>2 DEF NoDoubles
<1> QED
  BY <1>1, <1>3, <1>4, <1>5, IsTable

\* The places of a table are finitely many, and one after another in the order that
\* closest_where collects them in.
LEMMA PlacesOrdered ==
    ASSUME NEW local \in NodeId, NEW t \in Tables(local)
    PROVE  /\ IsFiniteSet(Places(t))
           /\ Orders(BucketAfterBucket(t), Places(t))
           /\ AllContacts(t) \in [Places(t) -> Peers]
           /\ \A x \in Places(t) : x[1] \in 1..Len(t) /\ x[2] \in 1..Len(t[x[1]].nodes)
                                   /\ AllContacts(t)[x] = t[x[1]].nodes[x[2]]
<1> DEFINE P == Places(t)
           n == Len(t)
           row == [i \in 1..n |-> {i} \X DOMAIN t[i].nodes]
<1>1. n \in Nat /\ DOMAIN t = 1..n /\ \A i \in 1..n : /\ Len(t[i].nodes) \in Nat
                                                     /\ DOMAIN t[i].nodes = 1..Len(t[i].nodes)
                                                     /\ \A k \in 1..Len(t[i].nodes) : t[i].nodes[k] \in Peers
  BY TableIs
<1>2. \A x : x \in P <=> \E i \in 1..n : \E k \in 1..Len(t[i].nodes) : x = <<i, k>>
  BY <1>1 DEF Places
<1>3. \A i \in 1..n : IsFiniteSet({i} \X DOMAIN t[i].nodes)
  <2>1. TAKE i \in 1..n
  <2>2. IsFiniteSet({i}) /\ IsFiniteSet(1..Len(t[i].nodes))
    <3>1. PICK m \in Nat : m = Len(t[i].nodes)
      BY <1>1
    <3>2. IsFiniteSet(1..m)
      BY FS_Interval
    <3>3. IsFiniteSet({i})
      BY FS_Singleton
    <3> QED
      BY <3>1, <3>2, <3>3
  <2>3. IsFiniteSet({i} \X (1..Len(t[i].nodes)))
    BY <2>2, FS_Product
  <2> QED
    BY <1>1, <2>3
<1>4. IsFiniteSet(P)
  <2> DEFINE rows == {{i} \X DOMAIN t[i].nodes : i \in 1..n}
  <2>1. row \in Surjection(1..n, rows)
    BY Fun_IsSurj
  <2>2. IsFiniteSet(1..n)
    BY <1>1, FS_Interval
  <2>3. IsFiniteSet(rows)
    <3> HIDE DEF row, rows, n
    <3> QED
      BY <2>1, <2>2, FS_Surjection
  <2>4. \A T \in rows : IsFiniteSet(T)
    BY <1>3
  <2>5. P = UNION rows
    BY <1>1 DEF Places
  <2> HIDE DEF rows, P
  <2> QED
    BY <2>3, <2>4, <2>5, FS_UNION
<1> HIDE DEF P
<1>5. \A x \in P : /\ x = <<x[1], x[2]>> /\ x[1] \in 1..n /\ x[1] \in Nat
                   /\ x[2] \in 1..Len(t[x[1]].nodes) /\ x[2] \in Nat
  BY <1>1, <1>2
<1>6. \A x, y \in P : <<x, y>> \in BucketAfterBucket(t) <=> x[1] < y[1] \/ (x[1] = y[1] /\ x[2] < y[2])
  BY DEF BucketAfterBucket, P
<1>7. Orders(BucketAfterBucket(t), P)
  <2>1. \A x \in P : <<x, x>> \notin BucketAfterBucket(t)
    BY <1>5, <1>6
  <2>2. \A x, y \in P : x # y => <<x, y>> \in BucketAfterBucket(t) \/ <<y, x>> \in BucketAfterBucket(t)
    <3>1. TAKE x, y \in P
    <3>2. HAVE x # y
    <3>3. x[1] # y[1] \/ x[2] # y[2]
      BY <1>5, <3>2
    <3>4. x[1] \in Nat /\ x[2] \in Nat /\ y[1] \in Nat /\ y[2] \in Nat
      BY <1>5
    <3> QED
      BY <1>6, <3>3, <3>4
  <2>3. \A x, y, z \in P : <<x, y>> \in BucketAfterBucket(t) /\ <<y, z>> \in BucketAfterBucket(t)
                              => <<x, z>> \in BucketAfterBucket(t)
    <3>1. TAKE x, y, z \in P
    <3>2. /\ x[1] \in Nat /\ x[2] \in Nat /\ y[1] \in Nat /\ y[2] \in Nat
          /\ z[1] \in Nat /\ z[2] \in Nat
      BY <1>5
    <3> QED
      BY <1>6, <3>2
  <2> QED
    BY <2>1, <2>2, <2>3 DEF Orders
<1>8. AllContacts(t) \in [P -> Peers] /\ \A x \in P : AllContacts(t)[x] = t[x[1]].nodes[x[2]]
  <2>1. \A x \in P : t[x[1]].nodes[x[2]] \in Peers
    BY <1>1, <1>5
  <2> QED
    BY <2>1 DEF AllContacts, P
<1> QED
  BY <1>4, <1>5, <1>7, <1>8 DEF P

\* Whether different places of a table hold different ids.
Distinct(t) ==
    \A x, y \in Places(t) : x # y => t[x[1]].nodes[x[2]].id # t[y[1]].nodes[y[2]].id

\* Closest first, without doubles.
Ascends(list) == \A i, j \in DOMAIN list : i < j => Closer(list[i].id, list[j].id, InfoHash)

\* truncate: the first elements of a list.
CutTo(list, count) == SubSeq(list, 1, Min({Len(list), count}))

\* What the first elements are.
LEMMA Cut ==
    ASSUME NEW V, NEW list \in Seq(V), NEW count \in Nat
    PROVE  /\ CutTo(list, count) \in Seq(V)
           /\ Len(CutTo(list, count)) = IF Len(list) <= count THEN Len(list) ELSE count
           /\ \A i \in DOMAIN CutTo(list, count) : i \in DOMAIN list /\ CutTo(list, count)[i] = list[i]
<1>1. Len(list) \in Nat /\ DOMAIN list = 1..Len(list) /\ \A i \in 1..Len(list) : list[i] \in V
  BY LenProperties
<1>2. PICK m : m = Min({Len(list), count})
  OBVIOUS
<1>3. m = IF Len(list) <= count THEN Len(list) ELSE count
  <2> DEFINE two == {Len(list), count}
  <2>1. \E z \in two : \A y \in two : z <= y
    BY <1>1
  <2>2. m \in two /\ \A y \in two : m <= y
    <3> HIDE DEF two
    <3> QED
      BY <1>2, <2>1 DEF Min, two
  <2> QED
    BY <1>1, <2>2
<1>4. m \in Nat /\ m <= Len(list)
  BY <1>1, <1>3
<1>5. /\ SubSeq(list, 1, m) \in Seq(V) /\ Len(SubSeq(list, 1, m)) = m
      /\ \A i \in 1..m : SubSeq(list, 1, m)[i] = list[i]
  <2>1. \A i \in 1..m : list[i] \in V
    BY <1>1, <1>4
  <2>2. /\ SubSeq(list, 1, m) \in Seq(V)
        /\ Len(SubSeq(list, 1, m)) = IF 1 <= m THEN m - 1 + 1 ELSE 0
        /\ \A i \in 1..(m - 1 + 1) : SubSeq(list, 1, m)[i] = list[1 + i - 1]
    BY <1>4, <2>1, SubSeqProperties
  <2> QED
    BY <1>4, <2>2
<1>6. DOMAIN SubSeq(list, 1, m) = 1..m
  BY <1>5, LenProperties
<1>7. \A i \in DOMAIN SubSeq(list, 1, m) : i \in DOMAIN list /\ SubSeq(list, 1, m)[i] = list[i]
  BY <1>1, <1>4, <1>5, <1>6
<1> QED
  BY <1>2, <1>3, <1>5, <1>7 DEF CutTo

\* A table that was split at most once holds no id twice.  After the second split it may:
\* a contact of the middle bucket is sought, and stored again, in the first one.
LEMMA SmallTableDistinct ==
    ASSUME NEW local \in NodeId, NEW t \in Tables(local), Len(t) <= 2
    PROVE  Distinct(t)
<1> DEFINE at(i, k) == t[i].nodes[k].id
<1>1. /\ Len(t) \in Nat /\ Len(t) >= 1 /\ DOMAIN t = 1..Len(t)
      /\ \A i \in 1..Len(t) : DOMAIN t[i].nodes = 1..Len(t[i].nodes) /\ Len(t[i].nodes) \in Nat
      /\ \A i \in 1..Len(t) : NoDoubles(t[i].nodes)
      /\ \A i \in 1..Len(t) : \A k \in 1..Len(t[i].nodes) :
            t[i].nodes[k] \in Peers /\ Belongs(local, t[i].nodes[k].id, i, Len(t))
  BY TableIs
<1>2. ASSUME NEW i \in 1..Len(t), NEW k \in 1..Len(t[i].nodes), NEW l \in 1..Len(t[i].nodes), k # l
      PROVE  at(i, k) # at(i, l)
  <2>1. k < l \/ l < k
    BY <1>1, <1>2
  <2>2. NoDoubles(t[i].nodes)
    BY <1>1
  <2> QED
    BY <2>1, <2>2 DEF NoDoubles
<1>3. ASSUME NEW i \in 1..Len(t), NEW j \in 1..Len(t), i < j,
             NEW k \in 1..Len(t[i].nodes), NEW l \in 1..Len(t[j].nodes)
      PROVE  at(i, k) # at(j, l)
  <2>1. i = 1 /\ j = 2 /\ Len(t) = 2
    BY <1>1, <1>3
  <2>2. Belongs(local, at(i, k), 1, 2) /\ Belongs(local, at(j, l), 2, 2)
    BY <1>1, <2>1
  <2>3. at(i, k) \in NodeId
    BY <1>1 DEF Peers
  <2>4. CommonPrefix(local, at(i, k)) \in Nat
    BY <2>3, CommonPrefixIs
  <2>5. CommonPrefix(local, at(i, k)) <= 0 /\ CommonPrefix(local, at(j, l)) >= 1
    BY <2>2 DEF Belongs
  <2> HIDE DEF at
  <2> QED
    BY <2>4, <2>5
<1>4. SUFFICES ASSUME NEW x \in Places(t), NEW y \in Places(t), x # y
               PROVE  at(x[1], x[2]) # at(y[1], y[2])
  BY DEF Distinct
<1>5. ASSUME NEW z \in Places(t)
      PROVE  /\ z[1] \in 1..Len(t) /\ z[2] \in 1..Len(t[z[1]].nodes) /\ z = <<z[1], z[2]>>
  <2>1. PICK i \in DOMAIN t : z \in {i} \X (DOMAIN t[i].nodes)
    BY DEF Places
  <2>2. z[1] = i /\ z[2] \in DOMAIN t[i].nodes /\ z = <<z[1], z[2]>>
    BY <2>1
  <2> QED
    BY <1>1, <2>2
<1>6. PICK i, k : /\ i = x[1] /\ k = x[2] /\ x = <<i, k>>
                  /\ i \in 1..Len(t) /\ k \in 1..Len(t[i].nodes)
  BY <1>5
<1>7. PICK j, l : /\ j = y[1] /\ l = y[2] /\ y = <<j, l>>
                  /\ j \in 1..Len(t) /\ l \in 1..Len(t[j].nodes)
  BY <1>5
<1> HIDE DEF at
<1>8. at(i, k) # at(j, l)
  <2>1. CASE i = j
    <3>1. k # l /\ l \in 1..Len(t[i].nodes)
      BY <1>4, <1>6, <1>7, <2>1
    <3> QED
      BY <1>2, <1>6, <2>1, <3>1
  <2>2. CASE i < j
    BY <1>3, <1>6, <1>7, <2>2
  <2>3. CASE j < i
    <3>1. at(j, l) # at(i, k)
      BY <1>3, <1>6, <1>7, <2>3
    <3> QED
      BY <3>1
  <2> QED
    BY <1>1, <1>6, <1>7, <2>1, <2>2, <2>3
<1> QED
  BY <1>6, <1>7, <1>8

\* closest returns contacts of the table, closest first; none of them twice when no two
\* places of the table hold the same id.
LEMMA ClosestIs ==
    ASSUME NEW local \in NodeId, NEW t \in Tables(local), NEW count \in Nat
    PROVE  /\ Closest(t, InfoHash, count) \in Seq(Peers)
           /\ Distinct(t) => Ascends(Closest(t, InfoHash, count))
<1> DEFINE D == Places(t)
           at == AllContacts(t)
           order == BucketAfterBucket(t)
<1>1. /\ IsFiniteSet(D) /\ Orders(order, D) /\ at \in [D -> Peers]
      /\ \A x \in D : at[x] = t[x[1]].nodes[x[2]]
  BY PlacesOrdered
<1>2. \A x \in D : at[x].id \in NodeId
  BY <1>1 DEF Peers
<1>3. InfoHash \in NodeId
  BY IdAssumption
<1>4. PICK all : all = SortByDistance(at, order, InfoHash)
  OBVIOUS
<1>5. PICK cut : cut = CutTo(all, count)
  OBVIOUS
<1>6. Closest(t, InfoHash, count) = cut
  BY <1>4, <1>5 DEF Closest, CutTo
<1>7. Distinct(t) => \A x, y \in D : x # y => at[x].id # at[y].id
  BY <1>1 DEF Distinct
<1> HIDE DEF D, at, order
<1>8. all \in Seq(Peers) /\ IsSorted(all, at, D, InfoHash)
  BY <1>1, <1>2, <1>3, <1>4, SortedList
<1>9. /\ cut \in Seq(Peers)
      /\ \A i \in DOMAIN cut : i \in DOMAIN all /\ cut[i] = all[i]
  BY <1>5, <1>8, Cut
<1>10. Distinct(t) => \A r, q \in DOMAIN all : r < q => Closer(all[r].id, all[q].id, InfoHash)
  <2>1. SUFFICES ASSUME Distinct(t), NEW r \in DOMAIN all, NEW q \in DOMAIN all, r < q
                 PROVE  Closer(all[r].id, all[q].id, InfoHash)
    OBVIOUS
  <2>2. PICK x \in D, y \in D : /\ x # y /\ all[r] = at[x] /\ all[q] = at[y]
                                /\ Closer(at[x].id, at[y].id, InfoHash) \/ at[x].id = at[y].id
    BY <1>8, <2>1 DEF IsSorted
  <2> QED
    BY <1>7, <2>1, <2>2
<1>11. Distinct(t) => Ascends(cut)
  BY <1>9, <1>10 DEF Ascends
<1> QED
  BY <1>6, <1>9, <1>11

-----------------------------------------------------------------------------
(* Types.                                                                  *)

Tokens == {NoToken} \cup {Token(n, v, s) : n \in Node, v \in Nat, s \in Node}
States == {"Unqueried", "InFlight", "Queried", "Failed"}
Entries == {e \in [id : NodeId, addr : Node, state : States, token : Tokens] :
               "pseudo" \in Behaviours \/ e.id = IdOf[e.addr]}
Datagrams ==
    {m \in [kind : {"get_peers", "announce_peer", "r"}, src : Node, dst : Node, tid : Nat,
            token : Tokens, nodes : Seq(Peers), values : SUBSET Node] :
        IF m.kind = "r" THEN m.dst \in Searcher ELSE m.src \in Searcher}
Tasks == [addr : Node, tid : Nat]
Transactions == [tid : Nat, target : Node]

TablesType == table \in [Node -> Seq(Buckets)] /\ \A n \in Node : table[n] \in Tables(IdOf[n])
NodesType ==
    /\ secret \in [Node -> Nat]
    /\ seen \in [Node -> SUBSET Announcer]
    /\ store \in [Node -> SUBSET Node]
    /\ refused \in BOOLEAN
NetType == net \subseteq Datagrams
SearchType ==
    /\ pending \in [Searcher -> SUBSET Transactions]
    /\ next_tid \in [Searcher -> Nat]
    /\ phase \in [Searcher -> {"idle", "searching", "done"}]
    /\ short_list \in [Searcher -> Seq(Entries)]
    /\ flight \in [Searcher -> SUBSET Tasks]
    /\ announced \in [Searcher -> SUBSET Node]
HistoryType ==
    /\ found \in [Searcher -> SUBSET Node]
    /\ answered \in [Searcher -> SUBSET Node]
    /\ spoilt \subseteq Searcher
    /\ owed \in [Searcher -> SUBSET Announcer]
TypeInv == TablesType /\ NodesType /\ NetType /\ SearchType /\ HistoryType

\* A sequence given by its elements.
LEMMA ListIs ==
    ASSUME NEW V, NEW n \in Nat, NEW f \in [1..n -> V]
    PROVE  f \in Seq(V) /\ Len(f) = n
OBVIOUS

\* Lists with the same places are equally long.
LEMMA SameLength ==
    ASSUME NEW a \in Nat, NEW b \in Nat, 1..a = 1..b
    PROVE  a = b
<1>1. ASSUME NEW x \in Nat, NEW y \in Nat, 1..x = 1..y, x < y
      PROVE  FALSE
  <2>1. y \in 1..y /\ y \notin 1..x
    BY <1>1
  <2> QED
    BY <1>1, <2>1
<1> QED
  BY <1>1

\* Contacts as entries of a short list that was not worked on.
LEMMA ListedIs ==
    ASSUME NEW contacts \in Seq(Peers)
    PROVE  /\ Listed(contacts) \in Seq(Entries)
           /\ DOMAIN Listed(contacts) = DOMAIN contacts
           /\ \A i \in DOMAIN contacts :
                 /\ Listed(contacts)[i].id = contacts[i].id
                 /\ Listed(contacts)[i].addr = contacts[i].addr
                 /\ Listed(contacts)[i].state = "Unqueried"
                 /\ Listed(contacts)[i].token = NoToken
<1>1. Len(contacts) \in Nat /\ DOMAIN contacts = 1..Len(contacts) /\ \A i \in DOMAIN contacts : contacts[i] \in Peers
  BY LenProperties
<1>2. \A c \in Peers : [id |-> c.id, addr |-> c.addr, state |-> "Unqueried", token |-> NoToken] \in Entries
  BY DEF Peers, Entries, States, Tokens
<1>3. Listed(contacts) \in [1..Len(contacts) -> Entries]
  BY <1>1, <1>2 DEF Listed
<1>4. Listed(contacts) \in Seq(Entries)
  BY <1>1, <1>3, ListIs
<1> QED
  BY <1>1, <1>4 DEF Listed

\* A short list sorted: the same entries, closest first.
LEMMA SortedIs ==
    ASSUME NEW list \in Seq(Entries)
    PROVE  Sorted(list) \in Seq(Entries) /\ IsSorted(Sorted(list), list, DOMAIN list, InfoHash)
<1>1. Len(list) \in Nat /\ DOMAIN list = 1..Len(list) /\ list \in [DOMAIN list -> Entries]
  BY LenProperties
<1>2. \A x \in DOMAIN list : list[x].id \in NodeId
  BY <1>1 DEF Entries
<1>3. PICK D : D = DOMAIN list
  OBVIOUS
<1>4. IsFiniteSet(D) /\ Orders(Ascending(D), D)
  <2>1. D \in SUBSET (1..Len(list))
    BY <1>1, <1>3
  <2> QED
    BY <1>1, <2>1, AscendingOrders
<1>5. InfoHash \in NodeId
  BY IdAssumption
<1>6. /\ SortByDistance(list, Ascending(D), InfoHash) \in Seq(Entries)
      /\ IsSorted(SortByDistance(list, Ascending(D), InfoHash), list, D, InfoHash)
  BY <1>1, <1>2, <1>3, <1>4, <1>5, SortedList
<1> QED
  BY <1>3, <1>6 DEF Sorted

\* The contacts of an answer that are new to a short list.
News(list, contacts) ==
    {i \in DOMAIN contacts : /\ \A j \in DOMAIN list : list[j].id # contacts[i].id
                             /\ \A j \in 1..(i - 1) : contacts[j].id # contacts[i].id}

NewPart(list, contacts) == Part(contacts, News(list, contacts))
Joined(list, contacts) == list \o Listed(NewPart(list, contacts))

\* The list with the new contacts after it: what was listed, then what is new.
LEMMA JoinedIs ==
    ASSUME NEW list \in Seq(Entries), NEW contacts \in Seq(Peers)
    PROVE  /\ Joined(list, contacts) \in Seq(Entries)
           /\ NewPart(list, contacts) \in Seq(Peers)
           /\ Len(Joined(list, contacts)) = Len(list) + Len(NewPart(list, contacts))
           /\ \A i \in 1..Len(list) : Joined(list, contacts)[i] = list[i]
           /\ \A k \in 1..Len(NewPart(list, contacts)) :
                 Joined(list, contacts)[Len(list) + k] = Listed(NewPart(list, contacts))[k]
<1>1. PICK part : part = NewPart(list, contacts)
  OBVIOUS
<1>2. part \in Seq(Peers)
  <2>1. News(list, contacts) \in SUBSET (DOMAIN contacts)
    BY DEF News
  <2> QED
    BY <1>1, <2>1, PartKeeps DEF NewPart
<1>3. PICK tail : tail = Listed(part)
  OBVIOUS
<1>4. /\ tail \in Seq(Entries) /\ Len(tail) = Len(part) /\ Len(list) \in Nat /\ Len(part) \in Nat
  <2>1. tail \in Seq(Entries) /\ DOMAIN tail = DOMAIN part
    BY <1>2, <1>3, ListedIs
  <2>2. DOMAIN tail = 1..Len(tail) /\ DOMAIN part = 1..Len(part) /\ Len(tail) \in Nat /\ Len(part) \in Nat
    BY <1>2, <2>1, LenProperties
  <2>3. Len(tail) = Len(part)
    BY <2>1, <2>2, SameLength
  <2> QED
    BY <2>1, <2>2, <2>3, LenProperties
<1>5. /\ list \o tail \in Seq(Entries)
      /\ Len(list \o tail) = Len(list) + Len(part)
      /\ \A i \in 1..(Len(list) + Len(part)) :
            (list \o tail)[i] = IF i <= Len(list) THEN list[i] ELSE tail[i - Len(list)]
  <2>1. /\ list \o tail \in Seq(Entries)
        /\ Len(list \o tail) = Len(list) + Len(tail)
        /\ \A i \in 1..(Len(list) + Len(tail)) :
              (list \o tail)[i] = IF i <= Len(list) THEN list[i] ELSE tail[i - Len(list)]
    BY <1>4, ConcatProperties
  <2>2. Len(tail) = Len(part)
    BY <1>4
  <2> QED
    BY <2>1, <2>2
<1>6. \A k \in 1..Len(part) : (list \o tail)[Len(list) + k] = tail[k]
  <2>1. TAKE k \in 1..Len(part)
  <2>2. /\ Len(list) + k \in 1..(Len(list) + Len(part)) /\ ~(Len(list) + k <= Len(list))
        /\ Len(list) + k - Len(list) = k
    BY <1>4
  <2> QED
    BY <1>5, <2>2
<1>7. \A i \in 1..Len(list) : (list \o tail)[i] = list[i]
  BY <1>4, <1>5
<1> QED
  BY <1>1, <1>2, <1>3, <1>5, <1>6, <1>7 DEF Joined

\* What Merge is made of: that list, sorted and cut.
LEMMA MergeIs ==
    ASSUME NEW list \in Seq(Entries), NEW contacts \in Seq(Peers)
    PROVE  /\ Merge(list, contacts) = CutTo(Sorted(Joined(list, contacts)), MaxShortList)
           /\ Sorted(Joined(list, contacts)) \in Seq(Entries)
           /\ Merge(list, contacts) \in Seq(Entries)
<1>1. Merge(list, contacts) = CutTo(Sorted(Joined(list, contacts)), MaxShortList)
  BY DEF Merge, Joined, NewPart, News, CutTo
<1>2. Sorted(Joined(list, contacts)) \in Seq(Entries)
  BY JoinedIs, SortedIs
<1>3. MaxShortList \in Nat
  BY DhtSizesAssumption
<1> QED
  BY <1>1, <1>2, <1>3, Cut

\* The parts of a round of the search loop: what it asks, sends and announces to.
Asked(list, tasks) == FirstOf(Unqueried(list), Room(tasks, Alpha))
TidOf(s, queries, i) == next_tid[s] + Cardinality({j \in queries : j <= i})
Ends(list, tasks) == tasks = {} /\ Asked(list, tasks) = {}
TargetsOf(s, list, tasks) == IF Ends(list, tasks) /\ s \in Announcer THEN Announced(list) ELSE {}
QueriesOf(s, list, tasks) == Asked(list, tasks) \cup TargetsOf(s, list, tasks)
Marked(list, asked) ==
    [i \in DOMAIN list |-> IF i \in asked THEN [list[i] EXCEPT !.state = "InFlight"] ELSE list[i]]
QueryOf(s, list, asked, queries, i) ==
    IF i \in asked
    THEN Datagram("get_peers", s, list[i].addr, TidOf(s, queries, i), NoToken, <<>>, {})
    ELSE Datagram("announce_peer", s, list[i].addr, TidOf(s, queries, i), list[i].token, <<>>, {})
NewTasks(s, list, asked, queries) ==
    {[addr |-> list[i].addr, tid |-> TidOf(s, queries, i)] : i \in asked}
NewTids(s, list, queries, sent) ==
    {[tid |-> TidOf(s, queries, i), target |-> list[i].addr] : i \in sent}
NewQueries(s, list, asked, queries, sent) == {QueryOf(s, list, asked, queries, i) : i \in sent}

\* The round in terms of its parts.
LEMMA ContinueIs ==
    ASSUME NEW s, NEW list, NEW tasks, NEW transactions, NEW datagrams,
           Continue(s, list, tasks, transactions, datagrams)
    PROVE  \E asked, targets, queries, sent :
              /\ asked = Asked(list, tasks)
              /\ targets = TargetsOf(s, list, tasks)
              /\ queries = QueriesOf(s, list, tasks)
              /\ sent = SendQuery(queries, transactions)
              /\ short_list' = [short_list EXCEPT ![s] = Marked(list, asked)]
              /\ flight' = [flight EXCEPT ![s] = tasks \cup NewTasks(s, list, asked, queries)]
              /\ pending' = [pending EXCEPT ![s] = transactions \cup NewTids(s, list, queries, sent)]
              /\ net' = datagrams \cup NewQueries(s, list, asked, queries, sent)
              /\ next_tid' = [next_tid EXCEPT ![s] = @ + Cardinality(queries)]
              /\ phase' = [phase EXCEPT ![s] = IF Ends(list, tasks) THEN "done" ELSE "searching"]
              /\ announced' = [announced EXCEPT ![s] = {list[i].addr : i \in targets}]
<1> DEFINE asked == Asked(list, tasks)
           targets == TargetsOf(s, list, tasks)
           queries == QueriesOf(s, list, tasks)
           sent == SendQuery(queries, transactions)
<1>1. /\ short_list' = [short_list EXCEPT ![s] = Marked(list, asked)]
      /\ flight' = [flight EXCEPT ![s] = tasks \cup NewTasks(s, list, asked, queries)]
      /\ pending' = [pending EXCEPT ![s] = transactions \cup NewTids(s, list, queries, sent)]
      /\ net' = datagrams \cup NewQueries(s, list, asked, queries, sent)
      /\ next_tid' = [next_tid EXCEPT ![s] = @ + Cardinality(queries)]
      /\ phase' = [phase EXCEPT ![s] = IF Ends(list, tasks) THEN "done" ELSE "searching"]
      /\ announced' = [announced EXCEPT ![s] = {list[i].addr : i \in targets}]
  BY DEF Continue, Asked, TidOf, Ends, TargetsOf, QueriesOf, Marked, QueryOf, NewTasks, NewTids, NewQueries
<1> WITNESS asked, targets, queries, sent
<1> HIDE DEF asked, targets, queries, sent
<1> QED
  BY <1>1 DEF asked, targets, queries, sent

\* Which places of the list those are.
LEMMA RoundPlaces ==
    ASSUME NEW s, NEW list \in Seq(Entries), NEW tasks, NEW transactions
    PROVE  /\ Asked(list, tasks) \in SUBSET (DOMAIN list)
           /\ TargetsOf(s, list, tasks) \in SUBSET (DOMAIN list)
           /\ QueriesOf(s, list, tasks) \in SUBSET (DOMAIN list)
           /\ Asked(list, tasks) \subseteq QueriesOf(s, list, tasks)
           /\ QueriesOf(s, list, tasks) \subseteq Asked(list, tasks) \cup TargetsOf(s, list, tasks)
           /\ SendQuery(QueriesOf(s, list, tasks), transactions) \in SUBSET QueriesOf(s, list, tasks)
           /\ Cardinality(QueriesOf(s, list, tasks)) \in Nat
           /\ \A i \in DOMAIN list : Cardinality({j \in QueriesOf(s, list, tasks) : j <= i}) \in Nat
<1> DEFINE queries == QueriesOf(s, list, tasks)
<1>1. Len(list) \in Nat /\ DOMAIN list = 1..Len(list)
  BY LenProperties
<1>2. Asked(list, tasks) \in SUBSET (DOMAIN list)
  BY DEF Asked, FirstOf, Unqueried
<1>3. TargetsOf(s, list, tasks) \in SUBSET (DOMAIN list)
  BY DEF TargetsOf, Announced, FirstOf
<1>4. SendQuery(queries, transactions) \in SUBSET queries
  BY DEF SendQuery, FirstOf
<1>5. \A T \in SUBSET (DOMAIN list) : Cardinality(T) \in Nat
  <2>1. IsFiniteSet(1..Len(list))
    BY <1>1, FS_Interval
  <2> QED
    BY <1>1, <2>1, FS_Subset, FS_CardinalityType
<1>6. /\ queries \in SUBSET (DOMAIN list) /\ Asked(list, tasks) \subseteq queries
      /\ queries \subseteq Asked(list, tasks) \cup TargetsOf(s, list, tasks)
  BY <1>2, <1>3 DEF QueriesOf
<1> HIDE DEF queries
<1>7. \A i : {j \in queries : j <= i} \in SUBSET (DOMAIN list)
  BY <1>6
<1> QED
  BY <1>2, <1>3, <1>4, <1>5, <1>6, <1>7 DEF queries

\* A round of the search loop keeps the types.
LEMMA ContinueTypes ==
    ASSUME SearchType, NEW s \in Searcher, NEW list \in Seq(Entries), NEW tasks \in SUBSET Tasks,
           NEW transactions \in SUBSET Transactions, NEW datagrams \in SUBSET Datagrams,
           Continue(s, list, tasks, transactions, datagrams)
    PROVE  SearchType' /\ NetType'
<1>1. PICK asked, targets, queries, sent :
              /\ asked = Asked(list, tasks)
              /\ targets = TargetsOf(s, list, tasks)
              /\ queries = QueriesOf(s, list, tasks)
              /\ sent = SendQuery(queries, transactions)
              /\ short_list' = [short_list EXCEPT ![s] = Marked(list, asked)]
              /\ flight' = [flight EXCEPT ![s] = tasks \cup NewTasks(s, list, asked, queries)]
              /\ pending' = [pending EXCEPT ![s] = transactions \cup NewTids(s, list, queries, sent)]
              /\ net' = datagrams \cup NewQueries(s, list, asked, queries, sent)
              /\ next_tid' = [next_tid EXCEPT ![s] = @ + Cardinality(queries)]
              /\ phase' = [phase EXCEPT ![s] = IF Ends(list, tasks) THEN "done" ELSE "searching"]
              /\ announced' = [announced EXCEPT ![s] = {list[i].addr : i \in targets}]
  BY ContinueIs
<1>2. /\ asked \in SUBSET (DOMAIN list) /\ targets \in SUBSET (DOMAIN list)
      /\ queries \in SUBSET (DOMAIN list) /\ sent \in SUBSET queries
      /\ Cardinality(queries) \in Nat
      /\ \A i \in DOMAIN list : Cardinality({j \in queries : j <= i}) \in Nat
  BY <1>1, RoundPlaces
<1>3. Len(list) \in Nat /\ DOMAIN list = 1..Len(list) /\ \A i \in DOMAIN list : list[i] \in Entries
  BY LenProperties
<1>4. \A i \in DOMAIN list : list[i].addr \in Node /\ list[i].token \in Tokens
  BY <1>3 DEF Entries
<1>5. \A i \in DOMAIN list : TidOf(s, queries, i) \in Nat
  <2>1. next_tid[s] \in Nat
    BY DEF SearchType
  <2>2. TAKE i \in DOMAIN list
  <2>3. Cardinality({j \in queries : j <= i}) \in Nat
    BY <1>2
  <2> QED
    BY <2>1, <2>3 DEF TidOf
<1>6. Marked(list, asked) \in Seq(Entries)
  <2>1. \A e \in Entries : [e EXCEPT !.state = "InFlight"] \in Entries
    BY DEF Entries, States
  <2>2. Marked(list, asked) \in [1..Len(list) -> Entries]
    BY <1>3, <2>1 DEF Marked
  <2> QED
    BY <1>3, <2>2, ListIs
<1>7. s \in Node /\ NoToken \in Tokens /\ <<>> \in Seq(Peers) /\ {} \in SUBSET Node
  BY NodeAssumption, EmptySeq DEF Tokens
<1>8. \A i \in sent :
         Datagram("get_peers", s, list[i].addr, TidOf(s, queries, i), NoToken, <<>>, {}) \in Datagrams
  <2> HIDE DEF NoToken
  <2> QED
    BY <1>2, <1>4, <1>5, <1>7 DEF Datagram, Datagrams
<1>9. \A i \in sent :
         Datagram("announce_peer", s, list[i].addr, TidOf(s, queries, i), list[i].token, <<>>, {})
            \in Datagrams
  BY <1>2, <1>4, <1>5, <1>7 DEF Datagram, Datagrams
<1>10. NetType'
  BY <1>1, <1>8, <1>9 DEF NetType, QueryOf, NewQueries
<1>11. /\ short_list' \in [Searcher -> Seq(Entries)]
       /\ next_tid' \in [Searcher -> Nat]
       /\ phase' \in [Searcher -> {"idle", "searching", "done"}]
  BY <1>1, <1>2, <1>6 DEF SearchType
<1>12. flight' \in [Searcher -> SUBSET Tasks]
  <2>1. \A i \in asked : [addr |-> list[i].addr, tid |-> TidOf(s, queries, i)] \in Tasks
    BY <1>2, <1>4, <1>5 DEF Tasks
  <2>2. tasks \cup NewTasks(s, list, asked, queries) \in SUBSET Tasks
    BY <2>1 DEF NewTasks
  <2> QED
    BY <1>1, <2>2 DEF SearchType
<1>13. pending' \in [Searcher -> SUBSET Transactions]
  <2>1. \A i \in sent : [tid |-> TidOf(s, queries, i), target |-> list[i].addr] \in Transactions
    BY <1>2, <1>4, <1>5 DEF Transactions
  <2>2. transactions \cup NewTids(s, list, queries, sent) \in SUBSET Transactions
    BY <2>1 DEF NewTids
  <2> QED
    BY <1>1, <2>2 DEF SearchType
<1>14. announced' \in [Searcher -> SUBSET Node]
  <2>1. {list[i].addr : i \in targets} \in SUBSET Node
    BY <1>2, <1>4
  <2> QED
    BY <1>1, <2>1 DEF SearchType
<1> QED
  BY <1>10, <1>11, <1>12, <1>13, <1>14 DEF SearchType

\* Applying an answer or a failure to entries of a short list keeps its type.
LEMMA UpdatedList ==
    ASSUME NEW list \in Seq(Entries), NEW entry, NEW token \in Tokens
    PROVE  /\ [i \in DOMAIN list |->
                 IF i \in entry THEN [list[i] EXCEPT !.state = "Queried", !.token = token]
                 ELSE list[i]] \in Seq(Entries)
           /\ [i \in DOMAIN list |->
                 IF i \in entry THEN [list[i] EXCEPT !.state = "Failed"] ELSE list[i]] \in Seq(Entries)
<1>1. Len(list) \in Nat /\ DOMAIN list = 1..Len(list) /\ \A i \in DOMAIN list : list[i] \in Entries
  BY LenProperties
<1>2. \A e \in Entries : /\ [e EXCEPT !.state = "Queried", !.token = token] \in Entries
                         /\ [e EXCEPT !.state = "Failed"] \in Entries
  BY DEF Entries, States
<1>3. [i \in DOMAIN list |->
         IF i \in entry THEN [list[i] EXCEPT !.state = "Queried", !.token = token]
         ELSE list[i]] \in [1..Len(list) -> Entries]
  BY <1>1, <1>2
<1>4. [i \in DOMAIN list |->
         IF i \in entry THEN [list[i] EXCEPT !.state = "Failed"] ELSE list[i]] \in [1..Len(list) -> Entries]
  BY <1>1, <1>2
<1> QED
  BY <1>1, <1>3, <1>4, ListIs

\* What is known of a node and of a datagram.
LEMMA NodeTypes ==
    ASSUME TypeInv, NEW n \in Node
    PROVE  /\ IdOf[n] \in NodeId /\ table[n] \in Tables(IdOf[n]) /\ secret[n] \in Nat
           /\ store[n] \in SUBSET Node
           /\ \A m \in Node : Contact(IdOf[m], m) \in Peers
<1>1. IdOf[n] \in NodeId /\ \A m \in Node : IdOf[m] \in NodeId
  BY IdAssumption
<1>2. \A m \in Node : Contact(IdOf[m], m) \in Peers
  BY <1>1 DEF Contact, Peers
<1> QED
  BY <1>1, <1>2 DEF TypeInv, TablesType, NodesType

\* A query changes the table and the store of the node it reaches.
LEMMA HandleQueryTypes ==
    ASSUME TypeInv, NEW m \in net, HandleQuery(m)
    PROVE  TypeInv'
<1>1. /\ m \in Datagrams /\ m.kind \in {"get_peers", "announce_peer"}
      /\ m.dst \in Node /\ m.src \in Node /\ m.src \in Searcher /\ m.tid \in Nat
  BY DEF TypeInv, NetType, Datagrams, HandleQuery
<1>2. PICK n \in Node : n = m.dst
  BY <1>1
<1>3. PICK buckets : buckets = Insert(table[n], IdOf[n], Contact(IdOf[m.src], m.src))
  OBVIOUS
<1>4. buckets \in Tables(IdOf[n])
  BY <1>1, <1>3, NodeTypes, InsertKeeps
<1>5. PICK nodes : nodes = IF store[n] = {} THEN Closest(buckets, InfoHash, K) ELSE <<>>
  OBVIOUS
<1>6. nodes \in Seq(Peers)
  <2>1. K \in Nat /\ IdOf[n] \in NodeId
    BY DhtSizesAssumption, NodeTypes
  <2> QED
    BY <1>4, <1>5, <2>1, ClosestIs, EmptySeq
<1>7. PICK reply : reply = Datagram("r", n, m.src, m.tid, Token(n, secret[n], m.src), nodes, store[n])
  OBVIOUS
<1>8. /\ table' = [table EXCEPT ![n] = buckets]
      /\ store' = store \/ store' = [store EXCEPT ![n] = @ \cup {m.src}]
      /\ refused' \in BOOLEAN
      /\ net' \subseteq net \cup {reply}
      /\ UNCHANGED <<secret, seen, searchVars>>
  BY <1>2, <1>3, <1>5, <1>7 DEF HandleQuery
<1>9. TablesType'
  <2>1. buckets \in Seq(Buckets)
    BY <1>4 DEF Tables
  <2> QED
    BY <1>4, <1>8, <2>1 DEF TypeInv, TablesType
<1>10. NodesType'
  BY <1>1, <1>8 DEF TypeInv, NodesType
<1>11. NetType'
  <2>1. Token(n, secret[n], m.src) \in Tokens /\ store[n] \in SUBSET Node
    BY <1>1, NodeTypes DEF Tokens
  <2>2. reply \in Datagrams
    <3> HIDE DEF Token
    <3> QED
      BY <1>1, <1>6, <1>7, <2>1 DEF Datagrams, Datagram
  <2> QED
    BY <1>8, <2>2 DEF TypeInv, NetType
<1>12. SearchType' /\ HistoryType'
  BY <1>8 DEF TypeInv, SearchType, HistoryType, searchVars
<1> QED
  BY <1>9, <1>10, <1>11, <1>12 DEF TypeInv

\* An answer changes the search it belongs to and the searcher's table.
LEMMA HandleReplyTypes ==
    ASSUME TypeInv, NEW m \in net, HandleReply(m)
    PROVE  TypeInv'
<1>1. /\ m \in Datagrams /\ m.kind = "r" /\ m.dst \in Searcher /\ m.src \in Node
      /\ m.token \in Tokens /\ m.nodes \in Seq(Peers) /\ m.values \in SUBSET Node
  BY DEF TypeInv, NetType, Datagrams, HandleReply
<1>2. PICK s \in Searcher : s = m.dst
  BY <1>1
<1>3. s \in Node
  BY NodeAssumption
<1> DEFINE transaction == [tid |-> m.tid, target |-> m.src]
           tasks == {f \in flight[s] : f.tid = m.tid}
           entry == EntryOf(short_list[s], m.src)
           marked == [i \in DOMAIN short_list[s] |->
                        IF i \in entry THEN [short_list[s][i] EXCEPT !.state = "Queried",
                                                                     !.token = m.token]
                        ELSE short_list[s][i]]
           next == IF entry = {} THEN short_list[s] ELSE Merge(marked, m.nodes)
<1>4. short_list[s] \in Seq(Entries) /\ flight[s] \in SUBSET Tasks /\ pending[s] \in SUBSET Transactions
  BY DEF TypeInv, SearchType
<1>5. next \in Seq(Entries)
  <2>1. marked \in Seq(Entries)
    <3> HIDE DEF entry
    <3> QED
      BY <1>1, <1>4, UpdatedList
  <2>2. Merge(marked, m.nodes) \in Seq(Entries)
    <3> HIDE DEF marked
    <3> QED
      BY <1>1, <2>1, MergeIs
  <2> QED
    BY <1>4, <2>2
<1>6. NodesType'
  BY DEF TypeInv, NodesType, HandleReply
<1>7. CASE transaction \in pending[s] /\ tasks # {}
  <2>1. /\ Continue(s, next, flight[s] \ tasks, pending[s] \ {transaction}, net \ {m})
        /\ answered' = [answered EXCEPT ![s] = @ \cup {m.src}]
        /\ found' = found \/ found' = [found EXCEPT ![s] = @ \cup m.values]
        /\ table' = table \/ table' = [table EXCEPT ![s] = InsertAll(@, IdOf[s], m.nodes)]
        /\ UNCHANGED <<spoilt, owed>>
    BY <1>2, <1>7 DEF HandleReply
  <2> HIDE DEF next, tasks, transaction
  <2>2. SearchType' /\ NetType'
    <3>1. /\ flight[s] \ tasks \in SUBSET Tasks /\ pending[s] \ {transaction} \in SUBSET Transactions
          /\ net \ {m} \in SUBSET Datagrams /\ SearchType
      BY <1>4 DEF TypeInv, NetType
    <3> QED
      BY <1>5, <2>1, <3>1, ContinueTypes
  <2>3. TablesType'
    <3>1. InsertAll(table[s], IdOf[s], m.nodes) \in Tables(IdOf[s])
      BY <1>1, <1>3, NodeTypes, InsertAllKeeps
    <3>2. InsertAll(table[s], IdOf[s], m.nodes) \in Seq(Buckets)
      BY <3>1 DEF Tables
    <3> QED
      BY <1>3, <2>1, <3>1, <3>2 DEF TypeInv, TablesType
  <2>4. HistoryType'
    BY <1>1, <2>1 DEF TypeInv, HistoryType
  <2> QED
    BY <1>6, <2>2, <2>3, <2>4 DEF TypeInv
<1>8. CASE ~(transaction \in pending[s] /\ tasks # {})
  <2>1. /\ net' = net \ {m}
        /\ pending' = [pending EXCEPT ![s] = @ \ {transaction}]
        /\ UNCHANGED <<next_tid, phase, short_list, flight, found, announced, answered, table, spoilt, owed>>
    BY <1>2, <1>8 DEF HandleReply
  <2> QED
    BY <1>6, <2>1 DEF TypeInv, TablesType, NetType, SearchType, HistoryType
<1> QED
  BY <1>7, <1>8

\* The steps of a search that no answer causes, and the rotation of a secret.
LEMMA OtherTypes ==
    ASSUME TypeInv,
           \/ \E n \in Node : Rotate(n)
           \/ \E s \in Searcher : StartSearch(s) \/ Cleanup(s) \/ \E f \in flight[s] : TaskFails(s, f)
    PROVE  TypeInv'
<1>1. ASSUME NEW n \in Node, Rotate(n)
      PROVE  TypeInv'
  <2>1. NodesType'
    <3>1. /\ secret' = [secret EXCEPT ![n] = @ + 1]
          /\ \E S \in SUBSET Announcer : seen' = [seen EXCEPT ![n] = S]
          /\ UNCHANGED <<store, refused>>
      BY <1>1 DEF Rotate
    <3> QED
      BY <3>1 DEF TypeInv, NodesType
  <2>2. NetType'
    BY <1>1 DEF TypeInv, NetType, Rotate
  <2>3. TablesType' /\ SearchType' /\ HistoryType'
    BY <1>1 DEF TypeInv, TablesType, SearchType, HistoryType, Rotate, searchVars
  <2> QED
    BY <2>1, <2>2, <2>3 DEF TypeInv
<1>2. ASSUME NEW s \in Searcher, StartSearch(s)
      PROVE  TypeInv'
  <2>1. s \in Node /\ K \in Nat /\ IdOf[s] \in NodeId /\ table[s] \in Tables(IdOf[s])
    BY NodeAssumption, DhtSizesAssumption, NodeTypes
  <2>2. PICK list \in Seq(Entries) : list = Listed(Closest(table[s], InfoHash, K))
    BY <2>1, ClosestIs, ListedIs
  <2>3. /\ Continue(s, list, {}, pending[s], net)
        /\ owed' = [owed EXCEPT ![s] = {a \in Announcer \ spoilt : StoredEverywhere(a)}]
        /\ UNCHANGED <<table, secret, seen, store, refused, found, answered, spoilt>>
    BY <1>2, <2>2 DEF StartSearch
  <2>4. SearchType' /\ NetType'
    <3>1. {} \in SUBSET Tasks /\ pending[s] \in SUBSET Transactions /\ net \in SUBSET Datagrams /\ SearchType
      BY DEF TypeInv, NetType, SearchType
    <3> QED
      BY <2>3, <3>1, ContinueTypes
  <2>5. HistoryType'
    BY <2>3 DEF TypeInv, HistoryType
  <2> QED
    BY <2>3, <2>4, <2>5 DEF TypeInv, TablesType, NodesType
<1>3. ASSUME NEW s \in Searcher, Cleanup(s)
      PROVE  TypeInv'
  <2>1. pending' \in [Searcher -> SUBSET Transactions]
    BY <1>3 DEF TypeInv, SearchType, Cleanup
  <2> QED
    BY <1>3, <2>1 DEF TypeInv, TablesType, NodesType, NetType, SearchType, HistoryType, Cleanup
<1>4. ASSUME NEW s \in Searcher, NEW f \in flight[s], TaskFails(s, f)
      PROVE  TypeInv'
  <2> DEFINE entry == EntryOf(short_list[s], f.addr)
             failed == [i \in DOMAIN short_list[s] |->
                          IF i \in entry THEN [short_list[s][i] EXCEPT !.state = "Failed"]
                          ELSE short_list[s][i]]
  <2>1. /\ Continue(s, failed, flight[s] \ {f}, pending[s], net)
        /\ spoilt' = spoilt \cup {s}
        /\ UNCHANGED <<table, secret, seen, store, refused, found, answered, owed>>
    BY <1>4 DEF TaskFails
  <2>2. failed \in Seq(Entries)
    <3>1. short_list[s] \in Seq(Entries) /\ NoToken \in Tokens
      BY DEF TypeInv, SearchType, Tokens
    <3> HIDE DEF entry
    <3> QED
      BY <3>1, UpdatedList
  <2> HIDE DEF failed
  <2>3. SearchType' /\ NetType'
    <3>1. /\ flight[s] \ {f} \in SUBSET Tasks /\ pending[s] \in SUBSET Transactions
          /\ net \in SUBSET Datagrams /\ SearchType
      BY DEF TypeInv, NetType, SearchType
    <3> QED
      BY <2>1, <2>2, <3>1, ContinueTypes
  <2>4. HistoryType'
    BY <2>1 DEF TypeInv, HistoryType
  <2> QED
    BY <2>1, <2>3, <2>4 DEF TypeInv, TablesType, NodesType
<1> QED
  BY <1>1, <1>2, <1>3, <1>4

\* The tables that the nodes start with have the right shape.
LEMMA InitialTableIs ==
    ASSUME NEW n \in Node
    PROVE  InitialTable(n) \in Tables(IdOf[n])
<1> DEFINE Name(m) == IF n \in Searcher /\ "pseudo" \in Behaviours THEN PseudoIdOf[m] ELSE IdOf[m]
           contacts == [i \in DOMAIN Known[n] |-> Contact(Name(Known[n][i]), Known[n][i])]
<1>1. IdOf[n] \in NodeId /\ Known[n] \in Seq(Node)
  BY IdAssumption, KnownAssumption
<1>2. \A m \in Node : Contact(Name(m), m) \in Peers
  BY IdAssumption DEF Contact, Peers
<1>3. /\ Len(Known[n]) \in Nat /\ DOMAIN Known[n] = 1..Len(Known[n])
      /\ \A i \in DOMAIN Known[n] : Known[n][i] \in Node
  BY <1>1, LenProperties
<1>4. contacts \in [1..Len(Known[n]) -> Peers]
  BY <1>2, <1>3
<1>5. contacts \in Seq(Peers)
  <2> HIDE DEF contacts
  <2> QED
    BY <1>3, <1>4, ListIs
<1>6. InitialTable(n) = InsertAll(NewTable, IdOf[n], contacts)
  BY DEF InitialTable
<1> HIDE DEF contacts
<1> QED
  BY <1>1, <1>5, <1>6, NewTableIs, InsertAllKeeps

\* Every reachable state is well typed, and every routing table has the shape its
\* insertions rely on.
THEOREM DhtTypeCorrect == Spec => []TypeInv
<1>1. Init => TypeInv
  <2>1. SUFFICES ASSUME Init
                 PROVE  TypeInv
    OBVIOUS
  <2>2. \A n \in Node : InitialTable(n) \in Tables(IdOf[n]) /\ InitialTable(n) \in Seq(Buckets)
    <3>1. \A n \in Node : InitialTable(n) \in Tables(IdOf[n])
      BY InitialTableIs
    <3> QED
      BY <3>1 DEF Tables
  <2>3. TablesType
    BY <2>1, <2>2 DEF Init, TablesType
  <2>4. NodesType /\ NetType /\ HistoryType
    BY <2>1 DEF Init, NodesType, NetType, HistoryType
  <2>5. SearchType
    BY <2>1 DEF Init, SearchType
  <2> QED
    BY <2>3, <2>4, <2>5 DEF TypeInv
<1>2. TypeInv /\ [Next]_vars => TypeInv'
  <2>1. SUFFICES ASSUME TypeInv, [Next]_vars
                 PROVE  TypeInv'
    OBVIOUS
  <2>2. CASE UNCHANGED vars
    BY <2>1, <2>2 DEF vars, searchVars, TypeInv, TablesType, NodesType, NetType, SearchType, HistoryType
  <2>3. CASE \E m \in net : HandleQuery(m) \/ HandleReply(m)
    BY <2>1, <2>3, HandleQueryTypes, HandleReplyTypes
  <2>4. CASE \/ \E n \in Node : Rotate(n)
             \/ \E s \in Searcher : StartSearch(s) \/ Cleanup(s) \/ \E f \in flight[s] : TaskFails(s, f)
    BY <2>1, <2>4, OtherTypes
  <2> QED
    BY <2>1, <2>2, <2>3, <2>4 DEF Next
<1> QED
  BY <1>1, <1>2, PTL DEF Spec

\* The buckets of every table stay ordered by distance, in any network, however often
\* the last bucket was split and whatever order contacts arrive in.
THEOREM TablesOrdered == Spec => []TableOrdered
<1>1. TypeInv => TableOrdered
  <2>1. SUFFICES ASSUME TypeInv, NEW n \in Node, NEW i \in DOMAIN table[n], NEW j \in DOMAIN table[n],
                        i < j,
                        NEW c \in DOMAIN table[n][i].nodes, NEW d \in DOMAIN table[n][j].nodes
                 PROVE  CommonPrefix(IdOf[n], table[n][i].nodes[c].id)
                           <= CommonPrefix(IdOf[n], table[n][j].nodes[d].id)
    BY DEF TableOrdered
  <2>2. IdOf[n] \in NodeId /\ table[n] \in Tables(IdOf[n])
    BY <2>1, NodeTypes
  <2>3. /\ DOMAIN table[n] = 1..Len(table[n])
        /\ \A k \in 1..Len(table[n]) : DOMAIN table[n][k].nodes = 1..Len(table[n][k].nodes)
    BY <2>2, TableIs
  <2> QED
    BY <2>1, <2>2, <2>3, TablesAreOrdered
<1> QED
  BY <1>1, DhtTypeCorrect, PTL

-----------------------------------------------------------------------------
(* Tokens: none is too old when it is used.                                *)

\* A token of n that s may still use: of the current secret, or of the previous one if s
\* was at work when the secret rotated.
GoodToken(n, s, token) ==
    \/ token = Token(n, secret[n], s)
    \/ token = Token(n, secret[n] - 1, s) /\ s \in seen[n]
ListTokens(s, list) ==
    \A i \in DOMAIN list : list[i].token # NoToken => GoodToken(list[i].addr, s, list[i].token)

\* Only a search at work waits for answers, and who has not searched has no datagrams.
Resting == \A s \in Searcher : phase[s] # "searching" => flight[s] = {}
Silent ==
    \A s \in Searcher : phase[s] = "idle" =>
        \A m \in net : (m.kind = "r" => m.dst # s) /\ (m.kind # "r" => m.src # s)
ListsGood == \A s \in Announcer : phase[s] = "searching" => ListTokens(s, short_list[s])
RepliesGood ==
    \A m \in net : m.kind = "r" /\ m.dst \in Announcer /\ phase[m.dst] = "searching"
                      => GoodToken(m.src, m.dst, m.token)
AnnouncesGood ==
    \A m \in net : m.kind = "announce_peer" => m.src \in Announcer /\ GoodToken(m.dst, m.src, m.token)
TokenInv == Resting /\ Silent /\ ListsGood /\ RepliesGood /\ AnnouncesGood /\ ~refused

\* An entry of a merged list was in the list before, or is new and untouched.
LEMMA MergeFrom ==
    ASSUME NEW list \in Seq(Entries), NEW contacts \in Seq(Peers), NEW k \in DOMAIN Merge(list, contacts)
    PROVE  \/ \E i \in DOMAIN list : Merge(list, contacts)[k] = list[i]
           \/ /\ Merge(list, contacts)[k].token = NoToken
              /\ Merge(list, contacts)[k].state = "Unqueried"
              /\ \A i \in DOMAIN list : list[i].id # Merge(list, contacts)[k].id
<1>1. PICK joined : joined = Joined(list, contacts)
  OBVIOUS
<1>2. PICK part : part = NewPart(list, contacts)
  OBVIOUS
<1>3. PICK all : all = Sorted(joined)
  OBVIOUS
<1>4. k \in DOMAIN all /\ Merge(list, contacts)[k] = all[k]
  <2>1. MaxShortList \in Nat /\ all \in Seq(Entries) /\ Merge(list, contacts) = CutTo(all, MaxShortList)
    BY <1>1, <1>3, DhtSizesAssumption, MergeIs
  <2> QED
    BY <2>1, Cut
<1>5. /\ joined \in Seq(Entries) /\ part \in Seq(Peers) /\ Len(joined) = Len(list) + Len(part)
      /\ \A i \in 1..Len(list) : joined[i] = list[i]
      /\ \A y \in 1..Len(part) : joined[Len(list) + y] = Listed(part)[y]
  BY <1>1, <1>2, JoinedIs
<1>6. /\ Len(list) \in Nat /\ DOMAIN list = 1..Len(list) /\ Len(part) \in Nat
      /\ DOMAIN part = 1..Len(part) /\ DOMAIN joined = 1..Len(joined)
  BY <1>5, LenProperties
<1>7. PICK x \in DOMAIN joined : all[k] = joined[x]
  <2>1. IsSorted(all, joined, DOMAIN joined, InfoHash)
    BY <1>3, <1>5, SortedIs
  <2> QED
    BY <1>4, <2>1 DEF IsSorted
<1>8. CASE x <= Len(list)
  BY <1>4, <1>5, <1>6, <1>7, <1>8
<1>9. CASE ~(x <= Len(list))
  <2>1. PICK y \in 1..Len(part) : x = Len(list) + y
    <3>1. x - Len(list) \in 1..Len(part) /\ x = Len(list) + (x - Len(list))
      BY <1>5, <1>6, <1>9
    <3> QED
      BY <3>1
  <2>2. all[k] = Listed(part)[y]
    BY <1>5, <1>7, <2>1
  <2>3. all[k].token = NoToken /\ all[k].state = "Unqueried" /\ all[k].id = part[y].id
    BY <1>5, <1>6, <2>2, ListedIs
  <2>4. PICK j \in News(list, contacts) : part[y] = contacts[j]
    <3>1. News(list, contacts) \in SUBSET (DOMAIN contacts)
      BY DEF News
    <3>2. \A r \in DOMAIN Part(contacts, News(list, contacts)) :
             \E i \in News(list, contacts) : Part(contacts, News(list, contacts))[r] = contacts[i]
      BY <3>1, PartKeeps
    <3> QED
      BY <1>2, <1>6, <3>2 DEF NewPart
  <2>5. \A i \in DOMAIN list : list[i].id # part[y].id
    BY <2>4 DEF News
  <2> QED
    BY <1>4, <2>3, <2>5
<1> QED
  BY <1>8, <1>9

\* A round of the search loop hands on good tokens only.
LEMMA ContinueTokens ==
    ASSUME TypeInv, TokenInv, NEW s \in Searcher, NEW list \in Seq(Entries),
           s \in Announcer => ListTokens(s, list),
           NEW tasks \in SUBSET Tasks, NEW transactions \in SUBSET Transactions,
           NEW datagrams \in SUBSET net, Continue(s, list, tasks, transactions, datagrams),
           phase[s] # "done", UNCHANGED <<secret, seen, refused>>
    PROVE  TokenInv'
<1>1. PICK asked, targets, queries, sent :
              /\ asked = Asked(list, tasks)
              /\ targets = TargetsOf(s, list, tasks)
              /\ queries = QueriesOf(s, list, tasks)
              /\ sent = SendQuery(queries, transactions)
              /\ short_list' = [short_list EXCEPT ![s] = Marked(list, asked)]
              /\ flight' = [flight EXCEPT ![s] = tasks \cup NewTasks(s, list, asked, queries)]
              /\ net' = datagrams \cup NewQueries(s, list, asked, queries, sent)
              /\ phase' = [phase EXCEPT ![s] = IF Ends(list, tasks) THEN "done" ELSE "searching"]
  BY ContinueIs
<1>2. targets \in SUBSET (DOMAIN list) /\ sent \in SUBSET (asked \cup targets)
  BY <1>1, RoundPlaces
<1>3. /\ phase'[s] \in {"done", "searching"} /\ \A q \in Searcher : q # s => phase'[q] = phase[q]
      /\ phase'[s] # "searching" => Ends(list, tasks)
      /\ short_list'[s] = Marked(list, asked) /\ \A q \in Searcher : q # s => short_list'[q] = short_list[q]
  BY <1>1 DEF TypeInv, SearchType
<1>4. \A n, q, token : GoodToken(n, q, token)' <=> GoodToken(n, q, token)
  BY DEF GoodToken
<1>5. \A m \in net' : \/ m \in net
                      \/ m.kind = "get_peers" /\ m.src = s
                      \/ \E i \in targets : /\ m.kind = "announce_peer" /\ m.src = s
                                            /\ m.dst = list[i].addr /\ m.token = list[i].token
  BY <1>1, <1>2 DEF Datagram, QueryOf, NewQueries
<1>6. Resting'
  <2>1. Ends(list, tasks) => flight'[s] = {}
    BY <1>1 DEF Ends, TypeInv, SearchType, NewTasks
  <2>2. \A q \in Searcher : q # s => flight'[q] = flight[q]
    BY <1>1 DEF TypeInv, SearchType
  <2> QED
    BY <1>3, <2>1, <2>2 DEF TokenInv, Resting
<1>7. Silent'
  BY <1>3, <1>5 DEF TokenInv, Silent
<1>8. ListsGood'
  <2>1. s \in Announcer => ListTokens(s, Marked(list, asked))'
    <3>1. /\ DOMAIN Marked(list, asked) = DOMAIN list
          /\ \A i \in DOMAIN list : /\ Marked(list, asked)[i].token = list[i].token
                                    /\ Marked(list, asked)[i].addr = list[i].addr
      <4>1. \A i \in DOMAIN list : list[i] \in Entries
        BY LenProperties
      <4> QED
        BY <4>1 DEF Marked, Entries
    <3> QED
      BY <1>4, <3>1 DEF ListTokens
  <2> QED
    BY <1>3, <1>4, <2>1, NodeAssumption DEF TokenInv, ListsGood, ListTokens
<1>9. RepliesGood'
  <2>1. SUFFICES ASSUME NEW m \in net', m.kind = "r", m.dst \in Announcer, phase'[m.dst] = "searching"
                 PROVE  GoodToken(m.src, m.dst, m.token)
    BY <1>4 DEF RepliesGood
  <2>2. m \in net /\ m.dst \in Searcher
    BY <1>5, <2>1, NodeAssumption
  <2>3. phase[m.dst] = "searching"
    <3>1. m.dst # s => phase[m.dst] = "searching"
      BY <1>3, <2>1, <2>2
    <3>2. m.dst = s => phase[s] \in {"idle", "searching"}
      BY DEF TypeInv, SearchType
    <3>3. phase[m.dst] # "idle"
      BY <2>1, <2>2 DEF TokenInv, Silent
    <3> QED
      BY <3>1, <3>2, <3>3
  <2> QED
    BY <2>1, <2>2, <2>3 DEF TokenInv, RepliesGood
<1>10. AnnouncesGood'
  <2>1. \A i \in targets : s \in Announcer /\ list[i].token # NoToken
    BY <1>1 DEF TargetsOf, Announced, FirstOf
  <2>2. \A i \in targets : GoodToken(list[i].addr, s, list[i].token)
    BY <1>2, <2>1 DEF ListTokens
  <2> QED
    BY <1>4, <1>5, <2>1, <2>2 DEF TokenInv, AnnouncesGood
<1> QED
  BY <1>6, <1>7, <1>8, <1>9, <1>10 DEF TokenInv

\* A query is answered with the current token, and an announce with a good one is taken.
LEMMA HandleQueryTokens ==
    ASSUME TypeInv, TokenInv, NEW m \in net, HandleQuery(m)
    PROVE  TokenInv'
<1>1. /\ m.kind \in {"get_peers", "announce_peer"} /\ m.dst \in Node /\ m.src \in Searcher
      /\ UNCHANGED <<secret, seen, searchVars>>
  BY DEF TypeInv, NetType, Datagrams, HandleQuery
<1>2. UNCHANGED <<phase, flight, short_list, secret, seen>>
  BY <1>1 DEF searchVars
<1>3. \A n, q, token : GoodToken(n, q, token)' <=> GoodToken(n, q, token)
  BY <1>2 DEF GoodToken
<1>4. refused' = (refused \/ (m.kind = "announce_peer" /\ ~IsValid(m.dst, m.token, m.src)))
  BY DEF HandleQuery
<1>5. ~refused'
  BY <1>4 DEF TokenInv, AnnouncesGood, GoodToken, IsValid
<1>6. \A r \in net' : \/ r \in net
                      \/ /\ m.kind = "get_peers" /\ r.kind = "r" /\ r.src = m.dst /\ r.dst = m.src
                         /\ r.token = Token(m.dst, secret[m.dst], m.src)
  BY DEF HandleQuery, Datagram
<1>7. Silent'
  <2>1. phase[m.src] # "idle"
    BY <1>1 DEF TokenInv, Silent
  <2> QED
    BY <1>2, <1>6, <2>1 DEF TokenInv, Silent
<1>8. RepliesGood'
  <2>1. SUFFICES ASSUME NEW r \in net', r.kind = "r", r.dst \in Announcer, phase[r.dst] = "searching"
                 PROVE  GoodToken(r.src, r.dst, r.token)
    BY <1>2, <1>3 DEF RepliesGood
  <2>2. CASE r \in net
    BY <2>1, <2>2 DEF TokenInv, RepliesGood
  <2>3. CASE r \notin net
    BY <1>6, <2>3 DEF GoodToken
  <2> QED
    BY <2>2, <2>3
<1>9. AnnouncesGood'
  BY <1>3, <1>6 DEF TokenInv, AnnouncesGood
<1>10. Resting' /\ ListsGood'
  BY <1>2, <1>3 DEF TokenInv, Resting, ListsGood, ListTokens
<1> QED
  BY <1>5, <1>7, <1>8, <1>9, <1>10 DEF TokenInv

\* An answer brings a good token to the entry of the node it comes from.
LEMMA HandleReplyTokens ==
    ASSUME TypeInv, TokenInv, NEW m \in net, HandleReply(m)
    PROVE  TokenInv'
<1>1. /\ m \in Datagrams /\ m.kind = "r" /\ m.dst \in Searcher /\ m.src \in Node
      /\ m.token \in Tokens /\ m.nodes \in Seq(Peers)
  BY DEF TypeInv, NetType, Datagrams, HandleReply
<1>2. PICK s \in Searcher : s = m.dst
  BY <1>1
<1> DEFINE transaction == [tid |-> m.tid, target |-> m.src]
           tasks == {f \in flight[s] : f.tid = m.tid}
           entry == EntryOf(short_list[s], m.src)
           marked == [i \in DOMAIN short_list[s] |->
                        IF i \in entry THEN [short_list[s][i] EXCEPT !.state = "Queried",
                                                                     !.token = m.token]
                        ELSE short_list[s][i]]
           next == IF entry = {} THEN short_list[s] ELSE Merge(marked, m.nodes)
<1>3. short_list[s] \in Seq(Entries) /\ flight[s] \in SUBSET Tasks /\ pending[s] \in SUBSET Transactions
  BY DEF TypeInv, SearchType
<1>4. UNCHANGED <<secret, seen, refused>>
  BY DEF HandleReply
<1>5. CASE transaction \in pending[s] /\ tasks # {}
  <2>1. Continue(s, next, flight[s] \ tasks, pending[s] \ {transaction}, net \ {m})
    BY <1>2, <1>5 DEF HandleReply
  <2>2. phase[s] = "searching"
    BY <1>5 DEF TokenInv, Resting
  <2>3. marked \in Seq(Entries)
    <3> HIDE DEF entry
    <3> QED
      BY <1>1, <1>3, UpdatedList
  <2>4. s \in Announcer => ListTokens(s, marked)
    <3>1. SUFFICES ASSUME s \in Announcer, NEW i \in DOMAIN short_list[s], marked[i].token # NoToken
                   PROVE  GoodToken(marked[i].addr, s, marked[i].token)
      BY DEF ListTokens
    <3>2. short_list[s][i] \in Entries
      BY <1>3, LenProperties
    <3>3. CASE i \in entry
      <4>1. marked[i].addr = m.src /\ marked[i].token = m.token
        BY <3>2, <3>3 DEF EntryOf, Entries
      <4>2. GoodToken(m.src, s, m.token)
        BY <1>1, <1>2, <2>2, <3>1 DEF TokenInv, RepliesGood
      <4> QED
        BY <4>1, <4>2
    <3>4. CASE i \notin entry
      <4>1. marked[i] = short_list[s][i]
        BY <3>4
      <4> HIDE DEF marked
      <4> QED
        BY <2>2, <3>1, <4>1 DEF TokenInv, ListsGood, ListTokens
    <3> QED
      BY <3>3, <3>4
  <2> HIDE DEF marked
  <2>5. next \in Seq(Entries) /\ (s \in Announcer => ListTokens(s, next))
    <3>1. Merge(marked, m.nodes) \in Seq(Entries)
      BY <1>1, <2>3, MergeIs
    <3>2. s \in Announcer => ListTokens(s, Merge(marked, m.nodes))
      <4>1. \A k \in DOMAIN Merge(marked, m.nodes) :
               \/ \E i \in DOMAIN marked : Merge(marked, m.nodes)[k] = marked[i]
               \/ Merge(marked, m.nodes)[k].token = NoToken
        BY <1>1, <2>3, MergeFrom
      <4> QED
        BY <2>4, <4>1 DEF ListTokens
    <3>3. s \in Announcer => ListTokens(s, short_list[s])
      BY <2>2 DEF TokenInv, ListsGood
    <3> QED
      BY <1>3, <3>1, <3>2, <3>3
  <2> HIDE DEF next, tasks, transaction
  <2>6. /\ flight[s] \ tasks \in SUBSET Tasks /\ pending[s] \ {transaction} \in SUBSET Transactions
        /\ net \ {m} \in SUBSET net
    BY <1>3
  <2> QED
    BY <1>4, <2>1, <2>2, <2>5, <2>6, ContinueTokens
<1>6. CASE ~(transaction \in pending[s] /\ tasks # {})
  <2>1. net' = net \ {m} /\ UNCHANGED <<phase, short_list, flight>>
    BY <1>2, <1>6 DEF HandleReply
  <2>2. \A n, q, token : GoodToken(n, q, token)' <=> GoodToken(n, q, token)
    BY <1>4 DEF GoodToken
  <2> QED
    BY <1>4, <2>1, <2>2 DEF TokenInv, Resting, Silent, ListsGood, ListTokens, RepliesGood, AnnouncesGood
<1> QED
  BY <1>5, <1>6

\* The secret rotates: what is in use was issued after the last rotation, and those who
\* use it were at work at this one.
LEMMA RotateTokens ==
    ASSUME "slow" \notin Behaviours, TypeInv, TokenInv, NEW n \in Node, Rotate(n)
    PROVE  TokenInv'
<1>1. /\ \A s \in seen[n] : phase[s] # "searching"
      /\ secret' = [secret EXCEPT ![n] = @ + 1]
      /\ net' = net \ Announces(n, seen[n])
      /\ seen' = [seen EXCEPT ![n] =
            {s \in Announcer : phase[s] = "searching" \/ (Announces(n, {s}) \cap net') # {}}]
      /\ UNCHANGED <<phase, short_list, flight, refused>>
  BY DEF Rotate, InTime, searchVars
<1>2. /\ secret'[n] = secret[n] + 1 /\ \A q \in Node : q # n => secret'[q] = secret[q] /\ seen'[q] = seen[q]
      /\ seen'[n] = {s \in Announcer : phase[s] = "searching" \/ (Announces(n, {s}) \cap net') # {}}
      /\ secret[n] \in Nat
  BY <1>1 DEF TypeInv, NodesType
<1>3. ASSUME NEW q \in Node, NEW s \in Announcer, NEW token, GoodToken(q, s, token),
             q = n => s \notin seen[n] /\ s \in seen'[n]
      PROVE  GoodToken(q, s, token)'
  <2>1. CASE q # n
    BY <1>2, <1>3, <2>1 DEF GoodToken
  <2>2. CASE q = n
    <3>1. token = Token(n, secret[n], s) /\ secret[n] = secret'[n] - 1
      BY <1>2, <1>3, <2>2 DEF GoodToken
    <3> HIDE DEF Token
    <3>2. token = Token(n, secret'[n] - 1, s)
      BY <3>1
    <3> QED
      BY <1>3, <2>2, <3>2 DEF GoodToken
  <2> QED
    BY <2>1, <2>2
<1>4. \A s \in Announcer : phase[s] = "searching" => s \notin seen[n] /\ s \in seen'[n]
  BY <1>1, <1>2
<1>5. ListsGood'
  <2>1. SUFFICES ASSUME NEW s \in Announcer, phase[s] = "searching", NEW i \in DOMAIN short_list[s],
                        short_list[s][i].token # NoToken
                 PROVE  GoodToken(short_list[s][i].addr, s, short_list[s][i].token)'
    BY <1>1 DEF ListsGood, ListTokens
  <2>2. GoodToken(short_list[s][i].addr, s, short_list[s][i].token)
    BY <2>1 DEF TokenInv, ListsGood, ListTokens
  <2>3. short_list[s][i].addr \in Node
    <3>1. short_list[s] \in Seq(Entries)
      BY NodeAssumption DEF TypeInv, SearchType
    <3>2. short_list[s][i] \in Entries
      BY <3>1, LenProperties
    <3> QED
      BY <3>2 DEF Entries
  <2>4. PICK q, token : q = short_list[s][i].addr /\ token = short_list[s][i].token
    OBVIOUS
  <2>5. GoodToken(q, s, token)'
    BY <1>3, <1>4, <2>1, <2>2, <2>3, <2>4
  <2> QED
    BY <1>1, <2>4, <2>5
<1>6. RepliesGood'
  <2>1. SUFFICES ASSUME NEW m \in net, m.kind = "r", m.dst \in Announcer, phase[m.dst] = "searching"
                 PROVE  GoodToken(m.src, m.dst, m.token)'
    BY <1>1 DEF RepliesGood
  <2>2. m.src \in Node /\ GoodToken(m.src, m.dst, m.token)
    BY <2>1 DEF TypeInv, NetType, Datagrams, TokenInv, RepliesGood
  <2> QED
    BY <1>3, <1>4, <2>1, <2>2
<1>7. AnnouncesGood'
  <2>1. SUFFICES ASSUME NEW m \in net', m.kind = "announce_peer"
                 PROVE  m.src \in Announcer /\ GoodToken(m.dst, m.src, m.token)'
    BY DEF AnnouncesGood
  <2>2. m \in net /\ m \notin Announces(n, seen[n])
    BY <1>1
  <2>3. m.src \in Announcer /\ GoodToken(m.dst, m.src, m.token) /\ m.dst \in Node
    BY <2>1, <2>2 DEF TypeInv, NetType, Datagrams, TokenInv, AnnouncesGood
  <2>4. m.dst = n => m.src \notin seen[n] /\ m.src \in seen'[n]
    <3>1. m.dst = n => m \in Announces(n, {m.src}) \cap net'
      BY <2>1, <2>2 DEF Announces
    <3> QED
      BY <1>2, <2>1, <2>2, <2>3, <3>1 DEF Announces
  <2> QED
    BY <1>3, <2>3, <2>4
<1>8. Resting' /\ Silent' /\ ~refused'
  BY <1>1 DEF TokenInv, Resting, Silent
<1> QED
  BY <1>5, <1>6, <1>7, <1>8 DEF TokenInv

\* The other steps of a search pass on the tokens they find.
LEMMA SearchTokens ==
    ASSUME TypeInv, TokenInv, NEW s \in Searcher,
           StartSearch(s) \/ Cleanup(s) \/ \E f \in flight[s] : TaskFails(s, f)
    PROVE  TokenInv'
<1>1. CASE StartSearch(s)
  <2>1. s \in Node /\ K \in Nat /\ IdOf[s] \in NodeId /\ table[s] \in Tables(IdOf[s])
    BY NodeAssumption, DhtSizesAssumption, NodeTypes
  <2>2. PICK contacts \in Seq(Peers) : contacts = Closest(table[s], InfoHash, K)
    BY <2>1, ClosestIs
  <2>3. PICK list : list = Listed(contacts)
    OBVIOUS
  <2>4. list \in Seq(Entries) /\ ListTokens(s, list)
    BY <2>3, ListedIs DEF ListTokens
  <2>5. /\ Continue(s, list, {}, pending[s], net) /\ phase[s] # "done"
        /\ UNCHANGED <<secret, seen, refused>>
    BY <1>1, <2>2, <2>3 DEF StartSearch
  <2>6. {} \in SUBSET Tasks /\ pending[s] \in SUBSET Transactions /\ net \in SUBSET net
    BY DEF TypeInv, SearchType
  <2> QED
    BY <2>4, <2>5, <2>6, ContinueTokens
<1>2. CASE Cleanup(s)
  <2>1. UNCHANGED <<secret, seen, refused, net, phase, short_list, flight>>
    BY <1>2 DEF Cleanup
  <2>2. \A n, q, token : GoodToken(n, q, token)' <=> GoodToken(n, q, token)
    BY <2>1 DEF GoodToken
  <2> QED
    BY <2>1, <2>2 DEF TokenInv, Resting, Silent, ListsGood, ListTokens, RepliesGood, AnnouncesGood
<1>3. ASSUME NEW f \in flight[s], TaskFails(s, f)
      PROVE  TokenInv'
  <2> DEFINE entry == EntryOf(short_list[s], f.addr)
             failed == [i \in DOMAIN short_list[s] |->
                          IF i \in entry THEN [short_list[s][i] EXCEPT !.state = "Failed"]
                          ELSE short_list[s][i]]
  <2>1. /\ Continue(s, failed, flight[s] \ {f}, pending[s], net)
        /\ UNCHANGED <<secret, seen, refused>>
    BY <1>3 DEF TaskFails
  <2>2. short_list[s] \in Seq(Entries) /\ NoToken \in Tokens
    BY DEF TypeInv, SearchType, Tokens
  <2>3. failed \in Seq(Entries)
    <3> HIDE DEF entry
    <3> QED
      BY <2>2, UpdatedList
  <2>4. phase[s] = "searching"
    BY <1>3 DEF TokenInv, Resting
  <2>5. s \in Announcer => ListTokens(s, failed)
    <3>1. \A i \in DOMAIN short_list[s] : short_list[s][i] \in Entries
      BY <2>2, LenProperties
    <3>2. \A i \in DOMAIN short_list[s] : /\ failed[i].token = short_list[s][i].token
                                          /\ failed[i].addr = short_list[s][i].addr
      BY <3>1 DEF Entries
    <3>3. DOMAIN failed = DOMAIN short_list[s]
      OBVIOUS
    <3> HIDE DEF failed
    <3> QED
      BY <2>4, <3>2, <3>3 DEF TokenInv, ListsGood, ListTokens
  <2> HIDE DEF failed
  <2>6. flight[s] \ {f} \in SUBSET Tasks /\ pending[s] \in SUBSET Transactions /\ net \in SUBSET net
    BY DEF TypeInv, SearchType
  <2> QED
    BY <2>1, <2>3, <2>4, <2>5, <2>6, ContinueTokens
<1> QED
  BY <1>1, <1>2, <1>3

\* No announce_peer is ever refused, however often secrets rotate, as long as a search
\* and the delivery of its announces fit between two rotations.
THEOREM AnnouncesAccepted ==
    ASSUME "slow" \notin Behaviours
    PROVE  Spec => []AnnounceAccepted
<1>1. Init => TokenInv
  <2>1. SUFFICES ASSUME Init
                 PROVE  TokenInv
    OBVIOUS
  <2>2. \A s \in Announcer : phase[s] = "idle"
    BY <2>1, NodeAssumption DEF Init
  <2> QED
    BY <2>1, <2>2 DEF Init, TokenInv, Resting, Silent, ListsGood, RepliesGood, AnnouncesGood
<1>2. TypeInv /\ TokenInv /\ [Next]_vars => TokenInv'
  <2>1. SUFFICES ASSUME TypeInv, TokenInv, [Next]_vars
                 PROVE  TokenInv'
    OBVIOUS
  <2>2. CASE UNCHANGED vars
    <3>1. UNCHANGED <<secret, seen, refused, net, phase, short_list, flight>>
      BY <2>2 DEF vars, searchVars
    <3>2. \A n, q, token : GoodToken(n, q, token)' <=> GoodToken(n, q, token)
      BY <3>1 DEF GoodToken
    <3> QED
      BY <2>1, <3>1, <3>2
         DEF TokenInv, Resting, Silent, ListsGood, ListTokens, RepliesGood, AnnouncesGood
  <2>3. CASE \E m \in net : HandleQuery(m) \/ HandleReply(m)
    BY <2>1, <2>3, HandleQueryTokens, HandleReplyTokens
  <2>4. CASE \E n \in Node : Rotate(n)
    BY <2>1, <2>4, RotateTokens
  <2>5. CASE \E s \in Searcher : StartSearch(s) \/ Cleanup(s) \/ \E f \in flight[s] : TaskFails(s, f)
    BY <2>1, <2>5, SearchTokens
  <2> QED
    BY <2>1, <2>2, <2>3, <2>4, <2>5 DEF Next
<1>3. TokenInv => AnnounceAccepted
  BY DEF TokenInv, AnnounceAccepted
<1> QED
  BY <1>1, <1>2, <1>3, DhtTypeCorrect, PTL DEF Spec

-----------------------------------------------------------------------------
(* Searches: what a short list and the tasks that work on it agree about.  *)

\* No searcher's table holds a contact twice.  The code does not ensure this: after the
\* second split of a bucket a contact may be stored again elsewhere.
TablesDistinct == \A s \in Searcher : Distinct(table[s])

\* Node n is not on the list and never will be: the list is full of closer ones.
OutOf(list, n) ==
    Len(list) >= MaxShortList /\ \A i \in DOMAIN list : Closer(list[i].id, IdOf[n], InfoHash)

\* No two tasks ask one node or share a transaction; a transaction belongs to the node
\* its task waits for; a task is gone only when its entry was settled; and the entry of a
\* node that answered keeps its token, unless closer nodes drove it out.
TasksDiffer(tasks) == \A f, g \in tasks : f.addr = g.addr \/ f.tid = g.tid => f = g
TidsUsed(tasks, transactions, last) ==
    (\A f \in tasks : f.tid <= last) /\ (\A p \in transactions : p.tid <= last)
TidsAgree(tasks, transactions) ==
    \A f \in tasks, p \in transactions : p.tid = f.tid => p.target = f.addr
WaitedFor(list, tasks) ==
    \A i \in DOMAIN list : list[i].state = "InFlight" => \E f \in tasks : f.addr = list[i].addr
TasksListed(list, tasks) ==
    \A f \in tasks : \/ \E i \in DOMAIN list : list[i].addr = f.addr /\ list[i].state = "InFlight"
                     \/ OutOf(list, f.addr)
AnswersListed(list, got) ==
    \A n \in got : \/ \E i \in DOMAIN list : /\ list[i].addr = n
                                             /\ list[i].state = "Queried" /\ list[i].token # NoToken
                   \/ OutOf(list, n)
Consistent(list, tasks, transactions, last, got) ==
    /\ Ascends(list)
    /\ TasksDiffer(tasks) /\ TidsUsed(tasks, transactions, last) /\ TidsAgree(tasks, transactions)
    /\ WaitedFor(list, tasks) /\ TasksListed(list, tasks) /\ AnswersListed(list, got)

\* Searches not begun, at work, and done.
Rests(s) == phase[s] # "searching" => flight[s] = {}
Fresh(s) == phase[s] = "idle" => answered[s] = {}
Told(s) ==
    phase[s] = "done" =>
        /\ Unqueried(short_list[s]) = {}
        /\ s \in Announcer => announced[s] = {short_list[s][i].addr : i \in Announced(short_list[s])}
RepliesHaveTokens == \A m \in net : m.kind = "r" => m.token # NoToken
SearchInv ==
    /\ \A s \in Searcher :
          /\ Consistent(short_list[s], flight[s], pending[s], next_tid[s], answered[s])
          /\ Rests(s) /\ Fresh(s) /\ Told(s)
    /\ RepliesHaveTokens

\* With true ids, no two entries of a short list have the same address.
LEMMA AddrsDiffer ==
    ASSUME "pseudo" \notin Behaviours, NEW list \in Seq(Entries), Ascends(list),
           NEW i \in DOMAIN list, NEW j \in DOMAIN list, list[i].addr = list[j].addr
    PROVE  i = j
<1>1. DOMAIN list = 1..Len(list) /\ Len(list) \in Nat /\ list[i] \in Entries /\ list[j] \in Entries
  BY LenProperties
<1>2. list[i].id = list[j].id /\ list[i].id \in NodeId
  BY <1>1 DEF Entries
<1>3. ~Closer(list[i].id, list[j].id, InfoHash) /\ ~Closer(list[j].id, list[i].id, InfoHash)
  BY <1>2 DEF Closer
<1> QED
  BY <1>1, <1>3 DEF Ascends

\* The entry that an answer is applied to is the one of the node that sent it.
LEMMA EntryOfIs ==
    ASSUME "pseudo" \notin Behaviours, NEW list \in Seq(Entries), Ascends(list), NEW n
    PROVE  EntryOf(list, n) = {i \in DOMAIN list : list[i].addr = n}
<1>1. DOMAIN list = 1..Len(list) /\ Len(list) \in Nat
  BY LenProperties
<1>2. ASSUME NEW i \in DOMAIN list, list[i].addr = n, NEW j \in 1..(i - 1)
      PROVE  list[j].addr # n
  <2>1. j \in DOMAIN list /\ j # i
    BY <1>1, <1>2
  <2> QED
    BY <1>2, <2>1, AddrsDiffer
<1> QED
  BY <1>2 DEF EntryOf

\* Who is driven out is not listed.
LEMMA OutNotListed ==
    ASSUME "pseudo" \notin Behaviours, NEW list \in Seq(Entries), NEW n, OutOf(list, n),
           NEW i \in DOMAIN list
    PROVE  list[i].addr # n
<1>1. list[i] \in Entries
  BY LenProperties
<1>2. list[i].addr = n => list[i].id = IdOf[n]
  BY <1>1 DEF Entries
<1> QED
  BY <1>2 DEF OutOf, Closer

\* A list joined with its news holds no id twice.
LEMMA JoinedDistinct ==
    ASSUME NEW list \in Seq(Entries), Ascends(list), NEW contacts \in Seq(Peers),
           NEW x \in DOMAIN Joined(list, contacts), NEW y \in DOMAIN Joined(list, contacts), x # y
    PROVE  Joined(list, contacts)[x].id # Joined(list, contacts)[y].id
<1>1. PICK joined : joined = Joined(list, contacts)
  OBVIOUS
<1>2. PICK part : part = NewPart(list, contacts)
  OBVIOUS
<1>3. /\ joined \in Seq(Entries) /\ part \in Seq(Peers) /\ Len(joined) = Len(list) + Len(part)
      /\ \A i \in 1..Len(list) : joined[i] = list[i]
      /\ \A k \in 1..Len(part) : joined[Len(list) + k] = Listed(part)[k]
  BY <1>1, <1>2, JoinedIs
<1>4. /\ Len(list) \in Nat /\ DOMAIN list = 1..Len(list) /\ Len(part) \in Nat
      /\ DOMAIN part = 1..Len(part) /\ DOMAIN joined = 1..Len(joined)
  BY <1>3, LenProperties
<1>5. \A k \in 1..Len(part) : joined[Len(list) + k].id = part[k].id
  <2>1. TAKE k \in 1..Len(part)
  <2>2. joined[Len(list) + k] = Listed(part)[k]
    BY <1>3
  <2>3. Listed(part)[k].id = part[k].id
    BY <1>3, <1>4, ListedIs
  <2> QED
    BY <2>2, <2>3
<1>6. News(list, contacts) \in SUBSET (DOMAIN contacts) /\ DOMAIN contacts = 1..Len(contacts)
      /\ Len(contacts) \in Nat
  BY LenProperties DEF News
<1>7. \A k \in 1..Len(part) : \E i \in News(list, contacts) : part[k] = contacts[i]
  <2>1. \A r \in DOMAIN Part(contacts, News(list, contacts)) :
           \E i \in News(list, contacts) : Part(contacts, News(list, contacts))[r] = contacts[i]
    BY <1>6, PartKeeps
  <2> QED
    BY <1>2, <1>4, <2>1 DEF NewPart
<1>8. \A k, l \in 1..Len(part) : k < l => part[k].id # part[l].id
  <2>1. \A r, q \in DOMAIN Part(contacts, News(list, contacts)) : r < q =>
           \E i, j \in News(list, contacts) :
              /\ i < j
              /\ Part(contacts, News(list, contacts))[r] = contacts[i]
              /\ Part(contacts, News(list, contacts))[q] = contacts[j]
    <3>1. News(list, contacts) \in SUBSET (DOMAIN contacts)
      BY <1>6
    <3> QED
      BY <3>1, PartKeeps
  <2>2. \A i, j \in News(list, contacts) : i < j => contacts[i].id # contacts[j].id
    <3>1. TAKE i, j \in News(list, contacts)
    <3>2. HAVE i < j
    <3>3. i \in 1..(j - 1)
      BY <1>6, <3>2
    <3> QED
      BY <3>3 DEF News
  <2>3. SUFFICES ASSUME NEW k \in 1..Len(part), NEW l \in 1..Len(part), k < l
                 PROVE  part[k].id # part[l].id
    OBVIOUS
  <2>4. PICK i \in News(list, contacts), j \in News(list, contacts) :
           i < j /\ part[k] = contacts[i] /\ part[l] = contacts[j]
    BY <1>2, <1>4, <2>1, <2>3 DEF NewPart
  <2> QED
    BY <2>2, <2>4
<1>9. \A i \in 1..Len(list), k \in 1..Len(part) : joined[i].id # joined[Len(list) + k].id
  <2>1. \A i \in 1..Len(list), k \in 1..Len(part) : list[i].id # part[k].id
    BY <1>4, <1>7 DEF News
  <2>2. TAKE i \in 1..Len(list), k \in 1..Len(part)
  <2>3. joined[i] = list[i] /\ joined[Len(list) + k].id = part[k].id
    BY <1>3, <1>5
  <2>4. list[i].id # part[k].id
    BY <2>1
  <2> QED
    BY <2>3, <2>4
<1>10. \A i, j \in 1..Len(list) : i < j => joined[i].id # joined[j].id
  <2>1. TAKE i, j \in 1..Len(list)
  <2>2. HAVE i < j
  <2>3. Closer(list[i].id, list[j].id, InfoHash)
    BY <1>4, <2>2 DEF Ascends
  <2>4. list[i].id # list[j].id
    BY <2>3 DEF Closer
  <2>5. joined[i] = list[i] /\ joined[j] = list[j]
    BY <1>3
  <2> QED
    BY <2>4, <2>5
<1>11. ASSUME NEW a \in 1..Len(joined), NEW b \in 1..Len(joined), a < b
       PROVE  joined[a].id # joined[b].id
  <2>1. CASE b <= Len(list)
    <3>1. a \in 1..Len(list) /\ b \in 1..Len(list)
      BY <1>3, <1>4, <1>11, <2>1
    <3> QED
      BY <1>10, <1>11, <3>1
  <2>2. CASE a <= Len(list) /\ ~(b <= Len(list))
    <3>1. a \in 1..Len(list) /\ b - Len(list) \in 1..Len(part) /\ b = Len(list) + (b - Len(list))
      BY <1>3, <1>4, <1>11, <2>2
    <3> QED
      BY <1>9, <3>1
  <2>3. CASE ~(a <= Len(list))
    <3>1. /\ a - Len(list) \in 1..Len(part) /\ a = Len(list) + (a - Len(list))
          /\ b - Len(list) \in 1..Len(part) /\ b = Len(list) + (b - Len(list))
          /\ a - Len(list) < b - Len(list)
      BY <1>3, <1>4, <1>11, <2>3
    <3>2. part[a - Len(list)].id # part[b - Len(list)].id
      BY <1>8, <3>1
    <3> QED
      BY <1>5, <3>1, <3>2
  <2> QED
    BY <1>3, <1>4, <1>11, <2>1, <2>2, <2>3
<1>12. x < y \/ y < x
  BY <1>1, <1>3, <1>4
<1> QED
  BY <1>1, <1>4, <1>11, <1>12

\* The entries of a list, and perhaps others, closest first and none twice.
Holds(all, list) ==
    all \in Seq(Entries) /\ Ascends(all) /\ \A i \in DOMAIN list : \E p \in DOMAIN all : all[p] = list[i]

\* Merge cuts such a list.
LEMMA MergeSorts ==
    ASSUME NEW list \in Seq(Entries), Ascends(list), NEW contacts \in Seq(Peers)
    PROVE  \E all : Holds(all, list) /\ Merge(list, contacts) = CutTo(all, MaxShortList)
<1>1. PICK joined : joined = Joined(list, contacts)
  OBVIOUS
<1>2. PICK all : all = Sorted(joined)
  OBVIOUS
<1>3. joined \in Seq(Entries) /\ all \in Seq(Entries) /\ Merge(list, contacts) = CutTo(all, MaxShortList)
  BY <1>1, <1>2, JoinedIs, MergeIs
<1>4. IsSorted(all, joined, DOMAIN joined, InfoHash)
  BY <1>2, <1>3, SortedIs
<1>5. Ascends(all)
  <2>1. SUFFICES ASSUME NEW r \in DOMAIN all, NEW q \in DOMAIN all, r < q
                 PROVE  Closer(all[r].id, all[q].id, InfoHash)
    BY DEF Ascends
  <2>2. PICK x \in DOMAIN joined, y \in DOMAIN joined :
           /\ x # y /\ all[r] = joined[x] /\ all[q] = joined[y]
           /\ Closer(joined[x].id, joined[y].id, InfoHash) \/ joined[x].id = joined[y].id
    BY <1>4, <2>1 DEF IsSorted
  <2>3. joined[x].id # joined[y].id
    BY <1>1, <2>2, JoinedDistinct
  <2> QED
    BY <2>2, <2>3
<1>6. ASSUME NEW i \in DOMAIN list
      PROVE  \E p \in DOMAIN all : all[p] = list[i]
  <2>1. i \in DOMAIN joined /\ joined[i] = list[i]
    <3>1. DOMAIN list = 1..Len(list) /\ DOMAIN joined = 1..Len(joined) /\ Len(list) \in Nat
      BY <1>3, LenProperties
    <3>2. /\ Len(joined) = Len(list) + Len(NewPart(list, contacts))
          /\ \A j \in 1..Len(list) : joined[j] = list[j]
          /\ NewPart(list, contacts) \in Seq(Peers)
      BY <1>1, JoinedIs
    <3>3. Len(NewPart(list, contacts)) \in Nat
      BY <3>2, LenProperties
    <3> QED
      BY <3>1, <3>2, <3>3
  <2>2. \E r \in DOMAIN all : all[r] = joined[i]
    BY <1>4, <2>1 DEF IsSorted
  <2> QED
    BY <2>1, <2>2
<1> QED
  BY <1>3, <1>5, <1>6 DEF Holds

\* The merged list is closest first, and who is missing from it was driven out.
LEMMA MergeKeepsOrDrops ==
    ASSUME NEW list \in Seq(Entries), Ascends(list), NEW contacts \in Seq(Peers)
    PROVE  /\ Ascends(Merge(list, contacts))
           /\ \A i \in DOMAIN list :
                 \/ \E p \in DOMAIN Merge(list, contacts) : Merge(list, contacts)[p] = list[i]
                 \/ /\ Len(Merge(list, contacts)) >= MaxShortList
                    /\ \A p \in DOMAIN Merge(list, contacts) :
                          Closer(Merge(list, contacts)[p].id, list[i].id, InfoHash)
<1>1. PICK all : Holds(all, list) /\ Merge(list, contacts) = CutTo(all, MaxShortList)
  BY MergeSorts
<1>2. PICK merged : merged = Merge(list, contacts)
  OBVIOUS
<1>3. MaxShortList \in Nat /\ all \in Seq(Entries) /\ Ascends(all)
  BY <1>1, DhtSizesAssumption DEF Holds
<1>4. /\ merged \in Seq(Entries)
      /\ Len(merged) = IF Len(all) <= MaxShortList THEN Len(all) ELSE MaxShortList
      /\ \A i \in DOMAIN merged : i \in DOMAIN all /\ merged[i] = all[i]
  BY <1>1, <1>2, <1>3, Cut
<1>5. /\ Len(merged) \in Nat /\ DOMAIN merged = 1..Len(merged)
      /\ Len(all) \in Nat /\ DOMAIN all = 1..Len(all)
  BY <1>3, <1>4, LenProperties
<1>6. Ascends(merged)
  BY <1>3, <1>4 DEF Ascends
<1>7. ASSUME NEW i \in DOMAIN list, ~\E p \in DOMAIN merged : merged[p] = list[i]
      PROVE  /\ Len(merged) >= MaxShortList
             /\ \A p \in DOMAIN merged : Closer(merged[p].id, list[i].id, InfoHash)
  <2>1. PICK q \in DOMAIN all : all[q] = list[i]
    BY <1>1 DEF Holds
  <2>2. q \notin DOMAIN merged
    BY <1>4, <1>7, <2>1
  <2>3. q > Len(merged) /\ Len(merged) = MaxShortList
    <3>1. q \in 1..Len(all) /\ q \notin 1..Len(merged)
      BY <1>5, <2>2
    <3>2. q > Len(merged) /\ Len(merged) < Len(all)
      BY <1>5, <3>1
    <3>3. /\ Len(merged) = IF Len(all) <= MaxShortList THEN Len(all) ELSE MaxShortList
          /\ Len(merged) \in Nat /\ Len(all) \in Nat
      BY <1>4, <1>5
    <3> QED
      BY <3>2, <3>3
  <2>4. ASSUME NEW p \in DOMAIN merged
        PROVE  Closer(merged[p].id, list[i].id, InfoHash)
    <3>1. p < q /\ p \in DOMAIN all /\ merged[p] = all[p]
      BY <1>4, <1>5, <2>3
    <3> QED
      BY <1>3, <2>1, <3>1 DEF Ascends
  <2> QED
    BY <1>3, <2>3, <2>4
<1> QED
  BY <1>2, <1>6, <1>7

\* Who was driven out stays out: the merged list holds only entries at least as close
\* as the farthest one of the full list it replaces.
LEMMA MergeOut ==
    ASSUME NEW list \in Seq(Entries), Ascends(list), NEW contacts \in Seq(Peers),
           NEW n \in Node, OutOf(list, n)
    PROVE  OutOf(Merge(list, contacts), n)
<1>1. PICK all : Holds(all, list) /\ Merge(list, contacts) = CutTo(all, MaxShortList)
  BY MergeSorts
<1>2. PICK merged : merged = Merge(list, contacts)
  OBVIOUS
<1>3. MaxShortList \in Nat /\ all \in Seq(Entries) /\ Ascends(all)
  BY <1>1, DhtSizesAssumption DEF Holds
<1>4. /\ merged \in Seq(Entries)
      /\ Len(merged) = IF Len(all) <= MaxShortList THEN Len(all) ELSE MaxShortList
      /\ \A i \in DOMAIN merged : i \in DOMAIN all /\ merged[i] = all[i]
  BY <1>1, <1>2, <1>3, Cut
<1>5. /\ Len(merged) \in Nat /\ DOMAIN merged = 1..Len(merged)
      /\ Len(all) \in Nat /\ DOMAIN all = 1..Len(all)
      /\ Len(list) \in Nat /\ DOMAIN list = 1..Len(list)
      /\ \A p \in DOMAIN all : all[p] \in Entries
  BY <1>3, <1>4, LenProperties
<1> DEFINE at == [i \in 1..Len(list) |-> CHOOSE p \in DOMAIN all : all[p] = list[i]]
<1>6. \A i \in 1..Len(list) : at[i] \in DOMAIN all /\ all[at[i]] = list[i]
  <2>1. \A i \in 1..Len(list) : \E p \in DOMAIN all : all[p] = list[i]
    BY <1>1, <1>5 DEF Holds
  <2> QED
    BY <2>1
<1>7. DOMAIN at = 1..Len(list)
  OBVIOUS
<1>8. at \in [1..Len(list) -> 1..Len(all)]
  BY <1>5, <1>6
<1> HIDE DEF at
<1>9. \A i, j \in 1..Len(list) : at[i] = at[j] => i = j
  <2>1. \A i, j \in 1..Len(list) : i < j => list[i] # list[j]
    BY <1>5 DEF Ascends, Closer
  <2>2. \A i, j \in 1..Len(list) : at[i] = at[j] => list[i] = list[j]
    BY <1>6
  <2>3. \A i, j \in 1..Len(list) : i # j => i < j \/ j < i
    BY <1>5
  <2> QED
    BY <2>1, <2>2, <2>3
\* So a place of all before which no list entry is missing comes after all of them.
<1>10. ASSUME NEW k \in Nat, at \in [1..Len(list) -> 1..k]
       PROVE  Len(list) <= k
  <2>1. at \in Injection(1..Len(list), 1..k)
    BY <1>9, <1>10, Fun_IsInj
  <2>2. IsFiniteSet(1..k) /\ Cardinality(1..k) = k
    BY FS_Interval
  <2>3. PICK len \in Nat : len = Len(list)
    BY <1>5
  <2>4. Cardinality(1..len) = len
    BY FS_Interval
  <2> QED
    BY <2>1, <2>2, <2>3, <2>4, FS_Injection
<1>11. Len(merged) >= MaxShortList
  BY <1>3, <1>4, <1>5, <1>8, <1>10 DEF OutOf
<1>12. ASSUME NEW p \in DOMAIN merged, ~Closer(merged[p].id, IdOf[n], InfoHash)
       PROVE  FALSE
  <2>1. p \in DOMAIN all /\ merged[p] = all[p] /\ p \in Nat /\ p >= 1 /\ p <= MaxShortList
    BY <1>3, <1>4, <1>5
  <2>2. IdOf[n] \in NodeId /\ InfoHash \in NodeId
    BY IdAssumption
  <2>3. \A i \in 1..Len(list) : at[i] < p
    <3>1. TAKE i \in 1..Len(list)
    <3>2. Closer(all[at[i]].id, IdOf[n], InfoHash)
      BY <1>5, <1>6 DEF OutOf
    <3>3. at[i] # p
      BY <1>12, <2>1, <3>2
    <3>4. ~(p < at[i])
      <4>1. SUFFICES ASSUME p < at[i] PROVE FALSE
        OBVIOUS
      <4>2. Closer(all[p].id, all[at[i]].id, InfoHash)
        BY <1>3, <1>6, <2>1, <4>1 DEF Ascends
      <4>3. all[p].id \in NodeId /\ all[at[i]].id \in NodeId
        BY <1>5, <1>6, <2>1 DEF Entries
      <4>4. Closer(all[p].id, IdOf[n], InfoHash)
        BY <2>2, <3>2, <4>2, <4>3, CloserOrders
      <4> QED
        BY <1>12, <2>1, <4>4
    <3> QED
      BY <1>5, <1>6, <2>1, <3>3, <3>4
  <2>4. at \in [1..Len(list) -> 1..(p - 1)]
    BY <1>7, <1>8, <2>1, <2>3
  <2>5. Len(list) <= p - 1
    BY <1>10, <2>1, <2>4
  <2> QED
    BY <1>3, <1>5, <2>1, <2>5 DEF OutOf
<1> QED
  BY <1>2, <1>11, <1>12 DEF OutOf

\* What marking entries as asked changes.
LEMMA MarkedIs ==
    ASSUME NEW list \in Seq(Entries), NEW asked \in SUBSET (DOMAIN list)
    PROVE  /\ DOMAIN Marked(list, asked) = DOMAIN list /\ Len(Marked(list, asked)) = Len(list)
           /\ \A i \in DOMAIN list :
                 /\ Marked(list, asked)[i].id = list[i].id
                 /\ Marked(list, asked)[i].addr = list[i].addr
                 /\ Marked(list, asked)[i].token = list[i].token
                 /\ Marked(list, asked)[i].state = IF i \in asked THEN "InFlight" ELSE list[i].state
           /\ asked = {} => Marked(list, asked) = list
<1>1. Len(list) \in Nat /\ DOMAIN list = 1..Len(list) /\ \A i \in DOMAIN list : list[i] \in Entries
  BY LenProperties
<1>2. list = [i \in DOMAIN list |-> list[i]]
  BY <1>1
<1>3. \A e \in Entries : LET f == [e EXCEPT !.state = "InFlight"]
                         IN f.id = e.id /\ f.addr = e.addr /\ f.token = e.token /\ f.state = "InFlight"
  BY DEF Entries
<1>4. DOMAIN Marked(list, asked) = 1..Len(list) /\ Len(Marked(list, asked)) = Len(list)
  BY <1>1 DEF Marked
<1> QED
  BY <1>1, <1>2, <1>3, <1>4 DEF Marked

\* The transaction ids of a round are new and different.
LEMMA TidsDiffer ==
    ASSUME NEW s, next_tid[s] \in Nat, NEW n \in Nat, NEW asked \in SUBSET (1..n)
    PROVE  /\ Cardinality(asked) \in Nat
           /\ \A i \in asked : /\ TidOf(s, asked, i) \in Nat /\ TidOf(s, asked, i) > next_tid[s]
                               /\ TidOf(s, asked, i) <= next_tid[s] + Cardinality(asked)
           /\ \A i, j \in asked : TidOf(s, asked, i) = TidOf(s, asked, j) => i = j
<1> DEFINE Upto(i) == {j \in asked : j <= i}
<1>1. IsFiniteSet(asked) /\ Cardinality(asked) \in Nat /\ asked \in SUBSET Nat
  <2>1. IsFiniteSet(asked)
    BY AscendingOrders
  <2> QED
    BY <2>1, FS_CardinalityType
<1>2. ASSUME NEW i \in asked
      PROVE  /\ IsFiniteSet(Upto(i)) /\ Cardinality(Upto(i)) \in Nat
             /\ Cardinality(Upto(i)) <= Cardinality(asked) /\ Cardinality(Upto(i)) > 0
  <2>1. IsFiniteSet(Upto(i)) /\ Cardinality(Upto(i)) <= Cardinality(asked)
    BY <1>1, FS_Subset
  <2>2. Cardinality(Upto(i)) \in Nat
    BY <2>1, FS_CardinalityType
  <2>3. i \in Upto(i)
    OBVIOUS
  <2>4. Cardinality(Upto(i)) # 0
    BY <2>1, <2>3, FS_EmptySet
  <2> QED
    BY <2>1, <2>2, <2>4
<1>3. ASSUME NEW i \in asked, NEW j \in asked, i < j
      PROVE  Cardinality(Upto(i)) # Cardinality(Upto(j))
  <2>1. Upto(i) \subseteq Upto(j) /\ j \in Upto(j) /\ j \notin Upto(i)
    <3>1. i \in Nat /\ j \in Nat /\ \A k \in asked : k \in Nat
      BY <1>1
    <3>2. \A k \in asked : k <= i => k <= j
      BY <1>3, <3>1
    <3>3. ~(j <= i) /\ j <= j
      BY <1>3, <3>1
    <3> QED
      BY <3>2, <3>3
  <2>2. Cardinality(Upto(j)) = Cardinality(Upto(i)) => Upto(j) = Upto(i)
    BY <1>2, <2>1, FS_Subset
  <2> QED
    BY <2>1, <2>2
<1>4. \A i \in asked : TidOf(s, asked, i) = next_tid[s] + Cardinality(Upto(i))
  BY DEF TidOf
<1> HIDE DEF Upto
<1>5. \A i, j \in asked : TidOf(s, asked, i) = TidOf(s, asked, j) => i = j
  <2>1. TAKE i, j \in asked
  <2>2. HAVE TidOf(s, asked, i) = TidOf(s, asked, j)
  <2>3. Cardinality(Upto(i)) = Cardinality(Upto(j))
    BY <1>2, <1>4, <2>2
  <2>4. i < j \/ j < i \/ i = j
    OBVIOUS
  <2> QED
    BY <1>3, <2>3, <2>4
<1>6. \A i \in asked : /\ TidOf(s, asked, i) \in Nat /\ TidOf(s, asked, i) > next_tid[s]
                       /\ TidOf(s, asked, i) <= next_tid[s] + Cardinality(asked)
  BY <1>1, <1>2, <1>4
<1> QED
  BY <1>1, <1>5, <1>6

\* When nothing is in flight and nothing is asked, nothing is left to ask.
LEMMA AllAsked ==
    ASSUME NEW list \in Seq(Entries), Asked(list, {}) = {}
    PROVE  Unqueried(list) = {}
<1>1. Len(list) \in Nat /\ DOMAIN list = 1..Len(list)
  BY LenProperties
<1>2. Unqueried(list) \in SUBSET Nat
  BY <1>1 DEF Unqueried
<1>3. SUFFICES ASSUME Unqueried(list) # {}
               PROVE  FALSE
  OBVIOUS
<1>4. PICK i \in Unqueried(list) : \A j \in Unqueried(list) : i <= j
  BY <1>2, <1>3, Least
<1>5. {j \in Unqueried(list) : j < i} = {}
  BY <1>2, <1>4
<1>6. Alpha \in Nat /\ Alpha > 0 /\ Cardinality({}) = 0
  BY DhtSizesAssumption, FS_EmptySet
<1>7. Room({}, Alpha) = Alpha
  BY <1>6 DEF Room
<1>8. i \in FirstOf(Unqueried(list), Alpha)
  BY <1>4, <1>5, <1>6 DEF FirstOf
<1> QED
  BY <1>7, <1>8 DEF Asked

\* A round of the search loop keeps list, tasks and transactions in step: it asks only
\* entries nobody waits for, under new transaction ids.
LEMMA RoundConsistent ==
    ASSUME "pseudo" \notin Behaviours, NEW s, next_tid[s] \in Nat, NEW list \in Seq(Entries),
           NEW tasks \in SUBSET Tasks, NEW transactions \in SUBSET Transactions, NEW got \in SUBSET Node,
           Consistent(list, tasks, transactions, next_tid[s], got),
           NEW asked \in SUBSET Unqueried(list), NEW queries \in SUBSET (DOMAIN list),
           asked \subseteq queries, NEW sent \in SUBSET queries,
           NEW newTasks, newTasks = NewTasks(s, list, asked, queries),
           NEW newTids, newTids = NewTids(s, list, queries, sent)
    PROVE  Consistent(Marked(list, asked), tasks \cup newTasks, transactions \cup newTids,
                      next_tid[s] + Cardinality(queries), got)
<1>1. Len(list) \in Nat /\ DOMAIN list = 1..Len(list) /\ \A i \in DOMAIN list : list[i] \in Entries
  BY LenProperties
<1>2. /\ asked \in SUBSET (DOMAIN list) /\ queries \in SUBSET (1..Len(list))
      /\ \A i \in asked : list[i].state = "Unqueried"
  BY <1>1 DEF Unqueried
<1>3. PICK marked : marked = Marked(list, asked)
  OBVIOUS
<1>4. /\ DOMAIN marked = DOMAIN list /\ Len(marked) = Len(list)
      /\ \A i \in DOMAIN list :
                 /\ marked[i].id = list[i].id
                 /\ marked[i].addr = list[i].addr
                 /\ marked[i].token = list[i].token
                 /\ marked[i].state = IF i \in asked THEN "InFlight" ELSE list[i].state
  BY <1>2, <1>3, MarkedIs
<1>5. PICK last : last = next_tid[s] + Cardinality(queries)
  OBVIOUS
<1>6. PICK tid : tid = [i \in queries |-> TidOf(s, queries, i)]
  OBVIOUS
<1>7. /\ last \in Nat /\ last >= next_tid[s]
      /\ \A i \in queries : tid[i] \in Nat /\ tid[i] > next_tid[s] /\ tid[i] <= last
      /\ \A i, j \in queries : tid[i] = tid[j] => i = j
  <2>1. /\ Cardinality(queries) \in Nat
        /\ \A i \in queries : /\ TidOf(s, queries, i) \in Nat /\ TidOf(s, queries, i) > next_tid[s]
                              /\ TidOf(s, queries, i) <= next_tid[s] + Cardinality(queries)
        /\ \A i, j \in queries : TidOf(s, queries, i) = TidOf(s, queries, j) => i = j
    BY <1>1, <1>2, TidsDiffer
  <2> QED
    BY <1>5, <1>6, <2>1
<1>8. /\ newTasks = {[addr |-> list[i].addr, tid |-> tid[i]] : i \in asked}
      /\ newTids = {[tid |-> tid[i], target |-> list[i].addr] : i \in sent}
  BY <1>6 DEF NewTasks, NewTids
<1>9. /\ \A f \in newTasks : \E i \in asked : f = [addr |-> list[i].addr, tid |-> tid[i]]
      /\ \A i \in asked : [addr |-> list[i].addr, tid |-> tid[i]] \in newTasks
      /\ \A p \in newTids : \E i \in queries : p = [tid |-> tid[i], target |-> list[i].addr]
  BY <1>8
<1>10. /\ Ascends(list) /\ TasksDiffer(tasks) /\ TidsUsed(tasks, transactions, next_tid[s])
       /\ TidsAgree(tasks, transactions)
       /\ WaitedFor(list, tasks) /\ TasksListed(list, tasks) /\ AnswersListed(list, got)
  BY DEF Consistent
<1>11. Ascends(marked)
  BY <1>4, <1>10 DEF Ascends
<1>12. \A n : OutOf(list, n) => OutOf(marked, n)
  BY <1>4 DEF OutOf
<1>13. /\ \A f \in tasks : f.tid \in Nat /\ f.tid <= next_tid[s]
       /\ \A p \in transactions : p.tid \in Nat /\ p.tid <= next_tid[s]
  BY <1>10 DEF TidsUsed, Tasks, Transactions
<1>14. \A f \in tasks, i \in queries : f.tid # tid[i] /\ (i \in asked => f.addr # list[i].addr)
  <2>1. TAKE f \in tasks, i \in queries
  <2>2. f.tid # tid[i]
    BY <1>7, <1>13
  <2>3. ASSUME i \in asked PROVE f.addr # list[i].addr
    <3>1. CASE \E j \in DOMAIN list : list[j].addr = f.addr /\ list[j].state = "InFlight"
      <4>1. PICK j \in DOMAIN list : list[j].addr = f.addr /\ list[j].state = "InFlight"
        BY <3>1
      <4>2. j # i /\ i \in DOMAIN list
        BY <1>2, <2>3, <4>1
      <4> QED
        BY <1>10, <4>1, <4>2, AddrsDiffer
    <3>2. CASE OutOf(list, f.addr)
      BY <1>2, <2>3, <3>2, OutNotListed
    <3> QED
      BY <1>10, <3>1, <3>2 DEF TasksListed
  <2> QED
    BY <2>2, <2>3
<1>15. TasksDiffer(tasks \cup newTasks)
  <2>1. ASSUME NEW f \in newTasks, NEW g \in newTasks, f.addr = g.addr \/ f.tid = g.tid
        PROVE  f = g
    <3>1. PICK i \in asked, j \in asked : /\ f = [addr |-> list[i].addr, tid |-> tid[i]]
                                          /\ g = [addr |-> list[j].addr, tid |-> tid[j]]
      BY <1>9
    <3>2. CASE f.tid = g.tid
      BY <1>7, <3>1, <3>2
    <3>3. CASE f.addr = g.addr
      <4>1. list[i].addr = list[j].addr /\ i \in DOMAIN list /\ j \in DOMAIN list
        BY <1>2, <3>1, <3>3
      <4>2. i = j
        BY <1>10, <4>1, AddrsDiffer
      <4> QED
        BY <3>1, <4>2
    <3> QED
      BY <2>1, <3>2, <3>3
  <2>2. ASSUME NEW f \in tasks, NEW g \in newTasks
        PROVE  f.addr # g.addr /\ f.tid # g.tid
    <3>1. PICK i \in asked : g = [addr |-> list[i].addr, tid |-> tid[i]]
      BY <1>9
    <3> QED
      BY <1>14, <3>1
  <2> QED
    BY <1>10, <2>1, <2>2 DEF TasksDiffer
<1>16. TidsUsed(tasks \cup newTasks, transactions \cup newTids, last)
  <2>1. \A f \in newTasks : f.tid <= last
    BY <1>7, <1>9
  <2>2. \A p \in newTids : p.tid <= last
    BY <1>7, <1>9
  <2>3. (\A f \in tasks : f.tid <= last) /\ (\A p \in transactions : p.tid <= last)
    BY <1>7, <1>13
  <2> QED
    BY <2>1, <2>2, <2>3 DEF TidsUsed
<1>17. TidsAgree(tasks \cup newTasks, transactions \cup newTids)
  <2>1. ASSUME NEW f \in tasks, NEW p \in newTids
        PROVE  p.tid # f.tid
    <3>1. PICK i \in queries : p = [tid |-> tid[i], target |-> list[i].addr]
      BY <1>9
    <3> QED
      BY <1>14, <3>1
  <2>2. ASSUME NEW f \in newTasks, NEW p \in transactions
        PROVE  p.tid # f.tid
    <3>1. PICK i \in asked : f = [addr |-> list[i].addr, tid |-> tid[i]]
      BY <1>9
    <3> QED
      BY <1>7, <1>13, <3>1
  <2>3. ASSUME NEW f \in newTasks, NEW p \in newTids, p.tid = f.tid
        PROVE  p.target = f.addr
    <3>1. PICK i \in asked, j \in queries : /\ f = [addr |-> list[i].addr, tid |-> tid[i]]
                                            /\ p = [tid |-> tid[j], target |-> list[j].addr]
      BY <1>9
    <3>2. tid[i] = tid[j]
      BY <2>3, <3>1
    <3>3. i = j
      BY <1>7, <3>2
    <3> QED
      BY <3>1, <3>3
  <2> QED
    BY <1>10, <2>1, <2>2, <2>3 DEF TidsAgree
<1>18. WaitedFor(marked, tasks \cup newTasks)
  <2>1. SUFFICES ASSUME NEW i \in DOMAIN list, marked[i].state = "InFlight"
                 PROVE  \E f \in tasks \cup newTasks : f.addr = list[i].addr
    BY <1>4 DEF WaitedFor
  <2>2. CASE i \in asked
    <3>1. PICK f \in newTasks : f = [addr |-> list[i].addr, tid |-> tid[i]]
      BY <1>9, <2>2
    <3>2. f.addr = list[i].addr
      BY <3>1
    <3> QED
      BY <3>2
  <2>3. CASE i \notin asked
    BY <1>4, <1>10, <2>1, <2>3 DEF WaitedFor
  <2> QED
    BY <2>2, <2>3
<1>19. TasksListed(marked, tasks \cup newTasks)
  <2>1. ASSUME NEW f \in tasks
        PROVE  \/ \E i \in DOMAIN marked : marked[i].addr = f.addr /\ marked[i].state = "InFlight"
               \/ OutOf(marked, f.addr)
    BY <1>4, <1>10, <1>12 DEF TasksListed
  <2>2. ASSUME NEW f \in newTasks
        PROVE  \E i \in DOMAIN marked : marked[i].addr = f.addr /\ marked[i].state = "InFlight"
    <3>1. PICK i \in asked : f = [addr |-> list[i].addr, tid |-> tid[i]]
      BY <1>9
    <3>2. f.addr = list[i].addr /\ i \in DOMAIN list
      BY <1>2, <3>1
    <3> QED
      BY <1>4, <3>2
  <2> QED
    BY <2>1, <2>2 DEF TasksListed
<1>20. AnswersListed(marked, got)
  <2>1. SUFFICES ASSUME NEW n \in got, ~OutOf(marked, n)
                 PROVE  \E i \in DOMAIN marked : /\ marked[i].addr = n
                                                 /\ marked[i].state = "Queried" /\ marked[i].token # NoToken
    BY DEF AnswersListed
  <2>2. PICK i \in DOMAIN list : list[i].addr = n /\ list[i].state = "Queried" /\ list[i].token # NoToken
    BY <1>10, <1>12, <2>1 DEF AnswersListed
  <2>3. i \notin asked
    BY <1>2, <2>2
  <2>4. /\ i \in DOMAIN marked /\ marked[i].addr = n
        /\ marked[i].state = "Queried" /\ marked[i].token # NoToken
    <3> HIDE DEF NoToken
    <3> QED
      BY <1>4, <2>2, <2>3
  <2> QED
    BY <2>4
<1> QED
  BY <1>3, <1>5, <1>11, <1>15, <1>16, <1>17, <1>18, <1>19, <1>20 DEF Consistent

\* A round entered with a consistent list leaves every search as it should be.
LEMMA ContinueSearch ==
    ASSUME "pseudo" \notin Behaviours, TypeInv, SearchInv, NEW s \in Searcher,
           NEW list \in Seq(Entries), NEW tasks \in SUBSET Tasks,
           NEW transactions \in SUBSET Transactions, NEW datagrams \in SUBSET net,
           NEW got \in SUBSET Node, Consistent(list, tasks, transactions, next_tid[s], got),
           Continue(s, list, tasks, transactions, datagrams), answered' = [answered EXCEPT ![s] = got]
    PROVE  SearchInv'
<1>1. PICK asked, targets, queries, sent :
              /\ asked = Asked(list, tasks)
              /\ targets = TargetsOf(s, list, tasks)
              /\ queries = QueriesOf(s, list, tasks)
              /\ sent = SendQuery(queries, transactions)
              /\ short_list' = [short_list EXCEPT ![s] = Marked(list, asked)]
              /\ flight' = [flight EXCEPT ![s] = tasks \cup NewTasks(s, list, asked, queries)]
              /\ pending' = [pending EXCEPT ![s] = transactions \cup NewTids(s, list, queries, sent)]
              /\ net' = datagrams \cup NewQueries(s, list, asked, queries, sent)
              /\ next_tid' = [next_tid EXCEPT ![s] = @ + Cardinality(queries)]
              /\ phase' = [phase EXCEPT ![s] = IF Ends(list, tasks) THEN "done" ELSE "searching"]
              /\ announced' = [announced EXCEPT ![s] = {list[i].addr : i \in targets}]
  BY ContinueIs
<1>2. PICK tasks2 : tasks2 = NewTasks(s, list, asked, queries)
  OBVIOUS
<1>3. PICK tids2 : tids2 = NewTids(s, list, queries, sent)
  OBVIOUS
<1>4. /\ asked \in SUBSET Unqueried(list) /\ asked \in SUBSET (DOMAIN list)
      /\ queries \in SUBSET (DOMAIN list) /\ asked \subseteq queries /\ sent \in SUBSET queries
  <2>1. asked \in SUBSET Unqueried(list)
    BY <1>1 DEF Asked, FirstOf
  <2> QED
    BY <1>1, <2>1, RoundPlaces
<1>5. next_tid[s] \in Nat
  BY DEF TypeInv, SearchType
<1>6. Consistent(Marked(list, asked), tasks \cup tasks2, transactions \cup tids2,
                 next_tid[s] + Cardinality(queries), got)
  BY <1>2, <1>3, <1>4, <1>5, RoundConsistent
<1>7. RepliesHaveTokens'
  <2>1. \A m \in net' : m \in net \/ m.kind = "get_peers" \/ m.kind = "announce_peer"
    BY <1>1 DEF Datagram, QueryOf, NewQueries
  <2> QED
    BY <2>1 DEF SearchInv, RepliesHaveTokens
<1>8. /\ short_list'[s] = Marked(list, asked) /\ flight'[s] = tasks \cup tasks2
      /\ pending'[s] = transactions \cup tids2 /\ next_tid'[s] = next_tid[s] + Cardinality(queries)
      /\ answered'[s] = got /\ announced'[s] = {list[i].addr : i \in targets}
      /\ phase'[s] = IF Ends(list, tasks) THEN "done" ELSE "searching"
  BY <1>1, <1>2, <1>3 DEF TypeInv, SearchType, HistoryType
<1>9. \A q \in Searcher : q # s =>
         /\ short_list'[q] = short_list[q] /\ flight'[q] = flight[q] /\ pending'[q] = pending[q]
         /\ next_tid'[q] = next_tid[q] /\ answered'[q] = answered[q] /\ announced'[q] = announced[q]
         /\ phase'[q] = phase[q]
  BY <1>1 DEF TypeInv, SearchType, HistoryType
<1>10. Consistent(short_list'[s], flight'[s], pending'[s], next_tid'[s], answered'[s])
  BY <1>6, <1>8
<1>11. Ends(list, tasks) => tasks = {} /\ asked = {} /\ tasks2 = {}
  BY <1>1, <1>2 DEF Ends, NewTasks
<1>12. Rests(s)' /\ Fresh(s)'
  BY <1>8, <1>11 DEF Rests, Fresh
<1>13. Told(s)'
  <2>1. SUFFICES ASSUME phase'[s] = "done"
                 PROVE  /\ Unqueried(short_list'[s]) = {}
                        /\ s \in Announcer =>
                             announced'[s] = {short_list'[s][i].addr : i \in Announced(short_list'[s])}
    BY DEF Told, Announced, FirstOf, Unqueried
  <2>2. Ends(list, tasks) /\ tasks = {} /\ asked = {}
    BY <1>8, <1>11, <2>1
  <2>3. short_list'[s] = list
    BY <1>4, <1>8, <2>2, MarkedIs
  <2>4. Unqueried(list) = {}
    BY <1>1, <2>2, AllAsked
  <2>5. s \in Announcer => targets = Announced(list)
    BY <1>1, <2>2 DEF TargetsOf
  <2> QED
    BY <1>8, <2>3, <2>4, <2>5
<1>14. ASSUME NEW q \in Searcher, q # s
       PROVE  /\ Consistent(short_list'[q], flight'[q], pending'[q], next_tid'[q], answered'[q])
              /\ Rests(q)' /\ Fresh(q)' /\ Told(q)'
  <2>1. /\ Consistent(short_list[q], flight[q], pending[q], next_tid[q], answered[q])
        /\ Rests(q) /\ Fresh(q) /\ Told(q)
    BY DEF SearchInv
  <2>2. Consistent(short_list'[q], flight'[q], pending'[q], next_tid'[q], answered'[q])
    BY <1>9, <1>14, <2>1
  <2>3. Rests(q)' /\ Fresh(q)'
    BY <1>9, <1>14, <2>1 DEF Rests, Fresh
  <2>4. Told(q)'
    <3>1. SUFFICES ASSUME phase'[q] = "done"
                   PROVE  /\ Unqueried(short_list'[q]) = {}
                          /\ q \in Announcer =>
                               announced'[q] = {short_list'[q][i].addr : i \in Announced(short_list'[q])}
      BY DEF Told, Announced, FirstOf, Unqueried
    <3> QED
      BY <1>9, <1>14, <2>1, <3>1 DEF Told
  <2> QED
    BY <2>2, <2>3, <2>4
<1>15. \A q \in Searcher :
          /\ Consistent(short_list[q], flight[q], pending[q], next_tid[q], answered[q])'
          /\ Rests(q)' /\ Fresh(q)' /\ Told(q)'
  <2>1. \A q \in Searcher :
          Consistent(short_list[q], flight[q], pending[q], next_tid[q], answered[q])'
            <=> Consistent(short_list'[q], flight'[q], pending'[q], next_tid'[q], answered'[q])
    BY DEF Consistent, Ascends, TasksDiffer, TidsUsed, TidsAgree, WaitedFor, TasksListed, AnswersListed, OutOf
  <2> QED
    BY <1>10, <1>12, <1>13, <1>14, <2>1
<1> QED
  BY <1>7, <1>15 DEF SearchInv

\* Losing transactions does a search no harm.
LEMMA LosesSearch ==
    ASSUME SearchInv, UNCHANGED <<short_list, flight, phase, next_tid, announced, answered>>,
           RepliesHaveTokens', \A s \in Searcher : pending'[s] \subseteq pending[s]
    PROVE  SearchInv'
<1>1. ASSUME NEW s \in Searcher
      PROVE  /\ Consistent(short_list[s], flight[s], pending[s], next_tid[s], answered[s])'
             /\ Rests(s)' /\ Fresh(s)' /\ Told(s)'
  <2>1. /\ Consistent(short_list[s], flight[s], pending[s], next_tid[s], answered[s])
        /\ Rests(s) /\ Fresh(s) /\ Told(s)
    BY DEF SearchInv
  <2>2. /\ Ascends(short_list[s])' /\ TasksDiffer(flight[s])' /\ WaitedFor(short_list[s], flight[s])'
        /\ TasksListed(short_list[s], flight[s])' /\ AnswersListed(short_list[s], answered[s])'
    BY <2>1 DEF Consistent, Ascends, TasksDiffer, WaitedFor, TasksListed, AnswersListed, OutOf
  <2>3. TidsUsed(flight[s], pending[s], next_tid[s])' /\ TidsAgree(flight[s], pending[s])'
    BY <2>1 DEF Consistent, TidsUsed, TidsAgree
  <2>4. Rests(s)' /\ Fresh(s)'
    BY <2>1 DEF Rests, Fresh
  <2>5. Told(s)'
    <3>1. SUFFICES ASSUME phase'[s] = "done"
                   PROVE  /\ Unqueried(short_list'[s]) = {}
                          /\ s \in Announcer =>
                               announced'[s] = {short_list'[s][i].addr : i \in Announced(short_list'[s])}
      BY DEF Told, Announced, FirstOf, Unqueried
    <3> QED
      BY <2>1, <3>1 DEF Told
  <2> QED
    BY <2>2, <2>3, <2>4, <2>5 DEF Consistent
<1> QED
  BY <1>1 DEF SearchInv

\* A query leaves the searches alone, and every answer carries a token.
LEMMA HandleQuerySearch ==
    ASSUME SearchInv, NEW m \in net, HandleQuery(m)
    PROVE  SearchInv'
<1>1. UNCHANGED <<short_list, flight, phase, next_tid, announced, answered, pending>>
  BY DEF HandleQuery, searchVars
<1>2. \A r \in net' : r \in net \/ r.token = Token(m.dst, secret[m.dst], m.src)
  BY DEF HandleQuery, Datagram
<1>3. Token(m.dst, secret[m.dst], m.src) # NoToken
  BY DEF Token, NoToken
<1>4. RepliesHaveTokens'
  BY <1>2, <1>3 DEF SearchInv, RepliesHaveTokens
<1> QED
  BY <1>1, <1>4, LosesSearch

\* `settled` is the list after the entry of node n was answered or gave up.
Settles(settled, list, n) ==
    /\ settled \in Seq(Entries) /\ DOMAIN settled = DOMAIN list /\ Len(settled) = Len(list)
    /\ \A i \in DOMAIN list :
          /\ settled[i].id = list[i].id /\ settled[i].addr = list[i].addr
          /\ list[i].addr # n => settled[i] = list[i]
          /\ list[i].addr = n => settled[i].state \in {"Queried", "Failed"}

\* A task that is over settles its entry, and an answer leaves its token there.
LEMMA SettledConsistent ==
    ASSUME "pseudo" \notin Behaviours, NEW list \in Seq(Entries), NEW tasks, NEW transactions,
           NEW last, NEW got, Consistent(list, tasks, transactions, last, got),
           NEW f \in tasks, NEW settled, Settles(settled, list, f.addr),
           NEW left \in SUBSET transactions, NEW got2,
           \/ got2 = got
           \/ /\ got2 = got \cup {f.addr}
              /\ \A i \in DOMAIN list : list[i].addr = f.addr =>
                    settled[i].state = "Queried" /\ settled[i].token # NoToken
    PROVE  Consistent(settled, tasks \ {f}, left, last, got2)
<1>1. /\ Ascends(list) /\ TasksDiffer(tasks) /\ TidsUsed(tasks, transactions, last)
      /\ TidsAgree(tasks, transactions)
      /\ WaitedFor(list, tasks) /\ TasksListed(list, tasks) /\ AnswersListed(list, got)
  BY DEF Consistent
<1>2. /\ DOMAIN settled = DOMAIN list /\ Len(settled) = Len(list)
      /\ \A i \in DOMAIN list : /\ settled[i].id = list[i].id /\ settled[i].addr = list[i].addr
                                /\ list[i].addr # f.addr => settled[i] = list[i]
                                /\ list[i].addr = f.addr => settled[i].state \in {"Queried", "Failed"}
  BY DEF Settles
<1>3. Ascends(settled)
  BY <1>1, <1>2 DEF Ascends
<1>4. \A n : OutOf(list, n) => OutOf(settled, n)
  BY <1>2 DEF OutOf
<1>5. TasksDiffer(tasks \ {f}) /\ TidsUsed(tasks \ {f}, left, last) /\ TidsAgree(tasks \ {f}, left)
  BY <1>1 DEF TasksDiffer, TidsUsed, TidsAgree
<1>6. WaitedFor(settled, tasks \ {f})
  BY <1>1, <1>2 DEF WaitedFor
<1>7. TasksListed(settled, tasks \ {f})
  <2>1. SUFFICES ASSUME NEW g \in tasks \ {f}, ~OutOf(settled, g.addr)
                 PROVE  \E i \in DOMAIN settled : settled[i].addr = g.addr /\ settled[i].state = "InFlight"
    BY DEF TasksListed
  <2>2. PICK i \in DOMAIN list : list[i].addr = g.addr /\ list[i].state = "InFlight"
    BY <1>1, <1>4, <2>1 DEF TasksListed
  <2>3. list[i].addr # f.addr
    BY <1>1, <2>1, <2>2 DEF TasksDiffer
  <2>4. settled[i] = list[i]
    BY <1>2, <2>3
  <2> QED
    BY <1>2, <2>2, <2>4
\* No answer of f's node was applied before: its entry is in flight.
<1>8. ASSUME NEW i \in DOMAIN list, list[i].addr = f.addr
      PROVE  list[i].state = "InFlight"
  <2>1. ~OutOf(list, f.addr)
    BY <1>8, OutNotListed
  <2>2. PICK j \in DOMAIN list : list[j].addr = f.addr /\ list[j].state = "InFlight"
    BY <1>1, <2>1 DEF TasksListed
  <2>3. i = j
    BY <1>1, <1>8, <2>2, AddrsDiffer
  <2> QED
    BY <2>2, <2>3
<1>9. AnswersListed(settled, got)
  <2>1. SUFFICES ASSUME NEW n \in got, ~OutOf(settled, n)
                 PROVE  \E i \in DOMAIN settled : /\ settled[i].addr = n
                                                  /\ settled[i].state = "Queried" /\ settled[i].token # NoToken
    BY DEF AnswersListed
  <2>2. PICK i \in DOMAIN list : list[i].addr = n /\ list[i].state = "Queried" /\ list[i].token # NoToken
    BY <1>1, <1>4, <2>1 DEF AnswersListed
  <2>3. list[i].addr # f.addr
    BY <1>8, <2>2
  <2>4. settled[i] = list[i]
    BY <1>2, <2>3
  <2> QED
    BY <1>2, <2>2, <2>4
<1>10. ASSUME \A i \in DOMAIN list : list[i].addr = f.addr =>
                 settled[i].state = "Queried" /\ settled[i].token # NoToken
       PROVE  AnswersListed(settled, {f.addr})
  <2>1. SUFFICES ASSUME ~OutOf(settled, f.addr)
                 PROVE  \E i \in DOMAIN settled : /\ settled[i].addr = f.addr
                                                  /\ settled[i].state = "Queried" /\ settled[i].token # NoToken
    BY DEF AnswersListed
  <2>2. PICK i \in DOMAIN list : list[i].addr = f.addr
    BY <1>1, <1>4, <2>1 DEF TasksListed
  <2> QED
    BY <1>2, <1>10, <2>2
<1>11. AnswersListed(settled, got2)
  BY <1>9, <1>10 DEF AnswersListed
<1> QED
  BY <1>3, <1>5, <1>6, <1>7, <1>11 DEF Consistent

\* The new contacts of an answer drive entries out, and nothing else.
LEMMA MergeConsistent ==
    ASSUME "pseudo" \notin Behaviours, NEW list \in Seq(Entries), NEW tasks \in SUBSET Tasks,
           NEW transactions, NEW last, NEW got \in SUBSET Node,
           Consistent(list, tasks, transactions, last, got), NEW contacts \in Seq(Peers)
    PROVE  Consistent(Merge(list, contacts), tasks, transactions, last, got)
<1>1. /\ Ascends(list) /\ TasksDiffer(tasks) /\ TidsUsed(tasks, transactions, last)
      /\ TidsAgree(tasks, transactions)
      /\ WaitedFor(list, tasks) /\ TasksListed(list, tasks) /\ AnswersListed(list, got)
  BY DEF Consistent
<1>2. PICK merged : merged = Merge(list, contacts)
  OBVIOUS
<1>3. /\ Ascends(merged)
      /\ \A i \in DOMAIN list : \/ \E p \in DOMAIN merged : merged[p] = list[i]
                                \/ /\ Len(merged) >= MaxShortList
                                   /\ \A p \in DOMAIN merged : Closer(merged[p].id, list[i].id, InfoHash)
  BY <1>1, <1>2, MergeKeepsOrDrops
<1>4. \A i \in DOMAIN list : (\E p \in DOMAIN merged : merged[p] = list[i]) \/ OutOf(merged, list[i].addr)
  <2>1. \A i \in DOMAIN list : list[i].id = IdOf[list[i].addr]
    <3>1. \A i \in DOMAIN list : list[i] \in Entries
      BY LenProperties
    <3> QED
      BY <3>1 DEF Entries
  <2> QED
    BY <1>3, <2>1 DEF OutOf
<1>5. \A n \in Node : OutOf(list, n) => OutOf(merged, n)
  BY <1>1, <1>2, MergeOut
<1>6. WaitedFor(merged, tasks)
  <2>1. SUFFICES ASSUME NEW k \in DOMAIN merged, merged[k].state = "InFlight"
                 PROVE  \E f \in tasks : f.addr = merged[k].addr
    BY DEF WaitedFor
  <2>2. PICK i \in DOMAIN list : merged[k] = list[i]
    <3>1. (\E i \in DOMAIN list : merged[k] = list[i]) \/ merged[k].state = "Unqueried"
      BY <1>2, MergeFrom
    <3> QED
      BY <2>1, <3>1
  <2> QED
    BY <1>1, <2>1, <2>2 DEF WaitedFor
<1>7. TasksListed(merged, tasks)
  <2>1. SUFFICES ASSUME NEW f \in tasks, ~OutOf(merged, f.addr)
                 PROVE  \E i \in DOMAIN merged : merged[i].addr = f.addr /\ merged[i].state = "InFlight"
    BY DEF TasksListed
  <2>2. f.addr \in Node
    BY DEF Tasks
  <2>3. PICK i \in DOMAIN list : list[i].addr = f.addr /\ list[i].state = "InFlight"
    BY <1>1, <1>5, <2>1, <2>2 DEF TasksListed
  <2>4. PICK p \in DOMAIN merged : merged[p] = list[i]
    BY <1>4, <2>1, <2>3
  <2> QED
    BY <2>3, <2>4
<1>8. AnswersListed(merged, got)
  <2>1. SUFFICES ASSUME NEW n \in got, ~OutOf(merged, n)
                 PROVE  \E i \in DOMAIN merged : /\ merged[i].addr = n
                                                 /\ merged[i].state = "Queried" /\ merged[i].token # NoToken
    BY DEF AnswersListed
  <2>2. PICK i \in DOMAIN list : list[i].addr = n /\ list[i].state = "Queried" /\ list[i].token # NoToken
    BY <1>1, <1>5, <2>1 DEF AnswersListed
  <2>3. PICK p \in DOMAIN merged : merged[p] = list[i]
    BY <1>4, <2>1, <2>2
  <2> QED
    BY <2>2, <2>3
<1> QED
  BY <1>1, <1>2, <1>3, <1>6, <1>7, <1>8 DEF Consistent

\* An answer is applied to the task that asked for it, and to the entry of its sender.
LEMMA HandleReplySearch ==
    ASSUME "pseudo" \notin Behaviours, TypeInv, SearchInv, NEW m \in net, HandleReply(m)
    PROVE  SearchInv'
<1>1. /\ m.kind = "r" /\ m.dst \in Searcher /\ m.src \in Node
      /\ m.token \in Tokens /\ m.nodes \in Seq(Peers)
  BY DEF TypeInv, NetType, Datagrams, HandleReply
<1>2. PICK s \in Searcher : s = m.dst
  BY <1>1
<1>3. m.token # NoToken
  BY <1>1 DEF SearchInv, RepliesHaveTokens
<1> DEFINE transaction == [tid |-> m.tid, target |-> m.src]
           tasks == {f \in flight[s] : f.tid = m.tid}
           entry == EntryOf(short_list[s], m.src)
           marked == [i \in DOMAIN short_list[s] |->
                        IF i \in entry THEN [short_list[s][i] EXCEPT !.state = "Queried",
                                                                     !.token = m.token]
                        ELSE short_list[s][i]]
<1>4. /\ short_list[s] \in Seq(Entries) /\ flight[s] \in SUBSET Tasks
      /\ pending[s] \in SUBSET Transactions /\ answered[s] \in SUBSET Node
  BY DEF TypeInv, SearchType, HistoryType
<1>5. Consistent(short_list[s], flight[s], pending[s], next_tid[s], answered[s])
  BY DEF SearchInv
<1>6. CASE transaction \in pending[s] /\ tasks # {}
  <2>1. PICK list : list = IF entry = {} THEN short_list[s] ELSE Merge(marked, m.nodes)
    OBVIOUS
  <2>2. /\ Continue(s, list, flight[s] \ tasks, pending[s] \ {transaction}, net \ {m})
        /\ answered' = [answered EXCEPT ![s] = @ \cup {m.src}]
    BY <1>2, <1>6, <2>1 DEF HandleReply
  <2>3. PICK f \in flight[s] : f.tid = m.tid
    BY <1>6
  <2>4. tasks = {f}
    BY <1>5, <2>3 DEF Consistent, TasksDiffer
  <2>5. f.addr = m.src
    BY <1>5, <1>6, <2>3 DEF Consistent, TidsAgree
  <2>6. entry = {i \in DOMAIN short_list[s] : short_list[s][i].addr = m.src}
    BY <1>4, <1>5, EntryOfIs DEF Consistent
  <2>7. marked \in Seq(Entries)
    <3> HIDE DEF entry
    <3> QED
      BY <1>1, <1>4, UpdatedList
  <2>8. /\ \A i \in DOMAIN short_list[s] : short_list[s][i] \in Entries
        /\ Len(short_list[s]) \in Nat /\ DOMAIN short_list[s] = 1..Len(short_list[s])
        /\ Len(marked) \in Nat /\ DOMAIN marked = 1..Len(marked)
    <3> HIDE DEF marked
    <3> QED
      BY <1>4, <2>7, LenProperties
  <2>9. DOMAIN marked = DOMAIN short_list[s]
    OBVIOUS
  <2>10. Len(marked) = Len(short_list[s])
    <3> HIDE DEF marked
    <3> QED
      BY <2>8, <2>9, SameLength
  <2>11. \A i \in DOMAIN short_list[s] :
            /\ i \in entry => /\ marked[i].id = short_list[s][i].id /\ marked[i].addr = short_list[s][i].addr
                              /\ marked[i].state = "Queried" /\ marked[i].token = m.token
            /\ i \notin entry => marked[i] = short_list[s][i]
    <3> HIDE DEF entry
    <3> QED
      BY <2>8 DEF Entries
  <2> HIDE DEF marked, entry
  <2>12. Settles(marked, short_list[s], f.addr)
    BY <2>5, <2>6, <2>7, <2>9, <2>10, <2>11 DEF Settles
  <2>13. \A i \in DOMAIN short_list[s] : short_list[s][i].addr = f.addr =>
            marked[i].state = "Queried" /\ marked[i].token # NoToken
    BY <1>3, <2>5, <2>6, <2>11
  <2>14. PICK tasks2 : tasks2 = flight[s] \ {f}
    OBVIOUS
  <2>15. PICK left : left = pending[s] \ {transaction}
    OBVIOUS
  <2>16. PICK got : got = answered[s] \cup {f.addr}
    OBVIOUS
  <2>17. left \in SUBSET pending[s] /\ tasks2 \in SUBSET Tasks /\ left \in SUBSET Transactions
         /\ got \in SUBSET Node
    BY <1>1, <1>4, <2>5, <2>14, <2>15, <2>16
  <2>18. Consistent(marked, tasks2, left, next_tid[s], got)
    BY <1>4, <1>5, <2>12, <2>13, <2>14, <2>16, <2>17, SettledConsistent
  <2>19. CASE entry = {}
    <3>1. Settles(short_list[s], short_list[s], f.addr)
      BY <1>4, <2>5, <2>6, <2>19 DEF Settles
    <3>2. \A i \in DOMAIN short_list[s] : short_list[s][i].addr # f.addr
      BY <2>5, <2>6, <2>19
    <3>3. Consistent(short_list[s], tasks2, left, next_tid[s], got)
      BY <1>4, <1>5, <3>1, <3>2, <2>14, <2>16, <2>17, SettledConsistent
    <3> QED
      BY <1>4, <2>1, <2>2, <2>4, <2>5, <2>14, <2>15, <2>16, <2>17, <2>19, <3>3, ContinueSearch
  <2>20. CASE entry # {}
    <3>1. list = Merge(marked, m.nodes)
      BY <2>1, <2>20
    <3>2. list \in Seq(Entries) /\ Consistent(list, tasks2, left, next_tid[s], got)
      BY <1>1, <2>7, <2>17, <2>18, <3>1, MergeIs, MergeConsistent
    <3>3. Continue(s, list, tasks2, left, net \ {m}) /\ answered' = [answered EXCEPT ![s] = got]
      BY <2>2, <2>4, <2>5, <2>14, <2>15, <2>16
    <3>4. net \ {m} \in SUBSET net
      OBVIOUS
    <3> QED
      BY <2>17, <3>2, <3>3, <3>4, ContinueSearch
  <2> QED
    BY <2>19, <2>20
<1>7. CASE ~(transaction \in pending[s] /\ tasks # {})
  <2>1. /\ net' = net \ {m} /\ pending' = [pending EXCEPT ![s] = @ \ {transaction}]
        /\ UNCHANGED <<short_list, flight, phase, next_tid, announced, answered>>
    BY <1>2, <1>7 DEF HandleReply
  <2>2. \A q \in Searcher : pending'[q] \subseteq pending[q]
    BY <2>1 DEF TypeInv, SearchType
  <2>3. RepliesHaveTokens'
    BY <2>1 DEF SearchInv, RepliesHaveTokens
  <2> QED
    BY <2>1, <2>2, <2>3, LosesSearch
<1> QED
  BY <1>6, <1>7

\* A search begins with the closest contacts, nothing asked and nothing answered.
LEMMA StartSearchKeeps ==
    ASSUME "pseudo" \notin Behaviours, TypeInv, SearchInv, TablesDistinct, NEW s \in Searcher,
           StartSearch(s)
    PROVE  SearchInv'
<1>1. s \in Node /\ K \in Nat /\ IdOf[s] \in NodeId /\ table[s] \in Tables(IdOf[s]) /\ Distinct(table[s])
  BY NodeAssumption, DhtSizesAssumption, NodeTypes DEF TablesDistinct
<1>2. PICK contacts \in Seq(Peers) : contacts = Closest(table[s], InfoHash, K)
  BY <1>1, ClosestIs
<1>3. Ascends(contacts)
  BY <1>1, <1>2, ClosestIs
<1>4. PICK list : list = Listed(contacts)
  OBVIOUS
<1>5. /\ list \in Seq(Entries) /\ DOMAIN list = DOMAIN contacts
      /\ \A i \in DOMAIN contacts : list[i].id = contacts[i].id /\ list[i].state = "Unqueried"
  BY <1>4, ListedIs
<1>6. /\ Continue(s, list, {}, pending[s], net) /\ phase[s] = "idle" /\ UNCHANGED answered
  BY <1>2, <1>4 DEF StartSearch
<1>7. /\ answered[s] = {} /\ answered \in [Searcher -> SUBSET Node]
      /\ pending[s] \in SUBSET Transactions
      /\ Consistent(short_list[s], flight[s], pending[s], next_tid[s], answered[s])
  BY <1>6 DEF SearchInv, Fresh, TypeInv, SearchType, HistoryType
<1>8. answered' = [answered EXCEPT ![s] = {}]
  BY <1>6, <1>7
<1>9. Ascends(list)
  BY <1>3, <1>5 DEF Ascends
<1>10. Consistent(list, {}, pending[s], next_tid[s], {})
  BY <1>5, <1>7, <1>9
     DEF Consistent, TasksDiffer, TidsUsed, TidsAgree, WaitedFor, TasksListed, AnswersListed
<1>11. {} \in SUBSET Tasks /\ {} \in SUBSET Node /\ net \in SUBSET net
  OBVIOUS
<1> QED
  BY <1>5, <1>6, <1>7, <1>8, <1>10, <1>11, ContinueSearch

\* A task that gives up marks its entry as failed.
LEMMA TaskFailsSearch ==
    ASSUME "pseudo" \notin Behaviours, TypeInv, SearchInv, NEW s \in Searcher, NEW f \in flight[s],
           TaskFails(s, f)
    PROVE  SearchInv'
<1> DEFINE entry == EntryOf(short_list[s], f.addr)
           failed == [i \in DOMAIN short_list[s] |->
                        IF i \in entry THEN [short_list[s][i] EXCEPT !.state = "Failed"]
                        ELSE short_list[s][i]]
<1>1. Continue(s, failed, flight[s] \ {f}, pending[s], net) /\ UNCHANGED answered
  BY DEF TaskFails
<1>2. /\ short_list[s] \in Seq(Entries) /\ NoToken \in Tokens /\ flight[s] \in SUBSET Tasks
      /\ pending[s] \in SUBSET Transactions /\ answered[s] \in SUBSET Node
      /\ answered \in [Searcher -> SUBSET Node]
  BY DEF TypeInv, SearchType, HistoryType, Tokens
<1>3. Consistent(short_list[s], flight[s], pending[s], next_tid[s], answered[s])
  BY DEF SearchInv
<1>4. entry = {i \in DOMAIN short_list[s] : short_list[s][i].addr = f.addr}
  BY <1>2, <1>3, EntryOfIs DEF Consistent
<1>5. failed \in Seq(Entries)
  <2> HIDE DEF entry
  <2> QED
    BY <1>2, UpdatedList
<1>6. /\ \A i \in DOMAIN short_list[s] : short_list[s][i] \in Entries
      /\ Len(short_list[s]) \in Nat /\ DOMAIN short_list[s] = 1..Len(short_list[s])
      /\ Len(failed) \in Nat /\ DOMAIN failed = 1..Len(failed)
  <2> HIDE DEF failed
  <2> QED
    BY <1>2, <1>5, LenProperties
<1>7. DOMAIN failed = DOMAIN short_list[s]
  OBVIOUS
<1>8. Len(failed) = Len(short_list[s])
  <2> HIDE DEF failed
  <2> QED
    BY <1>6, <1>7, SameLength
<1>9. \A i \in DOMAIN short_list[s] :
         /\ i \in entry => /\ failed[i].id = short_list[s][i].id /\ failed[i].addr = short_list[s][i].addr
                           /\ failed[i].state = "Failed"
         /\ i \notin entry => failed[i] = short_list[s][i]
  <2> HIDE DEF entry
  <2> QED
    BY <1>6 DEF Entries
<1> HIDE DEF failed, entry
<1>10. Settles(failed, short_list[s], f.addr)
  BY <1>4, <1>5, <1>7, <1>8, <1>9 DEF Settles
<1>11. PICK left : left = pending[s]
  OBVIOUS
<1>12. left \in SUBSET pending[s] /\ pending[s] \in SUBSET pending[s]
  BY <1>11
<1>13. Consistent(failed, flight[s] \ {f}, left, next_tid[s], answered[s])
  BY <1>2, <1>3, <1>10, <1>12, SettledConsistent
<1>14. answered' = [answered EXCEPT ![s] = answered[s]]
  BY <1>1, <1>2
<1>15. flight[s] \ {f} \in SUBSET Tasks /\ net \in SUBSET net
  BY <1>2
<1> QED
  BY <1>1, <1>2, <1>5, <1>11, <1>13, <1>14, <1>15, ContinueSearch

\* The first of a set of numbers are at least `count`, or all of it.
LEMMA FirstOfMany ==
    ASSUME NEW n \in Nat, NEW set \in SUBSET (1..n), NEW count \in Nat,
           NEW i \in set, i \notin FirstOf(set, count)
    PROVE  Cardinality({j \in FirstOf(set, count) : j < i}) >= count
<1> DEFINE Lesser(x) == {j \in set : j < x}
<1>1. PICK order : order = Ascending(set)
  OBVIOUS
<1>2. IsFiniteSet(set) /\ Orders(order, set)
  BY <1>1, AscendingOrders
<1>3. PICK list : list = InOrder(set, order)
  OBVIOUS
<1>4. \A x \in set : Lesser(x) = Below(set, order, x)
  BY <1>1 DEF Ascending, Below
<1>5. /\ Cardinality(set) \in Nat
      /\ \A r \in 1..Cardinality(set) : list[r] \in set
      /\ \A x \in set : \E r \in 1..Cardinality(set) : list[r] = x
      /\ \A r, q \in 1..Cardinality(set) : r < q => <<list[r], list[q]>> \in order
      /\ \A r \in 1..Cardinality(set) : Cardinality(Below(set, order, list[r])) = r - 1
  <2>1. /\ Cardinality(set) \in Nat
        /\ \A r \in 1..Cardinality(set) : list[r] \in set
    BY <1>2, <1>3, InOrderLists
  <2>2. \A x \in set : \E r \in 1..Cardinality(set) : list[r] = x
    BY <1>2, <1>3, InOrderLists
  <2>3. \A r, q \in 1..Cardinality(set) : r < q => <<list[r], list[q]>> \in order
    BY <1>2, <1>3, InOrderLists
  <2>4. \A r \in 1..Cardinality(set) : Cardinality(Below(set, order, list[r])) = r - 1
    BY <1>2, <1>3, InOrderLists
  <2> QED
    BY <2>1, <2>2, <2>3, <2>4
<1>6. \A r \in 1..Cardinality(set) : Cardinality(Lesser(list[r])) = r - 1
  BY <1>4, <1>5
<1>7. \A r, q \in 1..Cardinality(set) : r < q => list[r] < list[q]
  BY <1>1, <1>5 DEF Ascending
<1> HIDE DEF Lesser
<1>8. PICK p \in 1..Cardinality(set) : list[p] = i
  BY <1>5
<1>9. p - 1 >= count
  <2>1. ~(Cardinality(Lesser(i)) < count)
    BY DEF FirstOf, Lesser
  <2>2. Cardinality(Lesser(i)) = p - 1
    BY <1>6, <1>8
  <2> QED
    BY <1>5, <2>1, <2>2
<1>10. PICK first : first = {j \in FirstOf(set, count) : j < i}
  OBVIOUS
<1>11. \A r \in 1..count : list[r] \in first
  <2>1. TAKE r \in 1..count
  <2>2. r \in 1..Cardinality(set) /\ r < p /\ r - 1 < count
    BY <1>5, <1>9
  <2>3. list[r] \in set /\ list[r] < i
    BY <1>5, <1>7, <1>8, <2>2
  <2>4. Cardinality(Lesser(list[r])) < count
    BY <1>6, <2>2
  <2>5. list[r] \in FirstOf(set, count)
    BY <2>3, <2>4 DEF FirstOf, Lesser
  <2> QED
    BY <1>10, <2>3, <2>5
<1>12. PICK at : at = [r \in 1..count |-> list[r]]
  OBVIOUS
<1>13. at \in Injection(1..count, first)
  <2>1. at \in [1..count -> first]
    BY <1>11, <1>12
  <2>2. \A r, q \in 1..count : r < q => at[r] # at[q]
    <3>1. TAKE r, q \in 1..count
    <3>2. HAVE r < q
    <3>3. r \in 1..Cardinality(set) /\ q \in 1..Cardinality(set)
      BY <1>5, <1>9
    <3>4. list[r] < list[q] /\ list[r] \in 1..n /\ list[q] \in 1..n
      BY <1>5, <1>7, <3>2, <3>3
    <3>5. list[r] # list[q]
      BY <3>4
    <3> QED
      BY <1>12, <3>5
  <2>3. \A r, q \in 1..count : at[r] = at[q] => r = q
    <3>1. TAKE r, q \in 1..count
    <3>2. r < q \/ q < r \/ r = q
      OBVIOUS
    <3> QED
      BY <2>2, <3>2
  <2> QED
    BY <2>1, <2>3, Fun_IsInj
<1>14. IsFiniteSet(first)
  <2>1. first \in SUBSET set
    BY <1>10 DEF FirstOf
  <2> QED
    BY <1>2, <2>1, FS_Subset
<1>15. Cardinality(1..count) = count
  BY FS_Interval
<1>16. Cardinality(1..count) <= Cardinality(first)
  BY <1>13, <1>14, FS_Injection
<1> QED
  BY <1>10, <1>15, <1>16

\* When a search is done, its short list tells whom it had to announce to.
LEMMA DoneIsTold ==
    ASSUME "pseudo" \notin Behaviours, TypeInv, SearchInv
    PROVE  AnsweredAreAnnounced
<1>1. SUFFICES ASSUME NEW s \in Searcher, phase[s] = "done", NEW list, list = short_list[s]
               PROVE  /\ \A i \in DOMAIN list : list[i].state \in {"Queried", "Failed"}
                      /\ s \in Announcer => \A n \in answered[s] \cap {list[i].addr : i \in DOMAIN list} :
                            \/ n \in announced[s]
                            \/ Cardinality({m \in announced[s] : Closer(IdOf[m], IdOf[n], InfoHash)})
                                 >= MaxAnnounced
  BY DEF AnsweredAreAnnounced
<1>2. /\ list \in Seq(Entries) /\ flight[s] = {} /\ Unqueried(list) = {}
      /\ s \in Announcer => announced[s] = {list[i].addr : i \in Announced(list)}
  BY <1>1 DEF TypeInv, SearchType, SearchInv, Rests, Told
<1>3. /\ Ascends(list) /\ WaitedFor(list, flight[s]) /\ AnswersListed(list, answered[s])
  BY <1>1 DEF SearchInv, Consistent
<1>4. Len(list) \in Nat /\ DOMAIN list = 1..Len(list) /\ \A i \in DOMAIN list : list[i] \in Entries
  BY <1>2, LenProperties
<1>5. \A i \in DOMAIN list : list[i].state \in {"Queried", "Failed"}
  <2>1. TAKE i \in DOMAIN list
  <2>2. list[i].state \in {"Unqueried", "InFlight", "Queried", "Failed"}
    BY <1>4 DEF Entries, States
  <2>3. list[i].state # "Unqueried"
    BY <1>2 DEF Unqueried
  <2>4. list[i].state # "InFlight"
    BY <1>2, <1>3 DEF WaitedFor
  <2> QED
    BY <2>2, <2>3, <2>4
<1>6. ASSUME s \in Announcer, NEW n \in answered[s], NEW x \in DOMAIN list, list[x].addr = n,
             n \notin announced[s]
      PROVE  Cardinality({m \in announced[s] : Closer(IdOf[m], IdOf[n], InfoHash)}) >= MaxAnnounced
  <2>1. PICK before : before = {m \in announced[s] : Closer(IdOf[m], IdOf[n], InfoHash)}
    OBVIOUS
  <2>2. PICK willing : willing = {i \in DOMAIN list : list[i].state = "Queried" /\ list[i].token # NoToken}
    OBVIOUS
  <2>3. PICK told : told = FirstOf(willing, MaxAnnounced)
    OBVIOUS
  <2>4. told = Announced(list) /\ announced[s] = {list[i].addr : i \in told}
    BY <1>2, <1>6, <2>2, <2>3 DEF Announced
  <2>5. PICK j \in DOMAIN list : list[j].addr = n /\ list[j].state = "Queried" /\ list[j].token # NoToken
    <3>1. ~OutOf(list, n)
      BY <1>2, <1>6, OutNotListed
    <3> QED
      BY <1>3, <3>1 DEF AnswersListed
  <2>6. j \in willing /\ willing \in SUBSET (1..Len(list)) /\ MaxAnnounced \in Nat
    BY <1>4, <2>2, <2>5, DhtSizesAssumption
  <2>7. j \notin told
    BY <1>6, <2>4, <2>5
  <2>8. PICK first : first = {k \in told : k < j}
    OBVIOUS
  <2>9. Cardinality(first) >= MaxAnnounced
    BY <1>4, <2>3, <2>6, <2>7, <2>8, FirstOfMany
  <2>10. told \in SUBSET (DOMAIN list) /\ IsFiniteSet(told)
    <3>1. told \in SUBSET (1..Len(list))
      BY <2>3, <2>6 DEF FirstOf
    <3> QED
      BY <1>4, <3>1, AscendingOrders
  <2>11. IsFiniteSet(announced[s])
    <3>1. PICK addr : addr = [k \in told |-> list[k].addr]
      OBVIOUS
    <3>2. addr \in [told -> announced[s]] /\ \A m \in announced[s] : \E k \in told : addr[k] = m
      BY <2>4, <3>1
    <3>3. addr \in Surjection(told, announced[s])
      BY <3>2, Fun_IsSurj
    <3> QED
      BY <2>10, <3>3, FS_Surjection
  <2>12. IsFiniteSet(before)
    BY <2>1, <2>11, FS_Subset
  <2>13. \A k \in first : list[k].addr \in before
    <3>1. TAKE k \in first
    <3>2. k \in told /\ k < j /\ k \in DOMAIN list
      BY <2>8, <2>10
    <3>3. Closer(list[k].id, list[j].id, InfoHash)
      BY <1>3, <3>2 DEF Ascends
    <3>4. list[k].id = IdOf[list[k].addr] /\ list[j].id = IdOf[n]
      BY <1>4, <2>5, <3>2 DEF Entries
    <3>5. list[k].addr \in announced[s]
      BY <2>4, <3>2
    <3> QED
      BY <2>1, <3>3, <3>4, <3>5
  <2>14. PICK addr : addr = [k \in first |-> list[k].addr]
    OBVIOUS
  <2>15. addr \in [first -> before]
    BY <2>13, <2>14
  <2>16. \A k, l \in first : addr[k] = addr[l] => k = l
    <3>1. first \in SUBSET (DOMAIN list)
      BY <2>8, <2>10
    <3>2. TAKE k, l \in first
    <3>3. HAVE addr[k] = addr[l]
    <3>4. list[k].addr = list[l].addr /\ k \in DOMAIN list /\ l \in DOMAIN list
      BY <2>14, <3>1, <3>3
    <3> QED
      BY <1>2, <1>3, <3>4, AddrsDiffer
  <2>17. addr \in Injection(first, before)
    BY <2>15, <2>16, Fun_IsInj
  <2>18. Cardinality(first) <= Cardinality(before)
    BY <2>12, <2>17, FS_Injection
  <2>19. Cardinality(first) \in Nat /\ Cardinality(before) \in Nat
    <3>1. IsFiniteSet(first)
      BY <2>12, <2>17, FS_Injection
    <3> QED
      BY <2>12, <3>1, FS_CardinalityType
  <2>20. Cardinality(before) >= MaxAnnounced
    BY <2>6, <2>9, <2>18, <2>19
  <2> QED
    BY <2>1, <2>20
<1> QED
  BY <1>5, <1>6

\* A finished search left no contact unasked and announced to the closest listed nodes
\* that answered it, whatever the order of answers and time-outs, for every size of the
\* short list and every number of parallel queries, as long as nodes are known by their
\* own ids and no table of a searcher holds a contact twice.
THEOREM AnswersAnnounced ==
    ASSUME "pseudo" \notin Behaviours
    PROVE  Spec /\ []TablesDistinct => []AnsweredAreAnnounced
<1>1. Init => SearchInv
  <2>1. SUFFICES ASSUME Init
                 PROVE  SearchInv
    OBVIOUS
  <2>2. RepliesHaveTokens
    BY <2>1 DEF Init, RepliesHaveTokens
  <2>3. ASSUME NEW s \in Searcher
        PROVE  /\ Consistent(short_list[s], flight[s], pending[s], next_tid[s], answered[s])
               /\ Rests(s) /\ Fresh(s) /\ Told(s)
    <3>1. /\ short_list[s] = <<>> /\ flight[s] = {} /\ pending[s] = {} /\ next_tid[s] = 0
          /\ answered[s] = {} /\ phase[s] = "idle"
      BY <2>1 DEF Init
    <3>2. Rests(s) /\ Fresh(s) /\ Told(s)
      BY <3>1 DEF Rests, Fresh, Told
    <3>3. DOMAIN short_list[s] = {}
      BY <3>1
    <3>4. /\ Ascends(short_list[s]) /\ WaitedFor(short_list[s], flight[s])
      BY <3>3 DEF Ascends, WaitedFor
    <3>5. /\ TasksDiffer(flight[s]) /\ TidsUsed(flight[s], pending[s], next_tid[s])
          /\ TidsAgree(flight[s], pending[s]) /\ TasksListed(short_list[s], flight[s])
          /\ AnswersListed(short_list[s], answered[s])
      BY <3>1 DEF TasksDiffer, TidsUsed, TidsAgree, TasksListed, AnswersListed
    <3> QED
      BY <3>2, <3>4, <3>5 DEF Consistent
  <2> QED
    BY <2>2, <2>3 DEF SearchInv
<1>2. TypeInv /\ TablesDistinct /\ SearchInv /\ [Next]_vars => SearchInv'
  <2>1. SUFFICES ASSUME TypeInv, TablesDistinct, SearchInv, [Next]_vars
                 PROVE  SearchInv'
    OBVIOUS
  <2>2. CASE UNCHANGED vars
    <3>1. UNCHANGED <<short_list, flight, phase, next_tid, announced, answered, net, pending>>
      BY <2>2 DEF vars, searchVars
    <3>2. RepliesHaveTokens'
      BY <2>1, <3>1 DEF SearchInv, RepliesHaveTokens
    <3> QED
      BY <2>1, <3>1, <3>2, LosesSearch
  <2>3. CASE \E m \in net : HandleQuery(m) \/ HandleReply(m)
    BY <2>1, <2>3, HandleQuerySearch, HandleReplySearch
  <2>4. ASSUME NEW n \in Node, Rotate(n)
        PROVE  SearchInv'
    <3>1. /\ UNCHANGED <<short_list, flight, phase, next_tid, announced, answered, pending>>
          /\ net' \subseteq net
      BY <2>4 DEF Rotate, searchVars
    <3>2. RepliesHaveTokens'
      BY <2>1, <3>1 DEF SearchInv, RepliesHaveTokens
    <3> QED
      BY <2>1, <3>1, <3>2, LosesSearch
  <2>5. ASSUME NEW s \in Searcher, Cleanup(s)
        PROVE  SearchInv'
    <3>1. PICK old : /\ pending' = [pending EXCEPT ![s] = @ \ old]
                     /\ UNCHANGED <<short_list, flight, phase, next_tid, announced, answered, net>>
      BY <2>5 DEF Cleanup
    <3>2. RepliesHaveTokens'
      BY <2>1, <3>1 DEF SearchInv, RepliesHaveTokens
    <3>3. \A q \in Searcher : pending'[q] \subseteq pending[q]
      BY <2>1, <3>1 DEF TypeInv, SearchType
    <3> QED
      BY <2>1, <3>1, <3>2, <3>3, LosesSearch
  <2>6. ASSUME NEW s \in Searcher, StartSearch(s)
        PROVE  SearchInv'
    BY <2>1, <2>6, StartSearchKeeps
  <2>7. ASSUME NEW s \in Searcher, NEW f \in flight[s], TaskFails(s, f)
        PROVE  SearchInv'
    BY <2>1, <2>7, TaskFailsSearch
  <2> QED
    BY <2>1, <2>2, <2>3, <2>4, <2>5, <2>6, <2>7 DEF Next
<1>3. TypeInv /\ SearchInv => AnsweredAreAnnounced
  BY DoneIsTold
<1> QED
  BY <1>1, <1>2, <1>3, DhtTypeCorrect, PTL DEF Spec

\* No searcher's table was split twice.
SplitOnce == \A s \in Searcher : Len(table[s]) <= 2

\* The same for tables that were split at most once, which hold no contact twice.
THEOREM SmallTablesAnnounced ==
    ASSUME "pseudo" \notin Behaviours
    PROVE  Spec /\ []SplitOnce => []AnsweredAreAnnounced
<1>1. TypeInv /\ SplitOnce => TablesDistinct
  <2>1. SUFFICES ASSUME TypeInv, SplitOnce, NEW s \in Searcher
                 PROVE  Distinct(table[s])
    BY DEF TablesDistinct
  <2>2. IdOf[s] \in NodeId /\ table[s] \in Tables(IdOf[s]) /\ Len(table[s]) <= 2
    BY <2>1, NodeAssumption, NodeTypes DEF SplitOnce
  <2> QED
    BY <2>2, SmallTableDistinct
<1> QED
  BY <1>1, DhtTypeCorrect, AnswersAnnounced, PTL

==============================================================================
