----------------------------- MODULE DhtRouting -----------------------------
(***************************************************************************)
(* The routing table of a DHT node (src/net/dht/routing.rs): a list of     *)
(* buckets of which the last one covers the node's own id and is split     *)
(* when it is full.  An id is a tuple of `Bits` bits, the highest first;    *)
(* a contact is an id with an address.                                     *)
(***************************************************************************)
EXTENDS Integers, Sequences, FiniteSets, FiniteSetsExt

CONSTANTS
    Bits,           \* width of an id (160)
    BucketSize      \* contacts of a bucket (8)

ASSUME BitsAssumption == Bits \in Nat \ {0}
ASSUME BucketSizeAssumption == BucketSize \in Nat \ {0}

NodeId == [1..Bits -> {0, 1}]

\* leading_zeros of the XOR of two ids: the length of their common prefix.
CommonPrefix(a, b) == Max({z \in 0..Bits : \A i \in 1..z : a[i] = b[i]})

\* The XOR distance from a to t is less than from b to t: a agrees with t at the
\* first bit in which a and b differ.
Closer(a, b, t) == a # b /\ a[CommonPrefix(a, b) + 1] = t[CommonPrefix(a, b) + 1]

\* The members of a set in the given order (a set of pairs), and the elements of a
\* sequence at some of its positions.
InOrder(S, order) ==
    [r \in 1..Cardinality(S) |-> CHOOSE x \in S : Cardinality({y \in S : <<y, x>> \in order}) = r - 1]
Ascending(S) == {pair \in S \X S : pair[1] < pair[2]}
Part(seq, S) ==
    LET positions == InOrder(S, Ascending(S))
    IN [r \in DOMAIN positions |-> seq[positions[r]]]

\* sort_by_key, a stable sort: contacts at some places, the places in their order.
Nearer(at, order, target) ==
    {pair \in (DOMAIN at) \X (DOMAIN at) :
        \/ Closer(at[pair[1]].id, at[pair[2]].id, target)
        \/ at[pair[1]].id = at[pair[2]].id /\ pair \in order}
SortByDistance(at, order, target) ==
    LET places == InOrder(DOMAIN at, Nearer(at, order, target))
    IN [r \in DOMAIN places |-> at[places[r]]]

NewTable == <<[prefix_len |-> 0, nodes |-> <<>>]>>

\* The last bucket whose prefix the id shares, else the first one.
BucketIndex(buckets, local, id) ==
    LET fits == {i \in DOMAIN buckets : CommonPrefix(local, id) >= buckets[i].prefix_len}
    IN IF fits = {} THEN 1 ELSE Max(fits)

\* Mutant of SplitLast: the contacts near the own id stay in the old bucket.
SplitSwapped(buckets, local) ==
    LET n == Len(buckets)
        bit == buckets[n].prefix_len
        nodes == buckets[n].nodes
        near == {k \in DOMAIN nodes : nodes[k].id[bit + 1] = local[bit + 1]}
    IN SubSeq(buckets, 1, n - 1)
         \o <<[prefix_len |-> bit + 1, nodes |-> Part(nodes, near)],
              [prefix_len |-> bit + 1, nodes |-> Part(nodes, DOMAIN nodes \ near)]>>

\* split_bucket: the far half stays, the half near the own id becomes the last bucket.
SplitLast(buckets, local) ==
    LET n == Len(buckets)
        bit == buckets[n].prefix_len
        nodes == buckets[n].nodes
        near == {k \in DOMAIN nodes : nodes[k].id[bit + 1] = local[bit + 1]}
    IN SubSeq(buckets, 1, n - 1)
         \o <<[prefix_len |-> bit + 1, nodes |-> Part(nodes, DOMAIN nodes \ near)],
              [prefix_len |-> bit + 1, nodes |-> Part(nodes, near)]>>

\* KBucket::insert: a known id moves to the tail with its new address.
Knows(bucket, id) == \E i \in DOMAIN bucket.nodes : bucket.nodes[i].id = id
Accepts(bucket, id) == Knows(bucket, id) \/ Len(bucket.nodes) < BucketSize
Put(bucket, c) ==
    [bucket EXCEPT !.nodes = Append(Part(@, {k \in DOMAIN @ : @[k].id # c.id}), c)]

\* One round of the loop of `insert`: store, or split and try again, or give up.
InsertRound(state, local, c) ==
    LET i == BucketIndex(state.buckets, local, c.id)
    IN IF state.done THEN state
       ELSE IF Accepts(state.buckets[i], c.id)
            THEN [buckets |-> [state.buckets EXCEPT ![i] = Put(@, c)], done |-> TRUE]
       ELSE IF i = Len(state.buckets) /\ state.buckets[i].prefix_len < Bits
            THEN [buckets |-> SplitLast(state.buckets, local), done |-> FALSE]
       ELSE [state EXCEPT !.done = TRUE]

\* At most Bits splits and one last try.
Insert(buckets, local, c) ==
    LET after[k \in 0..(Bits + 1)] ==
            IF k = 0 THEN [buckets |-> buckets, done |-> FALSE]
                     ELSE InsertRound(after[k - 1], local, c)
    IN IF c.id = local THEN buckets ELSE after[Bits + 1].buckets

\* One after another.
InsertAll(buckets, local, contacts) ==
    LET after[k \in 0..Len(contacts)] ==
            IF k = 0 THEN buckets ELSE Insert(after[k - 1], local, contacts[k])
    IN after[Len(contacts)]

\* closest_where: all contacts, bucket after bucket, sorted and cut.
Places(buckets) == UNION {{i} \X (DOMAIN buckets[i].nodes) : i \in DOMAIN buckets}
AllContacts(buckets) == [x \in Places(buckets) |-> buckets[x[1]].nodes[x[2]]]
BucketAfterBucket(buckets) ==
    {pair \in Places(buckets) \X Places(buckets) :
        \/ pair[1][1] < pair[2][1]
        \/ pair[1][1] = pair[2][1] /\ pair[1][2] < pair[2][2]}

Closest(buckets, target, count) ==
    LET all == SortByDistance(AllContacts(buckets), BucketAfterBucket(buckets), target)
    IN SubSeq(all, 1, Min({Len(all), count}))
==============================================================================
