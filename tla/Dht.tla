--------------------------------- MODULE Dht ---------------------------------
(***************************************************************************)
(* The distributed hash table (src/net/dht/): every node answers queries   *)
(* (actor.rs), and the searchers look for peers of one torrent (search.rs) *)
(* through a UDP socket with a table of pending transactions (server.rs).  *)
(* All nodes run this program.  A node stands for its address; one address *)
(* family.  Datagrams may be delayed, reordered and lost.                  *)
(*                                                                         *)
(* A search runs between two answers without waiting, so the step that     *)
(* applies an answer also sends the next queries or ends the search; what  *)
(* it passes to the server and to the manager is handled in that step.     *)
(* Nobody waits for the answer to an announce_peer, so it is not sent: all *)
(* it does is to end the transaction, which Cleanup may do at any time.    *)
(*                                                                         *)
(* `Behaviours` may hold "pseudo": a searcher knows its first contacts     *)
(* under the placeholder id the code gives to bootstrap routers; and       *)
(* "slow": a search, with the delivery of its announces, may outlast the   *)
(* five minutes between two rotations of a node's token secret.            *)
(***************************************************************************)
EXTENDS DhtRouting

CONSTANTS
    Node,
    IdOf,           \* node -> its id
    PseudoIdOf,     \* node -> the hash of its address
    Known,          \* node -> the nodes it has heard of, in order
    Searcher,
    Announcer,      \* searchers that announce themselves (announce_port)
    InfoHash,
    Alpha,          \* queries a search keeps in flight (3)
    K,              \* nodes of a reply, and of the start of a search (8)
    MaxShortList,   \* 50
    MaxAnnounced,   \* 8
    MaxPending,     \* MAX_PENDING (4096)
    MaxRotations,   \* node -> bound of the runs on the rotations of its token secret
    Behaviours

ASSUME NodeAssumption == Searcher \subseteq Node /\ Announcer \subseteq Searcher
ASSUME IdAssumption ==
    IdOf \in [Node -> NodeId] /\ PseudoIdOf \in [Node -> NodeId] /\ InfoHash \in NodeId
\* Ids are 160 random bits.
ASSUME DistinctIdsAssumption == \A m, n \in Node : IdOf[m] = IdOf[n] => m = n
ASSUME KnownAssumption == Known \in [Node -> Seq(Node)]
ASSUME DhtSizesAssumption ==
    /\ {Alpha, K, MaxShortList, MaxAnnounced, MaxPending} \subseteq Nat \ {0}
    /\ MaxRotations \in [Node -> Nat]

VARIABLES
    table,          \* node -> routing table
    secret,         \* node -> number of its current token secret
    seen,           \* node -> announcers at work when its secret last rotated (clock)
    store,          \* node -> peers announced to it for InfoHash
    refused,        \* some announce_peer was answered with an error (history)
    net,            \* datagrams on their way
    pending,        \* searcher -> transactions of its server
    next_tid,       \* searcher -> transaction ids handed out
    phase,          \* searcher -> idle, searching or done
    short_list,     \* searcher -> contacts, closest first
    flight,         \* searcher -> tasks that wait for an answer
    found,          \* searcher -> peers passed on as DhtPeersReceived
    announced,      \* searcher -> nodes it asked the server to send announce_peer to
    answered,       \* searcher -> nodes whose answer gave it a token (history)
    spoilt,         \* searchers one of whose queries failed (history)
    owed            \* searcher -> announcers that were stored everywhere before it began (history)

searchVars == <<pending, next_tid, phase, short_list, flight, found, announced, answered,
                spoilt, owed>>
vars == <<table, secret, seen, store, refused, net, searchVars>>

NoToken == <<>>
Contact(id, n) == [id |-> id, addr |-> n]
Datagram(kind, src, dst, tid, token, nodes, values) ==
    [kind |-> kind, src |-> src, dst |-> dst, tid |-> tid, token |-> token,
     nodes |-> nodes, values |-> values]

\* Tokens::make: the secret and the address it was issued to.
Token(n, version, ip) == <<n, version, ip>>

\* Mutant of IsValid: only the current secret counts.
IsCurrent(n, token, ip) == token = Token(n, secret[n], ip)

\* The current or the previous secret.
IsValid(n, token, ip) ==
    token \in {Token(n, secret[n], ip), Token(n, secret[n] - 1, ip)}

------------------------------------------------------------------------------
\* handle_query: the sender enters the routing table, then get_peers answers with
\* the stored peers or the closest nodes, and a token; announce_peer stores the
\* sender if its token is valid.
HandleQuery(m) ==
    LET n == m.dst
        buckets == Insert(table[n], IdOf[n], Contact(IdOf[m.src], m.src))
        accepted == m.kind = "announce_peer" /\ IsValid(n, m.token, m.src)
        reply == Datagram("r", n, m.src, m.tid, Token(n, secret[n], m.src),
                          IF store[n] = {} THEN Closest(buckets, InfoHash, K) ELSE <<>>,
                          store[n])
    IN /\ m \in net /\ m.kind \in {"get_peers", "announce_peer"}
       /\ table' = [table EXCEPT ![n] = buckets]
       /\ store' = IF accepted THEN [store EXCEPT ![n] = @ \cup {m.src}] ELSE store
       /\ refused' = (refused \/ (m.kind = "announce_peer" /\ ~accepted))
       /\ net' = (net \ {m})
                    \cup (IF m.kind = "get_peers" THEN {reply} ELSE {})
       /\ UNCHANGED <<secret, seen, searchVars>>

\* maintenance: every five minutes the secret rotates; the previous one stays valid.
\* A search is over by the second rotation after its start, and so is every announce
\* on its way: a datagram that is still not delivered was lost.
Announces(n, from) == {m \in net : m.kind = "announce_peer" /\ m.dst = n /\ m.src \in from}
InTime(n) == \A s \in seen[n] : phase[s] # "searching"

Rotate(n) ==
    /\ secret[n] < MaxRotations[n]
    /\ "slow" \in Behaviours \/ InTime(n)
    /\ secret' = [secret EXCEPT ![n] = @ + 1]
    /\ net' = IF "slow" \in Behaviours THEN net ELSE net \ Announces(n, seen[n])
    /\ seen' = [seen EXCEPT ![n] =
          {s \in Announcer : phase[s] = "searching" \/ (Announces(n, {s}) \cap net') # {}}]
    /\ UNCHANGED <<table, store, refused, searchVars>>

------------------------------------------------------------------------------
\* The search loop of s, entered with short list `list` and tasks `tasks` left: it
\* queries the closest contacts not asked yet, up to Alpha at once; when nothing is
\* in flight it announces and ends.  The server refuses a query beyond MAX_PENDING:
\* its task, if it has one, then fails without an answer (the number only names the
\* task), and an announce is lost without a word.
Room(set, size) == IF Cardinality(set) < size THEN size - Cardinality(set) ELSE 0
Unqueried(list) == {i \in DOMAIN list : list[i].state = "Unqueried"}
FirstOf(set, count) == {i \in set : Cardinality({j \in set : j < i}) < count}

\* Mutant of Announced: the farthest nodes that gave a token, not the closest ones.
AnnouncedFarthest(list) ==
    LET willing == {i \in DOMAIN list : list[i].state = "Queried" /\ list[i].token # NoToken}
    IN {i \in willing : Cardinality({j \in willing : j > i}) < MaxAnnounced}

\* announce_to_closest
Announced(list) ==
    FirstOf({i \in DOMAIN list : list[i].state = "Queried" /\ list[i].token # NoToken},
            MaxAnnounced)

\* SendQuery: of the queries asked for, those the server has room for.
SendQuery(asked, transactions) == FirstOf(asked, Room(transactions, MaxPending))

Continue(s, list, tasks, transactions, datagrams) ==
    LET asked == FirstOf(Unqueried(list), Room(tasks, Alpha))
        ends == tasks = {} /\ asked = {}
        targets == IF ends /\ s \in Announcer THEN Announced(list) ELSE {}
        queries == asked \cup targets
        Tid(i) == next_tid[s] + Cardinality({j \in queries : j <= i})
        sent == SendQuery(queries, transactions)
        Query(i) == IF i \in asked
                    THEN Datagram("get_peers", s, list[i].addr, Tid(i), NoToken, <<>>, {})
                    ELSE Datagram("announce_peer", s, list[i].addr, Tid(i), list[i].token, <<>>, {})
    IN /\ short_list' = [short_list EXCEPT ![s] =
              [i \in DOMAIN list |-> IF i \in asked THEN [list[i] EXCEPT !.state = "InFlight"]
                                     ELSE list[i]]]
       /\ flight' = [flight EXCEPT ![s] =
              tasks \cup {[addr |-> list[i].addr, tid |-> Tid(i)] : i \in asked}]
       /\ pending' = [pending EXCEPT ![s] = transactions
              \cup {[tid |-> Tid(i), target |-> list[i].addr] : i \in sent}]
       /\ net' = datagrams \cup {Query(i) : i \in sent}
       /\ next_tid' = [next_tid EXCEPT ![s] = @ + Cardinality(queries)]
       /\ phase' = [phase EXCEPT ![s] = IF ends THEN "done" ELSE "searching"]
       /\ announced' = [announced EXCEPT ![s] = {list[i].addr : i \in targets}]

Listed(contacts) ==
    [i \in DOMAIN contacts |-> [id |-> contacts[i].id, addr |-> contacts[i].addr,
                                state |-> "Unqueried", token |-> NoToken]]

\* Every node that stores announcer a holds it, and no announce of a is on its way.
StoredEverywhere(a) ==
    phase[a] = "done" /\ announced[a] # {} /\ \A n \in announced[a] : a \in store[n]

StartSearch(s) ==
    /\ phase[s] = "idle"
    /\ Continue(s, Listed(Closest(table[s], InfoHash, K)), {}, pending[s], net)
    /\ owed' = [owed EXCEPT ![s] = {a \in Announcer \ spoilt : StoredEverywhere(a)}]
    /\ UNCHANGED <<table, secret, seen, store, refused, found, answered, spoilt>>

\* The entry an answer is applied to: the first one with the address of the task.
EntryOf(list, addr) == {i \in DOMAIN list : list[i].addr = addr /\
                                            \A j \in 1..(i - 1) : list[j].addr # addr}

Sorted(list) == SortByDistance(list, Ascending(DOMAIN list), InfoHash)

\* Mutant of Merge: the list is cut to its old length, which drops what is new.
MergeCut(list, contacts) == Sorted(SubSeq(list \o Listed(contacts), 1, Len(list)))

\* New ids of an answer join the short list, which is sorted and cut.
Merge(list, contacts) ==
    LET New(i) == /\ \A j \in DOMAIN list : list[j].id # contacts[i].id
                  /\ \A j \in 1..(i - 1) : contacts[j].id # contacts[i].id
        all == Sorted(list \o Listed(Part(contacts, {i \in DOMAIN contacts : New(i)})))
    IN SubSeq(all, 1, Min({Len(all), MaxShortList}))

\* handle_datagram for a reply: only the node that was asked may answer, and once.
\* The answer of a task that gave up goes nowhere, and that of a node which closer
\* ones have driven out of the short list is not looked at.
HandleReply(m) ==
    LET s == m.dst
        transaction == [tid |-> m.tid, target |-> m.src]
        tasks == {f \in flight[s] : f.tid = m.tid}
        rest == net \ {m}
        entry == EntryOf(short_list[s], m.src)
        marked == [i \in DOMAIN short_list[s] |->
                     IF i \in entry THEN [short_list[s][i] EXCEPT !.state = "Queried",
                                                                  !.token = m.token]
                     ELSE short_list[s][i]]
    IN /\ m \in net /\ m.kind = "r"
       /\ IF transaction \in pending[s] /\ tasks # {}
          THEN /\ Continue(s, IF entry = {} THEN short_list[s] ELSE Merge(marked, m.nodes),
                           flight[s] \ tasks, pending[s] \ {transaction}, rest)
               /\ answered' = [answered EXCEPT ![s] = @ \cup {m.src}]
               /\ IF entry = {} THEN UNCHANGED <<found, table>>
                  ELSE /\ found' = [found EXCEPT ![s] = @ \cup m.values]
                       /\ table' = [table EXCEPT ![s] = InsertAll(@, IdOf[s], m.nodes)]
          ELSE /\ net' = rest
               /\ pending' = [pending EXCEPT ![s] = @ \ {transaction}]
               /\ UNCHANGED <<next_tid, phase, short_list, flight, found, announced, answered,
                              table>>
       /\ UNCHANGED <<secret, seen, store, refused, spoilt, owed>>

\* A task gives up after five seconds, or its query was never sent.
TaskFails(s, f) ==
    /\ f \in flight[s]
    /\ Continue(s, [i \in DOMAIN short_list[s] |->
                      IF i \in EntryOf(short_list[s], f.addr)
                      THEN [short_list[s][i] EXCEPT !.state = "Failed"]
                      ELSE short_list[s][i]],
                flight[s] \ {f}, pending[s], net)
    /\ spoilt' = spoilt \cup {s}
    /\ UNCHANGED <<table, secret, seen, store, refused, found, answered, owed>>

\* cleanup drops transactions after twenty seconds, when their task has long given up.
Cleanup(s) ==
    LET old == {p \in pending[s] : \A f \in flight[s] : f.tid # p.tid}
    IN /\ old # {}
       /\ pending' = [pending EXCEPT ![s] = @ \ old]
       /\ UNCHANGED <<table, secret, seen, store, refused, net, next_tid, phase, short_list, flight, found,
                      announced, answered, spoilt, owed>>

------------------------------------------------------------------------------
InitialTable(n) ==
    LET Name(m) == IF n \in Searcher /\ "pseudo" \in Behaviours THEN PseudoIdOf[m] ELSE IdOf[m]
    IN InsertAll(NewTable, IdOf[n],
                 [i \in DOMAIN Known[n] |-> Contact(Name(Known[n][i]), Known[n][i])])

Init ==
    /\ table = [n \in Node |-> InitialTable(n)]
    /\ secret = [n \in Node |-> 0]
    /\ seen = [n \in Node |-> {}]
    /\ store = [n \in Node |-> {}]
    /\ refused = FALSE
    /\ net = {}
    /\ pending = [s \in Searcher |-> {}]
    /\ next_tid = [s \in Searcher |-> 0]
    /\ phase = [s \in Searcher |-> "idle"]
    /\ short_list = [s \in Searcher |-> <<>>]
    /\ flight = [s \in Searcher |-> {}]
    /\ found = [s \in Searcher |-> {}]
    /\ announced = [s \in Searcher |-> {}]
    /\ answered = [s \in Searcher |-> {}]
    /\ spoilt = {}
    /\ owed = [s \in Searcher |-> {}]

Next ==
    \/ \E m \in net : HandleQuery(m) \/ HandleReply(m)
    \/ \E n \in Node : Rotate(n)
    \/ \E s \in Searcher : StartSearch(s) \/ Cleanup(s) \/ \E f \in flight[s] : TaskFails(s, f)

Spec == Init /\ [][Next]_vars

------------------------------------------------------------------------------
\* The buckets of a table are ordered by distance, however often the last one was split:
\* a contact in a later bucket shares at least as many bits with the node's own id.
TableOrdered ==
    \A n \in Node : \A i, j \in DOMAIN table[n] : i < j =>
        LET Shared(k) == {CommonPrefix(IdOf[n], table[n][k].nodes[c].id) : c \in DOMAIN table[n][k].nodes}
        IN \A x \in Shared(i), y \in Shared(j) : x <= y

\* A finished search left no contact unasked, and has an announce_peer sent to the
\* closest listed nodes of those whose answer gave it a token: answers may come in any
\* order, late, or never.
AnsweredAreAnnounced ==
    \A s \in Searcher : phase[s] = "done" =>
        LET list == short_list[s]
            listed == {list[i].addr : i \in DOMAIN list}
            Before(n) == {m \in announced[s] : Closer(IdOf[m], IdOf[n], InfoHash)}
        IN /\ \A i \in DOMAIN list : list[i].state \in {"Queried", "Failed"}
           /\ s \in Announcer => \A n \in answered[s] \cap listed :
                 n \in announced[s] \/ Cardinality(Before(n)) >= MaxAnnounced

\* No announce_peer is refused: the token of a get_peers answer is good until the
\* search ends, also when the node's secret rotates in between.
AnnounceAccepted == ~refused

\* What the network is for: a search that begins after a peer was stored by the nodes
\* it announced to, and that loses no datagram, finds that peer.
PeerFound ==
    \A s \in Searcher \ spoilt : phase[s] = "done" => owed[s] \ {s} \subseteq found[s]

\* `closest` returns as many different contacts as were asked for and are known.
ClosestExact ==
    \A n \in Node :
        LET Ids(contacts) == {contacts[i].id : i \in DOMAIN contacts}
        IN Cardinality(Ids(Closest(table[n], InfoHash, K)))
             = Min({K, Cardinality(Ids(AllContacts(table[n])))})
==============================================================================
