---------------------------- MODULE Swarm_proofs ----------------------------
(***************************************************************************)
(* The swarm manager, proved: the safety properties of Swarm for any set   *)
(* of addresses, any number of tasks, trackers and upload slots and any    *)
(* length of the event channel.                                            *)
(***************************************************************************)
EXTENDS Swarm, FiniteSetTheorems, FunctionTheorems, SequenceTheorems, TLAPS

-----------------------------------------------------------------------------
(* Queues.                                                                 *)

\* Receiving drops the head and keeps the rest.
LEMMA TailKeeps ==
    ASSUME NEW T, NEW s \in Seq(T), s # <<>>
    PROVE  /\ Head(s) \in T /\ Tail(s) \in Seq(T)
           /\ \A i \in DOMAIN s : (i = 1 /\ s[i] = Head(s)) \/ i - 1 \in DOMAIN Tail(s)
           /\ \A j \in DOMAIN Tail(s) : j + 1 \in DOMAIN s /\ Tail(s)[j] = s[j + 1]
OBVIOUS

\* Sending keeps what waits.
LEMMA ConcatKeeps ==
    ASSUME NEW T, NEW s \in Seq(T), NEW u \in Seq(T)
    PROVE  /\ s \o u \in Seq(T)
           /\ \A i \in DOMAIN s : i \in DOMAIN (s \o u) /\ (s \o u)[i] = s[i]
           /\ \A i \in DOMAIN (s \o u) :
                \/ i \in DOMAIN s
                \/ i - Len(s) \in DOMAIN u /\ (s \o u)[i] = u[i - Len(s)]
OBVIOUS

\* Appending one event keeps what waits.
LEMMA AppendKeeps ==
    ASSUME NEW T, NEW s \in Seq(T), NEW e \in T
    PROVE  /\ Append(s, e) \in Seq(T)
           /\ DOMAIN Append(s, e) = DOMAIN s \cup {Len(s) + 1}
           /\ Len(s) + 1 \notin DOMAIN s
           /\ \A i \in DOMAIN s : Append(s, e)[i] = s[i]
           /\ Append(s, e)[Len(s) + 1] = e
OBVIOUS

\* What is left of a sequence without its i-th element.
Without(s, i) == SubSeq(s, 1, i - 1) \o SubSeq(s, i + 1, Len(s))

\* Everything else is still there, and nothing new.
LEMMA RemovalKeeps ==
    ASSUME NEW T, NEW s \in Seq(T), NEW i \in DOMAIN s
    PROVE  /\ Without(s, i) \in Seq(T)
           /\ \A j \in DOMAIN s \ {i} : \E k \in DOMAIN Without(s, i) : Without(s, i)[k] = s[j]
           /\ \A k \in DOMAIN Without(s, i) : \E j \in DOMAIN s \ {i} : Without(s, i)[k] = s[j]
<1> DEFINE u == SubSeq(s, 1, i - 1)
           v == SubSeq(s, i + 1, Len(s))
<1>0. i \in Nat /\ 1 <= i /\ i <= Len(s) /\ Len(s) \in Nat /\ DOMAIN s = 1 .. Len(s)
  OBVIOUS
<1>1. /\ u \in Seq(T) /\ Len(u) = i - 1 /\ DOMAIN u = 1 .. Len(u)
      /\ \A k \in 1 .. i - 1 : u[k] = s[k]
  BY <1>0, SubSeqProperties
<1>2. /\ v \in Seq(T) /\ Len(v) = Len(s) - i /\ DOMAIN v = 1 .. Len(v)
      /\ \A k \in 1 .. Len(s) - i : v[k] = s[k + i]
  BY <1>0, SubSeqProperties
<1> DEFINE r == Without(s, i)
<1>a. r = u \o v
  BY DEF Without
<1> HIDE DEF u, v, r
<1>3. /\ r \in Seq(T) /\ Len(r) = Len(u) + Len(v)
      /\ \A k \in 1 .. Len(u) + Len(v) :
           r[k] = IF k <= Len(u) THEN u[k] ELSE v[k - Len(u)]
  BY <1>a, <1>1, <1>2, ConcatProperties
<1>4. DOMAIN r = 1 .. Len(s) - 1
  <2>1. Len(r) = Len(s) - 1
    BY <1>0, <1>1, <1>2, <1>3
  <2>2. DOMAIN r = 1 .. Len(r)
    BY <1>3, LenProperties
  <2> QED
    BY <2>1, <2>2
<1>5. ASSUME NEW k \in 1 .. i - 1 PROVE r[k] = s[k]
  BY <1>0, <1>1, <1>2, <1>3
<1>6. ASSUME NEW k \in i .. Len(s) - 1 PROVE r[k] = s[k + 1]
  <2>1. k - Len(u) \in 1 .. Len(s) - i /\ k - Len(u) + i = k + 1 /\ ~(k <= Len(u))
    BY <1>0, <1>1
  <2>2. k \in 1 .. Len(u) + Len(v)
    BY <1>0, <1>1, <1>2
  <2> QED
    BY <1>2, <1>3, <2>1, <2>2
<1>7. ASSUME NEW j \in DOMAIN s \ {i} PROVE \E k \in DOMAIN r : r[k] = s[j]
  <2>1. CASE j < i
    <3>1. j \in 1 .. i - 1 /\ j \in 1 .. Len(s) - 1
      BY <1>0, <2>1
    <3> QED
      BY <1>4, <1>5, <3>1
  <2>2. CASE j > i
    <3>1. j - 1 \in i .. Len(s) - 1 /\ j - 1 \in 1 .. Len(s) - 1 /\ (j - 1) + 1 = j
      BY <1>0, <2>2
    <3> QED
      BY <1>4, <1>6, <3>1
  <2> QED
    BY <1>0, <2>1, <2>2
<1>8. ASSUME NEW k \in DOMAIN r PROVE \E j \in DOMAIN s \ {i} : r[k] = s[j]
  <2>1. CASE k < i
    <3>1. k \in 1 .. i - 1 /\ k \in DOMAIN s \ {i}
      BY <1>0, <1>4, <2>1
    <3> QED
      BY <1>5, <3>1
  <2>2. CASE k >= i
    <3>1. k \in i .. Len(s) - 1 /\ k + 1 \in DOMAIN s \ {i}
      BY <1>0, <1>4, <2>2
    <3> QED
      BY <1>6, <3>1
  <2> QED
    BY <1>0, <1>4, <2>1, <2>2
<1> QED
  BY <1>3, <1>7, <1>8 DEF r

-----------------------------------------------------------------------------
(* Steps of the manager.                                                   *)

\* There are as many task numbers as the addresses to dial need.
LEMMA InjectionExists ==
    ASSUME NEW S, NEW T, IsFiniteSet(S), IsFiniteSet(T), Cardinality(S) <= Cardinality(T)
    PROVE  \E f \in [S -> T] : \A a, b \in S : f[a] = f[b] => a = b
<1> DEFINE m == Cardinality(S)
           n == Cardinality(T)
<1>1. m \in Nat /\ n \in Nat /\ ExistsBijection(1 .. m, S) /\ ExistsBijection(1 .. n, T)
  BY FS_CardinalityType
<1> HIDE DEF m, n
<1>2. PICK f \in Bijection(1 .. m, S), g \in Bijection(1 .. n, T) : TRUE
  BY <1>1 DEF ExistsBijection
<1>3. f \in [1 .. m -> S] /\ \A s \in S : \E i \in 1 .. m : f[i] = s
  BY <1>2 DEF Bijection, Surjection
<1>4. g \in [1 .. n -> T] /\ \A i, j \in 1 .. n : g[i] = g[j] => i = j
  BY <1>2, Fun_BijectionProperties
<1> DEFINE num == [s \in S |-> CHOOSE i \in 1 .. m : f[i] = s]
           h == [s \in S |-> g[num[s]]]
<1>5. \A s \in S : num[s] \in 1 .. m /\ f[num[s]] = s
  BY <1>3
<1> HIDE DEF num
<1>6. \A s \in S : num[s] \in 1 .. n
  BY <1>1, <1>5 DEF m, n
<1>7. h \in [S -> T] /\ \A a, b \in S : h[a] = h[b] => a = b
  BY <1>4, <1>5, <1>6
<1> QED
  BY <1>7

\* The states, tasks, events and announces the program can have.
Session == [state : {"none", "dialling", "routed", "up"}, addr : Addr \cup {NoAddr},
            told : BOOLEAN, interested : BOOLEAN, slot : BOOLEAN]
Reports == {"started", "completed", "none"}
SwarmEvent == [type : {"PeerExited", "TrackerPeersReceived", "TrackerAnnounceFailed",
                       "PeersDiscovered"},
               addr : Addr \cup {NoAddr}, addrs : Seq(Addr)]
Running == [event : Reports, left : 1 .. NumTrackers, ok : BOOLEAN]

SwarmTypeOK ==
    /\ active \in [Addr -> Task \cup {NoTask}]
    /\ quiet \subseteq ActiveAddrs(active)
    /\ task \in [Task -> Session]
    /\ events \in Seq(SwarmEvent)
    /\ announces \in Seq(Running)
    /\ event \in Reports
    /\ used \in Nat

\* What the end of every branch of the select! does.
LEMMA BranchEffect ==
    ASSUME NEW queue, NEW act, NEW busy, NEW ev, NEW running, NEW isDue,
           AfterBranch(queue, act, busy, ev, running, isDue)
    PROVE  /\ active' = act /\ event' = ev
           /\ quiet' \subseteq quiet /\ \A a \in quiet' : act[a] # NoTask /\ act[a] = active[a]
           /\ \/ announces' = running /\ (announce_in_progress' => busy)
              \/ announces' = Append(running, Announce(ev))
BY DEF AfterBranch

\* The timer branch dials `dials` with the distinct free task numbers `new`;
\* the entries without progress are dropped and their tasks aborted.
Remaining == ActiveAddrs(active) \ quiet

Dials(dials, new) ==
    /\ dials \subseteq Addr \ Remaining /\ new \in [dials -> Free]
    /\ \A a, b \in dials : new[a] = new[b] => a = b
    /\ task' = [t \in Task |->
          IF \E a \in dials : new[a] = t
          THEN [NoSession EXCEPT !.state = "dialling",
                                 !.addr = CHOOSE a \in dials : new[a] = t]
          ELSE IF t \in {active[a] : a \in quiet} THEN NoSession
          ELSE task[t]]
    /\ active' = [a \in Addr |-> IF a \in dials THEN new[a]
                                 ELSE IF a \in Remaining THEN active[a] ELSE NoTask]

\* A tick dials and expires like that.
LEMMA TickEffect ==
    ASSUME SwarmTypeOK, Tick
    PROVE  /\ \E dials, new : Dials(dials, new)
           /\ quiet' \subseteq quiet
           /\ \A a \in quiet' : active'[a] # NoTask /\ active'[a] = active[a]
           /\ event' = event
           /\ \/ announces' = announces /\ (announce_in_progress' => announce_in_progress)
              \/ announces' = Append(announces, Announce(event))
<1> DEFINE n == Popped(Remaining)
           dials == {a \in Addr \ Remaining : \E i \in 1..n : available[i] = a}
           Fits(f) == \A a, b \in dials : f[a] = f[b] => a = b
           new == CHOOSE f \in [dials -> Free] : Fits(f)
<1>1. Cardinality(dials) <= Cardinality(Free)
  BY DEF Tick, TickDialling, Remaining
<1>2. IsFiniteSet(dials) /\ IsFiniteSet(Free)
  <2>1. dials \subseteq Addr /\ Free \subseteq Task
    BY DEF Free
  <2> QED
    BY <2>1, FS_Subset, AddrAssumption, TaskAssumption
<1>3. \E f \in [dials -> Free] : Fits(f)
  <2> HIDE DEF dials
  <2> QED
    BY <1>1, <1>2, InjectionExists
<1>4. new \in [dials -> Free] /\ Fits(new)
  <2> HIDE DEF dials, Fits
  <2> QED
    BY <1>3
<1>5. /\ task' = [t \in Task |->
                      IF \E a \in dials : new[a] = t
                      THEN [NoSession EXCEPT !.state = "dialling",
                                             !.addr = CHOOSE a \in dials : new[a] = t]
                      ELSE IF t \in {active[a] : a \in quiet} THEN NoSession
                      ELSE task[t]]
      /\ AfterBranch(SubSeq(available, n + 1, Len(available)),
                   [a \in Addr |-> IF a \in dials THEN new[a]
                                   ELSE IF a \in Remaining THEN active[a] ELSE NoTask],
                   announce_in_progress, event, announces, due)
  BY DEF Tick, TickDialling, Remaining
<1>6. dials \subseteq Addr \ Remaining
  OBVIOUS
<1> DEFINE act == [a \in Addr |-> IF a \in dials THEN new[a]
                                 ELSE IF a \in Remaining THEN active[a] ELSE NoTask]
           queue == SubSeq(available, n + 1, Len(available))
<1> HIDE DEF dials, new, n
<1>7. /\ active' = act
      /\ event' = event /\ quiet' \subseteq quiet
      /\ \A a \in quiet' : active'[a] # NoTask /\ active'[a] = active[a]
      /\ \/ announces' = announces /\ (announce_in_progress' => announce_in_progress)
         \/ announces' = Append(announces, Announce(event))
  <2>1. AfterBranch(queue, act, announce_in_progress, event, announces, due)
    BY <1>5
  <2> HIDE DEF act, queue
  <2> QED
    BY <2>1, BranchEffect
<1>8. Dials(dials, new)
  BY <1>4, <1>5, <1>6, <1>7 DEF Dials
<1> QED
  BY <1>7, <1>8

-----------------------------------------------------------------------------
(* Types.                                                                  *)

\* The four branches for SwarmEvents.
Receipt == PeerExited \/ TrackerPeersReceived \/ TrackerAnnounceFailed \/ PeersDiscovered

\* A received event is the head of the channel; of the entries only that of a
\* task that reported its end goes.
LEMMA ReceiptEffect ==
    ASSUME SwarmTypeOK, Receipt
    PROVE  /\ ~stopped /\ events # <<>> /\ Head(events) \in SwarmEvent
           /\ events' = Tail(events) /\ events' \in Seq(SwarmEvent)
           /\ UNCHANGED <<task, reported, complete, used, registered, signalled, stopped>>
           /\ active' = IF Head(events).type = "PeerExited"
                        THEN [active EXCEPT ![Head(events).addr] = NoTask] ELSE active
           /\ quiet' \subseteq quiet
           /\ \A a \in quiet' : active'[a] # NoTask /\ active'[a] = active[a]
           /\ event' = IF Head(events).type = "TrackerPeersReceived" THEN "none" ELSE event
           /\ \/ /\ announces' = announces
                 /\ announce_in_progress' =>
                        /\ announce_in_progress
                        /\ Head(events).type \notin {"TrackerPeersReceived", "TrackerAnnounceFailed"}
              \/ announces' = Append(announces, Announce(event'))
<1>0. /\ ~stopped /\ events # <<>> /\ events' = Tail(events)
      /\ UNCHANGED <<task, reported, complete, used, registered, signalled, stopped>>
  BY DEF Receipt, PeerExited, TrackerPeersReceived, TrackerAnnounceFailed, PeersDiscovered,
         Received, stopVars
<1>1. Head(events) \in SwarmEvent /\ events' \in Seq(SwarmEvent)
  BY <1>0, TailKeeps DEF SwarmTypeOK
<1> DEFINE e == Head(events)
<1>2. PICK queue, act, busy, ev :
         /\ AfterBranch(queue, act, busy, ev, announces, due)
         /\ act = IF e.type = "PeerExited" THEN [active EXCEPT ![e.addr] = NoTask] ELSE active
         /\ busy => /\ announce_in_progress
                    /\ e.type \notin {"TrackerPeersReceived", "TrackerAnnounceFailed"}
         /\ ev = IF e.type = "TrackerPeersReceived" THEN "none" ELSE event
  <2>1. CASE PeerExited
    <3>1. e.type = "PeerExited"
      BY <2>1 DEF PeerExited, Received
    <3> QED
      BY <2>1, <3>1 DEF PeerExited
  <2>2. CASE TrackerPeersReceived
    <3>1. e.type = "TrackerPeersReceived"
      BY <2>2 DEF TrackerPeersReceived, Received
    <3> QED
      BY <2>2, <3>1 DEF TrackerPeersReceived
  <2>3. CASE TrackerAnnounceFailed
    <3>1. e.type = "TrackerAnnounceFailed"
      BY <2>3 DEF TrackerAnnounceFailed, Received
    <3> QED
      BY <2>3, <3>1 DEF TrackerAnnounceFailed
  <2>4. CASE PeersDiscovered
    <3>1. e.type = "PeersDiscovered"
      BY <2>4 DEF PeersDiscovered, Received
    <3> QED
      BY <2>4, <3>1 DEF PeersDiscovered
  <2> QED
    BY <2>1, <2>2, <2>3, <2>4 DEF Receipt
<1>3. /\ active' = act /\ event' = ev /\ quiet' \subseteq quiet
      /\ \A a \in quiet' : act[a] # NoTask /\ act[a] = active[a]
      /\ \/ announces' = announces /\ (announce_in_progress' => busy)
         \/ announces' = Append(announces, Announce(ev))
  BY <1>2, BranchEffect
<1> QED
  BY <1>0, <1>1, <1>2, <1>3

\* The entries and the idle ones among them keep their types.
LEMMA StepKeepsEntries ==
    ASSUME SwarmTypeOK, [Next]_vars
    PROVE  active' \in [Addr -> Task \cup {NoTask}] /\ quiet' \subseteq ActiveAddrs(active')
<1> USE DEF ActiveAddrs
<1>0. active \in [Addr -> Task \cup {NoTask}] /\ quiet \subseteq ActiveAddrs(active)
  BY DEF SwarmTypeOK
<1>1. CASE UNCHANGED active /\ quiet' \subseteq quiet
  BY <1>0, <1>1
<1>2. CASE Receipt
  BY <1>0, <1>2, ReceiptEffect
<1>3. CASE DownloadComplete
  BY <1>1, <1>3, BranchEffect DEF DownloadComplete
<1>4. CASE Tick
  <2>1. PICK dials, new : Dials(dials, new)
    BY <1>4, TickEffect
  <2>2. quiet' \subseteq quiet /\ \A a \in quiet' : active'[a] # NoTask
    BY <1>4, TickEffect
  <2> QED
    BY <1>0, <2>1, <2>2 DEF Dials, Free
<1>5. CASE Stop
  BY <1>5 DEF Stop, StopWith
<1>6. CASE TimePasses \/ TrackerAnswers \/ TrackerFails \/ Discover \/ Shutdown \/ UNCHANGED vars
  BY <1>1, <1>6 DEF TimePasses, TrackerAnswers, TrackerFails, TrackerDone, Discover, Shutdown,
                    managerVars, vars
<1>7. ASSUME NEW t \in Task, Quiet(t)
      PROVE  active' \in [Addr -> Task \cup {NoTask}] /\ quiet' \subseteq ActiveAddrs(active')
  <2>1. /\ task[t].addr # NoAddr /\ active[task[t].addr] = t
        /\ quiet' = quiet \cup {task[t].addr} /\ active' = active
    BY <1>7 DEF Quiet, Dialled
  <2>2. task[t].addr \in Addr
    BY <2>1 DEF SwarmTypeOK, Session
  <2>3. t # NoTask
    BY TaskAssumption DEF NoTask
  <2> QED
    BY <1>0, <2>1, <2>2, <2>3
<1>8. ASSUME NEW t \in Task,
             \/ Connected(t) \/ Ends(t) \/ EndsOnShutdown(t) \/ Route(t)
             \/ Subscribe(t) \/ Interested(t) \/ NotInterested(t)
      PROVE  UNCHANGED active /\ quiet' \subseteq quiet
  BY <1>8 DEF Connected, Ends, EndsOnShutdown, Route, Subscribe, Interested, NotInterested,
              managerVars
<1> QED
  BY <1>1, <1>2, <1>3, <1>4, <1>5, <1>6, <1>7, <1>8 DEF Next, Manager, Receipt

\* Tasks keep their types.
LEMMA StepKeepsTasks ==
    ASSUME SwarmTypeOK, [Next]_vars
    PROVE  task' \in [Task -> Session]
<1> USE DEF Session, NoSession
<1>0. task \in [Task -> Session]
  BY DEF SwarmTypeOK
<1>1. CASE UNCHANGED task
  BY <1>0, <1>1
<1>2. CASE Receipt
  BY <1>1, <1>2, ReceiptEffect
<1>3. CASE Tick
  <2>1. PICK dials, new : Dials(dials, new)
    BY <1>3, TickEffect
  <2> QED
    BY <1>0, <2>1 DEF Dials
<1>4. CASE Stop
  BY <1>0, <1>4 DEF Stop, StopWith
<1>5. CASE Shutdown
  <2>1. task' = [t \in Task |-> IF task[t].state \in {"dialling", "up"}
                                THEN [task[t] EXCEPT !.told = TRUE] ELSE task[t]]
    BY <1>5 DEF Shutdown
  <2>2. \A t \in Task : task[t] \in Session /\ [task[t] EXCEPT !.told = TRUE] \in Session
    BY <1>0
  <2> HIDE DEF Session
  <2> QED
    BY <2>1, <2>2
<1>6. CASE DownloadComplete \/ TimePasses \/ TrackerAnswers \/ TrackerFails \/ Discover \/ UNCHANGED vars
  BY <1>1, <1>6 DEF DownloadComplete, TimePasses, TrackerAnswers, TrackerFails, TrackerDone,
                    Discover, vars
<1>7. ASSUME NEW t \in Task,
             \/ Connected(t) \/ Ends(t) \/ EndsOnShutdown(t) \/ Quiet(t) \/ Route(t) \/ Subscribe(t)
      PROVE  task' \in [Task -> Session]
  <2>1. CASE Connected(t) \/ Subscribe(t)
    BY <1>0, <2>1 DEF Connected, Subscribe
  <2>2. CASE Ends(t) \/ EndsOnShutdown(t)
    <3>1. task' = [task EXCEPT ![t] = NoSession]
      BY <2>2 DEF Ends, EndsOnShutdown, End, EndWith
    <3> QED
      BY <1>0, <3>1
  <2>3. CASE Route(t)
    BY <1>0, <2>3 DEF Route
  <2> QED
    BY <1>1, <1>7, <2>1, <2>2, <2>3 DEF Quiet
<1>8. ASSUME NEW t \in Task, Interested(t) PROVE task' \in [Task -> Session]
  <2> DEFINE x == [task[t] EXCEPT !.interested = TRUE, !.slot = @ \/ used < MaxSlots]
  <2>1. task' = [task EXCEPT ![t] = x]
    BY <1>0, <1>8 DEF Interested, TryUnchoke
  <2>2. task[t] \in Session /\ x \in Session
    BY <1>0
  <2> HIDE DEF x, Session
  <2> QED
    BY <1>0, <2>1, <2>2
<1>9. ASSUME NEW t \in Task, NotInterested(t) PROVE task' \in [Task -> Session]
  <2> DEFINE x == [task[t] EXCEPT !.interested = FALSE, !.slot = FALSE]
  <2>1. task' = [task EXCEPT ![t] = x]
    BY <1>0, <1>9 DEF NotInterested
  <2>2. task[t] \in Session /\ x \in Session
    BY <1>0
  <2> HIDE DEF x, Session
  <2> QED
    BY <1>0, <2>1, <2>2
<1> QED
  BY <1>1, <1>2, <1>3, <1>4, <1>5, <1>6, <1>7, <1>8, <1>9 DEF Next, Manager, Receipt

\* The steps outside the manager that send at most one event each.
LEMMA SendKeeps ==
    ASSUME SwarmTypeOK, NEW e \in SwarmEvent, events' = Send(e)
    PROVE  events' \in Seq(SwarmEvent)
BY DEF SwarmTypeOK, Send

\* One more tracker of a running announce is done: the announce goes, or goes
\* on with one tracker less; what it has to report is appended.
LEMMA TrackerEffect ==
    ASSUME SwarmTypeOK, NEW i \in DOMAIN announces, NEW ok \in BOOLEAN, NEW addrs \in Seq(Addr),
           TrackerDone(i, ok, addrs)
    PROVE  LET a == announces[i]
           IN  /\ a \in Running
               /\ Outcome(a, ok, addrs) \in Seq(SwarmEvent)
               /\ events' = events \o Outcome(a, ok, addrs)
               /\ \/ /\ a.left = 1
                     /\ announces' = Without(announces, i)
                  \/ /\ a.left # 1
                     /\ \E b \in Running : /\ announces' = [announces EXCEPT ![i] = b]
                                           /\ b.event = a.event
                                           /\ b.ok => a.ok \/ ok
               /\ events' \in Seq(SwarmEvent) /\ announces' \in Seq(Running)
<1> DEFINE a == announces[i]
<1>0. announces \in Seq(Running) /\ events \in Seq(SwarmEvent)
  BY DEF SwarmTypeOK
<1>1. a \in Running /\ i \in Nat
  BY <1>0
<1>2. /\ a = [event |-> a.event, left |-> a.left, ok |-> a.ok]
      /\ a.event \in Reports /\ a.left \in 1 .. NumTrackers
  BY <1>1 DEF Running
<1>3. a.ok \in BOOLEAN
  BY <1>1 DEF Running
<1>4. Outcome(a, ok, addrs) \in Seq(SwarmEvent)
  <2>1. /\ Event("TrackerPeersReceived", NoAddr, addrs) \in SwarmEvent
        /\ Event("TrackerAnnounceFailed", NoAddr, <<>>) \in SwarmEvent
    BY DEF Event, SwarmEvent
  <2>2. \/ Outcome(a, ok, addrs) = <<Event("TrackerPeersReceived", NoAddr, addrs)>>
        \/ Outcome(a, ok, addrs) = <<Event("TrackerAnnounceFailed", NoAddr, <<>>)>>
        \/ Outcome(a, ok, addrs) = <<>>
    BY DEF Outcome
  <2>3. \A e \in SwarmEvent : <<e>> \in Seq(SwarmEvent)
    OBVIOUS
  <2>4. <<>> \in Seq(SwarmEvent)
    OBVIOUS
  <2> QED
    BY <2>1, <2>2, <2>3, <2>4, Zenon
<1>5. events' = events \o Outcome(a, ok, addrs)
  BY DEF TrackerDone
<1>6. events' \in Seq(SwarmEvent)
  <2> HIDE DEF a
  <2> QED
    BY <1>0, <1>4, <1>5, ConcatProperties
<1>7. CASE a.left = 1
  <2>1. announces' = Without(announces, i)
    BY <1>7 DEF TrackerDone, Without
  <2>2. announces' \in Seq(Running)
    BY <1>0, <2>1, RemovalKeeps
  <2> QED
    BY <1>1, <1>4, <1>5, <1>6, <1>7, <2>1, <2>2
<1>8. CASE a.left # 1
  <2> DEFINE more == a.ok \/ ok
             b == [a EXCEPT !.left = a.left - 1, !.ok = more]
  <2>1. announces' = [announces EXCEPT ![i] = b]
    <3>1. announces' = [announces EXCEPT ![i].left = @ - 1, ![i].ok = @ \/ ok]
      BY <1>8 DEF TrackerDone
    <3> QED
      BY <1>0, <1>1, <1>2, <3>1
  <2>2. more \in BOOLEAN /\ (more => a.ok \/ ok)
    OBVIOUS
  <2>3. a.left - 1 \in 1 .. NumTrackers
    BY <1>2, <1>8, SwarmSizesAssumption
  <2> HIDE DEF more
  <2>4. b \in Running /\ b.event = a.event /\ b.ok = more
    <3> HIDE DEF a
    <3> QED
      BY <1>1, <2>2, <2>3 DEF Running
  <2> HIDE DEF b
  <2>5. announces' \in Seq(Running)
    BY <1>0, <2>1, <2>4
  <2> QED
    BY <1>1, <1>4, <1>5, <1>6, <1>8, <2>1, <2>2, <2>4, <2>5
<1> QED
  BY <1>7, <1>8

\* An answer and a failure are the same step with other arguments.
LEMMA TrackerSteps ==
    ASSUME TrackerAnswers \/ TrackerFails
    PROVE  \E i \in DOMAIN announces, ok \in BOOLEAN, addrs \in Seq(Addr) :
               TrackerDone(i, ok, addrs)
<1>1. <<>> \in Seq(Addr) /\ TRUE \in BOOLEAN /\ FALSE \in BOOLEAN
  OBVIOUS
<1>2. CASE TrackerAnswers
  BY <1>1, <1>2, PeerListsAssumption DEF TrackerAnswers
<1>3. CASE TrackerFails
  BY <1>1, <1>3 DEF TrackerFails
<1> QED
  BY <1>2, <1>3

\* The channel and the running announces keep their types.
LEMMA StepKeepsQueues ==
    ASSUME SwarmTypeOK, [Next]_vars
    PROVE  events' \in Seq(SwarmEvent) /\ announces' \in Seq(Running) /\ event' \in Reports
<1>0. events \in Seq(SwarmEvent) /\ announces \in Seq(Running) /\ event \in Reports
  BY DEF SwarmTypeOK
<1>a. ASSUME NEW ev \in Reports PROVE Append(announces, Announce(ev)) \in Seq(Running)
  <2>1. NumTrackers \in 1 .. NumTrackers
    BY SwarmSizesAssumption
  <2>2. Announce(ev) \in Running
    BY <2>1 DEF Announce, Running
  <2> QED
    BY <1>0, <2>2
<1>1. CASE UNCHANGED <<events, announces, event>>
  BY <1>0, <1>1
<1>2. CASE Receipt
  <2>1. event' \in Reports
    BY <1>0, <1>2, ReceiptEffect DEF Reports
  <2> QED
    BY <1>0, <1>2, <1>a, <2>1, ReceiptEffect
<1>3. CASE DownloadComplete
  <2> DEFINE running == Append(announces, Announce("completed"))
  <2>1. AfterBranch(available, active, TRUE, "completed", running, FALSE) /\ events' = events
    BY <1>3 DEF DownloadComplete
  <2>2. announces' = running /\ event' = "completed"
    BY <2>1 DEF AfterBranch
  <2>3. "completed" \in Reports
    BY DEF Reports
  <2> QED
    BY <1>0, <1>a, <2>1, <2>2, <2>3
<1>4. CASE Tick
  <2>1. events' = events
    BY <1>4 DEF Tick, TickDialling
  <2> QED
    BY <1>0, <1>4, <1>a, <2>1, TickEffect
<1>5. CASE Stop
  BY <1>5 DEF Stop, StopWith, Reports
<1>6. CASE TrackerAnswers \/ TrackerFails
  <2>1. PICK i \in DOMAIN announces, ok \in BOOLEAN, addrs \in Seq(Addr) : TrackerDone(i, ok, addrs)
    BY <1>6, TrackerSteps
  <2>2. event' = event
    BY <2>1 DEF TrackerDone, managerVars
  <2> QED
    BY <1>0, <2>1, <2>2, TrackerEffect
<1>7. CASE Discover
  <2>1. PICK addrs \in PeerLists : events' = Send(Event("PeersDiscovered", NoAddr, addrs))
    BY <1>7 DEF Discover
  <2>2. Event("PeersDiscovered", NoAddr, addrs) \in SwarmEvent
    BY PeerListsAssumption DEF Event, SwarmEvent
  <2> QED
    BY <1>0, <1>7, <2>1, <2>2, SendKeeps DEF Discover, managerVars, trackerVars
<1>8. CASE TimePasses \/ Shutdown \/ UNCHANGED vars
  BY <1>1, <1>8 DEF TimePasses, Shutdown, managerVars, trackerVars, vars
<1>9. ASSUME NEW t \in Task, Ends(t) \/ EndsOnShutdown(t)
      PROVE  events' \in Seq(SwarmEvent) /\ announces' \in Seq(Running) /\ event' \in Reports
  <2>1. UNCHANGED <<announces, event>>
    BY <1>9 DEF Ends, EndsOnShutdown, managerVars, trackerVars
  <2>2. events' = events \/ events' = Send(Event("PeerExited", task[t].addr, <<>>))
    BY <1>9 DEF Ends, EndsOnShutdown, End, EndWith
  <2>3. Event("PeerExited", task[t].addr, <<>>) \in SwarmEvent
    BY DEF Event, SwarmEvent, SwarmTypeOK, Session
  <2> QED
    BY <1>0, <2>1, <2>2, <2>3, SendKeeps
<1>10. ASSUME NEW t \in Task,
             \/ Connected(t) \/ Quiet(t) \/ Route(t)
             \/ Subscribe(t) \/ Interested(t) \/ NotInterested(t)
      PROVE  UNCHANGED <<events, announces, event>>
  BY <1>10 DEF Connected, Quiet, Route, Subscribe, Interested, NotInterested,
               managerVars, trackerVars
<1> QED
  BY <1>1, <1>2, <1>3, <1>4, <1>5, <1>6, <1>7, <1>8, <1>9, <1>10 DEF Next, Manager, Receipt

\* The count of upload slots is a natural number: no release underflows.
LEMMA StepKeepsUsed ==
    ASSUME SwarmTypeOK, [Next]_vars
    PROVE  used' \in Nat
<1>0. used \in Nat
  BY DEF SwarmTypeOK
<1>1. CASE Receipt
  BY <1>0, <1>1, ReceiptEffect
<1>2. CASE DownloadComplete \/ Tick \/ Stop
  BY <1>0, <1>2 DEF DownloadComplete, Tick, TickDialling, Stop, StopWith
<1>3. CASE \/ TimePasses \/ TrackerAnswers \/ TrackerFails \/ Discover \/ Shutdown
           \/ UNCHANGED vars
  BY <1>0, <1>3 DEF TimePasses, TrackerAnswers, TrackerFails, TrackerDone, Discover, Shutdown, vars
<1>4. ASSUME NEW t \in Task,
             \/ Connected(t) \/ Ends(t) \/ EndsOnShutdown(t) \/ Quiet(t) \/ Route(t)
             \/ Subscribe(t) \/ Interested(t) \/ NotInterested(t)
      PROVE  used' \in Nat
  BY <1>0, <1>4 DEF Connected, Ends, EndsOnShutdown, End, EndWith, Quiet, Route, Subscribe,
     Interested, TryUnchoke, NotInterested, ReleaseSlot
<1> QED
  BY <1>1, <1>2, <1>3, <1>4 DEF Next, Manager, Receipt

\* The type invariant is inductive.
LEMMA StepKeepsTypes == SwarmTypeOK /\ [Next]_vars => SwarmTypeOK'
BY StepKeepsEntries, StepKeepsTasks, StepKeepsQueues, StepKeepsUsed DEF SwarmTypeOK, ActiveAddrs

\* The initial state is well typed.
LEMMA InitIsTyped == Init => SwarmTypeOK
BY DEF Init, SwarmTypeOK, Session, NoSession, ActiveAddrs, Reports

-----------------------------------------------------------------------------
(* Announces.                                                              *)

OutcomeTypes == {"TrackerPeersReceived", "TrackerAnnounceFailed"}

\* The steps that touch neither the manager's announce state nor a running
\* announce send at most events of other types.
LEMMA BystanderEffect ==
    ASSUME SwarmTypeOK,
           \/ Discover \/ TimePasses \/ Shutdown \/ UNCHANGED vars
           \/ \E t \in Task :
                \/ Connected(t) \/ Ends(t) \/ EndsOnShutdown(t) \/ Quiet(t) \/ Route(t)
                \/ Subscribe(t) \/ Interested(t) \/ NotInterested(t)
    PROVE  /\ UNCHANGED <<announces, announce_in_progress, event, complete, reported, stopped>>
           /\ \/ events' = events
              \/ \E e \in SwarmEvent : /\ events' = Append(events, e)
                                       /\ e.type \notin OutcomeTypes
<1>1. UNCHANGED <<announces, announce_in_progress, event, complete, reported, stopped>>
  BY DEF Discover, TimePasses, Shutdown, Connected, Ends, EndsOnShutdown, Quiet, Route, Subscribe,
         Interested, NotInterested, managerVars, trackerVars, stopVars, vars
<1>2. \/ events' = events
      \/ \E addrs \in PeerLists : events' = Append(events, Event("PeersDiscovered", NoAddr, addrs))
      \/ \E t \in Task : events' = Append(events, Event("PeerExited", task[t].addr, <<>>))
  BY DEF Discover, TimePasses, Shutdown, Connected, Ends, EndsOnShutdown, End, EndWith, Send, Quiet,
         Route, Subscribe, Interested, NotInterested, vars
<1>3. ASSUME NEW addrs \in PeerLists
      PROVE  /\ Event("PeersDiscovered", NoAddr, addrs) \in SwarmEvent
             /\ Event("PeersDiscovered", NoAddr, addrs).type \notin OutcomeTypes
  BY PeerListsAssumption DEF Event, SwarmEvent, OutcomeTypes
<1>4. ASSUME NEW t \in Task
      PROVE  /\ Event("PeerExited", task[t].addr, <<>>) \in SwarmEvent
             /\ Event("PeerExited", task[t].addr, <<>>).type \notin OutcomeTypes
  BY DEF Event, SwarmEvent, OutcomeTypes, SwarmTypeOK, Session
<1> QED
  BY <1>1, <1>2, <1>3, <1>4

\* Every step is one of these.
LEMMA StepCases ==
    ASSUME [Next]_vars
    PROVE  \/ Receipt \/ DownloadComplete \/ Tick \/ Stop
           \/ TrackerAnswers \/ TrackerFails
           \/ \/ Discover \/ TimePasses \/ Shutdown \/ UNCHANGED vars
              \/ \E t \in Task :
                   \/ Connected(t) \/ Ends(t) \/ EndsOnShutdown(t) \/ Quiet(t) \/ Route(t)
                   \/ Subscribe(t) \/ Interested(t) \/ NotInterested(t)
BY DEF Next, Manager, Receipt

\* While an announce is in progress its outcome waits, or an announce without
\* an answer so far is running, which reports at the latest with its last
\* tracker.  A running announce that already had an answer does not count: it
\* may end silently.
AnnounceOwed ==
    ~stopped /\ announce_in_progress =>
        \/ \E i \in DOMAIN events : events[i].type \in OutcomeTypes
        \/ \E i \in DOMAIN announces : ~announces[i].ok

\* Every step leaves someone to clear the flag.
LEMMA StepKeepsAnnounceOwed ==
    ASSUME SwarmTypeOK, AnnounceOwed, [Next]_vars
    PROVE  AnnounceOwed'
<1> USE DEF AnnounceOwed
<1>0. events \in Seq(SwarmEvent) /\ announces \in Seq(Running) /\ event \in Reports
  BY DEF SwarmTypeOK
<1>a. ASSUME NEW ev, announces' = Append(announces, Announce(ev)) PROVE AnnounceOwed'
  <2>1. announces'[Len(announces) + 1] = Announce(ev) /\ Len(announces) + 1 \in DOMAIN announces'
    BY <1>0, <1>a
  <2>2. ~Announce(ev).ok
    BY DEF Announce
  <2> QED
    BY <2>1, <2>2
<1>1. CASE Receipt
  <2>1. CASE announces' = Append(announces, Announce(event'))
    BY <1>a, <2>1
  <2>2. CASE /\ announces' = announces
             /\ announce_in_progress' => /\ announce_in_progress
                                         /\ Head(events).type \notin OutcomeTypes
    <3> SUFFICES ASSUME ~stopped', announce_in_progress',
                        NEW i \in DOMAIN events, events[i].type \in OutcomeTypes
                 PROVE  \E j \in DOMAIN events' : events'[j].type \in OutcomeTypes
      BY <1>1, <2>2, ReceiptEffect
    <3>1. events # <<>> /\ events' = Tail(events)
      BY <1>1, ReceiptEffect
    <3>2. i # 1 /\ i \in Nat
      BY <1>0, <2>2, <3>1
    <3>3. i - 1 \in DOMAIN events' /\ events'[i - 1] = events[i]
      BY <1>0, <3>1, <3>2
    <3> QED
      BY <3>3
  <2> QED
    BY <1>1, <2>1, <2>2, ReceiptEffect DEF OutcomeTypes
<1>2. CASE DownloadComplete
  <2>1. announces' = Append(announces, Announce("completed"))
    BY <1>2 DEF DownloadComplete, AfterBranch
  <2> QED
    BY <1>a, <2>1
<1>3. CASE Tick
  <2>1. UNCHANGED <<events, stopped>>
    BY <1>3 DEF Tick, TickDialling, stopVars
  <2> QED
    BY <1>3, <1>a, <2>1, TickEffect
<1>4. CASE Stop
  BY <1>4 DEF Stop, StopWith
<1>5. CASE TrackerAnswers \/ TrackerFails
  <2>1. PICK i \in DOMAIN announces, ok \in BOOLEAN, addrs \in Seq(Addr) : TrackerDone(i, ok, addrs)
    BY <1>5, TrackerSteps
  <2> DEFINE a == announces[i]
             out == Outcome(a, ok, addrs)
  <2>2. /\ out \in Seq(SwarmEvent) /\ events' = events \o out
    BY <2>1, TrackerEffect
  <2>3. UNCHANGED <<stopped, announce_in_progress>>
    BY <2>1 DEF TrackerDone, managerVars, stopVars
  <2>4. CASE out # <<>>
    <3>1. out # <<>> /\ out[1].type \in OutcomeTypes
      BY <2>4 DEF Outcome, Event, OutcomeTypes
    <3> HIDE DEF out
    <3>2. Len(events) + 1 \in DOMAIN events' /\ events'[Len(events) + 1] = out[1]
      BY <1>0, <2>2, <3>1
    <3> QED
      BY <3>1, <3>2
  <2>5. CASE out = <<>>
    <3>1. ~ok /\ (a.left = 1 => a.ok)
      BY <2>5 DEF Outcome
    <3>2. events' = events
      <4> HIDE DEF out
      <4> QED
        BY <1>0, <2>2, <2>5
    <3>3. ASSUME NEW j \in DOMAIN announces, ~announces[j].ok
          PROVE  \E k \in DOMAIN announces' : ~announces'[k].ok
      <4>1. CASE a.left = 1
        <5>1. announces' = Without(announces, i)
          BY <2>1, <4>1, TrackerEffect
        <5>2. j # i
          BY <3>1, <3>3, <4>1
        <5>3. \E k \in DOMAIN announces' : announces'[k] = announces[j]
          <6>1. \A m \in DOMAIN announces \ {i} :
                  \E k \in DOMAIN announces' : announces'[k] = announces[m]
            BY <1>0, <2>1, <5>1, RemovalKeeps
          <6> QED
            BY <5>2, <6>1
        <5> QED
          BY <3>3, <5>3
      <4>2. CASE a.left # 1
        <5>1. PICK b \in Running : announces' = [announces EXCEPT ![i] = b] /\ (b.ok => a.ok \/ ok)
          BY <2>1, <4>2, TrackerEffect
        <5>2. DOMAIN announces' = DOMAIN announces
          BY <5>1
        <5>3. j = i => announces'[j] = b
          BY <5>1
        <5>4. j # i => announces'[j] = announces[j]
          BY <5>1
        <5>5. ~announces'[j].ok
          BY <3>1, <3>3, <5>1, <5>3, <5>4
        <5> QED
          BY <5>2, <5>5
      <4> QED
        BY <4>1, <4>2
    <3> QED
      BY <2>3, <3>2, <3>3
  <2> QED
    BY <2>4, <2>5
<1>6. CASE \/ Discover \/ TimePasses \/ Shutdown \/ UNCHANGED vars
           \/ \E t \in Task :
                \/ Connected(t) \/ Ends(t) \/ EndsOnShutdown(t) \/ Quiet(t) \/ Route(t)
                \/ Subscribe(t) \/ Interested(t) \/ NotInterested(t)
  <2>1. UNCHANGED <<announces, announce_in_progress, stopped>>
    BY <1>6, BystanderEffect
  <2>2. \A i \in DOMAIN events : i \in DOMAIN events' /\ events'[i] = events[i]
    BY <1>0, <1>6, BystanderEffect
  <2> QED
    BY <2>1, <2>2
<1> QED
  BY <1>1, <1>2, <1>3, <1>4, <1>5, <1>6, StepCases

\* announce_in_progress never stays set without anyone left to clear it: for
\* any number of trackers, announces at once and events waiting.
THEOREM AnnounceAlwaysCleared == Spec => []AnnounceNeverStuck
<1> DEFINE I == SwarmTypeOK /\ AnnounceOwed
<1>1. Init => I
  BY InitIsTyped DEF Init, AnnounceOwed
<1>2. I /\ [Next]_vars => I'
  BY StepKeepsTypes, StepKeepsAnnounceOwed
<1>3. I => AnnounceNeverStuck
  BY DEF SwarmTypeOK, AnnounceOwed, AnnounceNeverStuck, OutcomeTypes
<1> QED
  BY <1>1, <1>2, <1>3, PTL DEF Spec

\* A download that completes between two announces keeps its report: as long
\* as no tracker took it, "completed" is what the next announce reports, what
\* every running one reports, and no answer to an older one waits that would
\* clear it.
CompletedKept ==
    ~stopped /\ complete /\ ~reported =>
        /\ event = "completed"
        /\ \A i \in DOMAIN announces : announces[i].event = "completed"
        /\ \A i \in DOMAIN events : events[i].type # "TrackerPeersReceived"

\* The report is kept by every step.
LEMMA StepKeepsCompleted ==
    ASSUME "overlap" \notin Behaviours, SwarmTypeOK, CompletedKept, [Next]_vars
    PROVE  CompletedKept'
<1> USE DEF CompletedKept
<1>0. events \in Seq(SwarmEvent) /\ announces \in Seq(Running) /\ event \in Reports
  BY DEF SwarmTypeOK
<1>a. ASSUME NEW seq \in Seq(Running), NEW more,
             \A i \in DOMAIN seq : seq[i].event = "completed",
             more = seq \/ more = Append(seq, Announce("completed"))
      PROVE  \A i \in DOMAIN more : more[i].event = "completed"
  <2>1. Announce("completed").event = "completed"
    BY DEF Announce
  <2> QED
    BY <1>a, <2>1
<1>1. CASE Receipt
  <2> SUFFICES ASSUME ~stopped', complete', ~reported'
               PROVE  /\ event' = "completed"
                      /\ \A i \in DOMAIN announces' : announces'[i].event = "completed"
                      /\ \A i \in DOMAIN events' : events'[i].type # "TrackerPeersReceived"
    OBVIOUS
  <2>1. /\ event = "completed"
        /\ \A i \in DOMAIN announces : announces[i].event = "completed"
        /\ \A i \in DOMAIN events : events[i].type # "TrackerPeersReceived"
    BY <1>1, ReceiptEffect
  <2>2. events # <<>> /\ events' = Tail(events)
    BY <1>1, ReceiptEffect
  <2>3. Head(events).type # "TrackerPeersReceived"
    BY <1>0, <2>1, <2>2
  <2>4. event' = "completed"
    BY <1>1, <2>1, <2>3, ReceiptEffect
  <2>5. announces' = announces \/ announces' = Append(announces, Announce("completed"))
    BY <1>1, <2>4, ReceiptEffect
  <2>6. \A i \in DOMAIN events' : i + 1 \in DOMAIN events /\ events'[i] = events[i + 1]
    BY <1>0, <2>2
  <2> QED
    BY <1>0, <1>a, <2>1, <2>4, <2>5, <2>6
<1>2. CASE DownloadComplete
  <2>1. /\ announces = <<>> /\ \A i \in DOMAIN events : events[i].type # "TrackerPeersReceived"
        /\ announces' = Append(announces, Announce("completed"))
        /\ event' = "completed" /\ events' = events
    BY <1>2 DEF DownloadComplete, AfterBranch
  <2>2. \A i \in DOMAIN announces : announces[i].event = "completed"
    BY <2>1
  <2>3. \A i \in DOMAIN announces' : announces'[i].event = "completed"
    BY <1>0, <1>a, <2>1, <2>2
  <2> QED
    BY <2>1, <2>3
<1>3. CASE Tick
  <2>1. UNCHANGED <<events, stopped, complete, reported>>
    BY <1>3 DEF Tick, TickDialling, stopVars
  <2>2. /\ event' = event
        /\ announces' = announces \/ announces' = Append(announces, Announce(event))
    BY <1>3, TickEffect
  <2> QED
    BY <1>0, <1>a, <2>1, <2>2
<1>4. CASE Stop
  BY <1>4 DEF Stop, StopWith
<1>5. CASE TrackerAnswers \/ TrackerFails
  <2>1. PICK i \in DOMAIN announces, ok \in BOOLEAN, addrs \in Seq(Addr) : TrackerDone(i, ok, addrs)
    BY <1>5, TrackerSteps
  <2> DEFINE a == announces[i]
             out == Outcome(a, ok, addrs)
  <2> SUFFICES ASSUME ~stopped', complete', ~reported'
               PROVE  /\ event' = "completed"
                      /\ \A k \in DOMAIN announces' : announces'[k].event = "completed"
                      /\ \A k \in DOMAIN events' : events'[k].type # "TrackerPeersReceived"
    OBVIOUS
  <2>2. /\ UNCHANGED <<stopped, complete, event>> /\ ~reported
        /\ ~(ok /\ a.event = "completed")
    BY <2>1 DEF TrackerDone, managerVars, stopVars
  <2>3. /\ event = "completed"
        /\ \A k \in DOMAIN announces : announces[k].event = "completed"
        /\ \A k \in DOMAIN events : events[k].type # "TrackerPeersReceived"
    BY <2>2
  <2>4. ~ok
    BY <2>1, <2>2, <2>3
  <2>5. \A k \in DOMAIN announces' : announces'[k].event = "completed"
    <3>1. CASE a.left = 1
      <4>1. announces' = Without(announces, i)
        BY <2>1, <3>1, TrackerEffect
      <4>2. \A k \in DOMAIN announces' : \E j \in DOMAIN announces \ {i} : announces'[k] = announces[j]
        BY <1>0, <2>1, <4>1, RemovalKeeps
      <4> QED
        BY <2>3, <4>2
    <3>2. CASE a.left # 1
      <4>1. PICK b \in Running : announces' = [announces EXCEPT ![i] = b] /\ b.event = a.event
        BY <2>1, <3>2, TrackerEffect
      <4> QED
        BY <2>1, <2>3, <4>1
    <3> QED
      BY <3>1, <3>2
  <2>6. /\ events' = events \o out /\ out \in Seq(SwarmEvent)
        /\ \A k \in DOMAIN out : out[k].type # "TrackerPeersReceived"
    <3>1. out = <<>> \/ out = <<Event("TrackerAnnounceFailed", NoAddr, <<>>)>>
      BY <2>4 DEF Outcome
    <3>2. Event("TrackerAnnounceFailed", NoAddr, <<>>).type # "TrackerPeersReceived"
      BY DEF Event
    <3>3. events' = events \o out /\ out \in Seq(SwarmEvent)
      BY <2>1, TrackerEffect
    <3> HIDE DEF out
    <3> QED
      BY <3>1, <3>2, <3>3
  <2>7. \A k \in DOMAIN events' : events'[k].type # "TrackerPeersReceived"
    <3> HIDE DEF out
    <3> QED
      BY <1>0, <2>3, <2>6, ConcatKeeps
  <2> QED
    BY <2>2, <2>3, <2>5, <2>7
<1>6. CASE \/ Discover \/ TimePasses \/ Shutdown \/ UNCHANGED vars
           \/ \E t \in Task :
                \/ Connected(t) \/ Ends(t) \/ EndsOnShutdown(t) \/ Quiet(t) \/ Route(t)
                \/ Subscribe(t) \/ Interested(t) \/ NotInterested(t)
  <2>1. UNCHANGED <<announces, event, complete, reported, stopped>>
    BY <1>6, BystanderEffect
  <2>2. \/ events' = events
        \/ \E e \in SwarmEvent : events' = Append(events, e) /\ e.type \notin OutcomeTypes
    BY <1>6, BystanderEffect
  <2>3. (\A i \in DOMAIN events : events[i].type # "TrackerPeersReceived") =>
            (\A i \in DOMAIN events' : events'[i].type # "TrackerPeersReceived")
    BY <1>0, <2>2 DEF OutcomeTypes
  <2> QED
    BY <2>1, <2>3
<1> QED
  BY <1>1, <1>2, <1>3, <1>4, <1>5, <1>6, StepCases

\* "completed" stays owed to the trackers until one of them took it, however
\* many announces fail, when no announce was running as the download completed.
THEOREM CompletedReported == "overlap" \notin Behaviours /\ Spec => []CompletedOwed
<1> DEFINE I == "overlap" \notin Behaviours /\ SwarmTypeOK /\ CompletedKept
<1>1. "overlap" \notin Behaviours /\ Init => I
  BY InitIsTyped DEF Init, CompletedKept
<1>2. I /\ [Next]_vars => I'
  BY StepKeepsTypes, StepKeepsCompleted
<1>3. I => CompletedOwed
  BY DEF CompletedKept, CompletedOwed
<1> QED
  BY <1>1, <1>2, <1>3, PTL DEF Spec

-----------------------------------------------------------------------------
(* Upload slots.                                                           *)

Holders == {t \in Task : task[t].slot}

\* Only sessions that are up hold a slot, and the counter counts them.
SlotsCounted ==
    /\ \A t \in Holders : task[t].state = "up"
    /\ ~stopped => used = Cardinality(Holders)

\* One holder more or less.
LEMMA HolderCount ==
    ASSUME SwarmTypeOK, NEW t \in Task
    PROVE  /\ IsFiniteSet(Holders) /\ Cardinality(Holders) \in Nat
           /\ t \in Holders => /\ Cardinality(Holders \ {t}) = Cardinality(Holders) - 1
                               /\ Cardinality(Holders) > 0
           /\ t \notin Holders => Cardinality(Holders \cup {t}) = Cardinality(Holders) + 1
<1>1. IsFiniteSet(Holders)
  BY FS_Subset, TaskAssumption DEF Holders
<1>2. Cardinality(Holders) \in Nat
  BY <1>1, FS_CardinalityType
<1>3. ASSUME t \in Holders
      PROVE  Cardinality(Holders \ {t}) = Cardinality(Holders) - 1 /\ Cardinality(Holders) > 0
  <2>1. IsFiniteSet(Holders \ {t}) /\ Cardinality(Holders \ {t}) = Cardinality(Holders) - 1
    BY <1>1, <1>3, FS_RemoveElement
  <2>2. Cardinality(Holders \ {t}) \in Nat
    BY <2>1, FS_CardinalityType
  <2> QED
    BY <1>2, <2>1, <2>2
<1>4. ASSUME t \notin Holders
      PROVE  Cardinality(Holders \cup {t}) = Cardinality(Holders) + 1
  BY <1>1, <1>4, FS_AddElement
<1> QED
  BY <1>1, <1>2, <1>3, <1>4

\* The count stays exact.
LEMMA StepKeepsSlots ==
    ASSUME "abort" \notin Behaviours, SwarmTypeOK, SlotsCounted, [Next]_vars
    PROVE  SlotsCounted'
<1> USE DEF SlotsCounted
<1>0. task \in [Task -> Session] /\ task' \in [Task -> Session]
  BY StepKeepsTasks DEF SwarmTypeOK
<1>1. ASSUME UNCHANGED <<used, stopped>>,
             \A u \in Task : /\ task'[u].slot <=> task[u].slot
                             /\ task[u].slot => task'[u].state = "up"
      PROVE  SlotsCounted'
  BY <1>1 DEF Holders
<1>2. CASE UNCHANGED <<task, used, stopped>>
  BY <1>2 DEF Holders
<1>3. CASE Receipt
  BY <1>2, <1>3, ReceiptEffect
<1>4. CASE Tick
  <2>1. PICK dials, new : Dials(dials, new)
    BY <1>4, TickEffect
  <2>2. /\ UNCHANGED <<used, stopped>>
        /\ \A a \in quiet : task[active[a]].state # "up"
    BY <1>4 DEF Tick, TickDialling, stopVars
  <2>3. quiet \subseteq Addr /\ \A a \in quiet : active[a] \in Task
    BY DEF SwarmTypeOK, ActiveAddrs, NoTask
  <2>4. ASSUME NEW u \in Task
        PROVE  /\ task'[u].slot <=> task[u].slot
               /\ task[u].slot => task'[u].state = "up"
    <3>1. CASE \E a \in dials : new[a] = u
      <4>1. task[u].state = "none"
        BY <2>1, <3>1 DEF Dials, Free, Live
      <4>2. ~task[u].slot
        BY <4>1 DEF Holders
      <4>3. ~task'[u].slot
        BY <2>1, <3>1 DEF Dials, NoSession
      <4> QED
        BY <4>2, <4>3
    <3>2. CASE (~\E a \in dials : new[a] = u) /\ \E a \in quiet : active[a] = u
      <4>1. ~task[u].slot
        BY <2>2, <3>2 DEF Holders
      <4>2. ~task'[u].slot
        BY <2>1, <3>2 DEF Dials, NoSession
      <4> QED
        BY <4>1, <4>2
    <3>3. CASE (~\E a \in dials : new[a] = u) /\ ~\E a \in quiet : active[a] = u
      <4>1. task'[u] = task[u]
        BY <2>1, <3>3 DEF Dials
      <4> QED
        BY <4>1 DEF Holders
    <3> QED
      BY <3>1, <3>2, <3>3
  <2> QED
    BY <1>1, <2>2, <2>4
<1>5. CASE Stop
  <2>1. stopped' = TRUE /\ \A u \in Task : task'[u] = NoSession \/ task'[u] = task[u]
    BY <1>5 DEF Stop, StopWith
  <2>2. ~NoSession.slot
    BY DEF NoSession
  <2> QED
    BY <2>1, <2>2 DEF Holders
<1>6. CASE Shutdown
  <2>1. /\ UNCHANGED <<used, stopped>>
        /\ \A u \in Task : task'[u] = task[u] \/ task'[u] = [task[u] EXCEPT !.told = TRUE]
    BY <1>6 DEF Shutdown
  <2>2. \A u \in Task : task'[u].slot = task[u].slot /\ task'[u].state = task[u].state
    BY <1>0, <2>1 DEF Session
  <2> QED
    BY <1>1, <2>1, <2>2 DEF Holders
<1>7. CASE DownloadComplete \/ TimePasses \/ TrackerAnswers \/ TrackerFails \/ Discover \/ UNCHANGED vars
  BY <1>2, <1>7 DEF DownloadComplete, TimePasses, TrackerAnswers, TrackerFails, TrackerDone,
                    Discover, stopVars, vars
<1>8. ASSUME NEW t \in Task, Connected(t) \/ Subscribe(t) \/ Route(t)
      PROVE  SlotsCounted'
  <2>1. /\ UNCHANGED <<used, stopped>>
        /\ \A u \in Task \ {t} : task'[u] = task[u]
        /\ task[t].state # "up"
    BY <1>0, <1>8 DEF Connected, Subscribe, Route, stopVars, Free, Live
  <2>2. ~task[t].slot
    BY <2>1 DEF Holders
  <2>3. task'[t].slot = task[t].slot \/ task'[t].slot = FALSE
    BY <1>0, <1>8 DEF Connected, Subscribe, Route, NoSession, Session
  <2>4. ~task'[t].slot
    BY <2>2, <2>3
  <2> QED
    BY <1>1, <2>1, <2>2, <2>4 DEF Holders
<1>9. ASSUME NEW t \in Task, UNCHANGED stopped, used' = ReleaseSlot(t),
             \A u \in Task \ {t} : task'[u] = task[u], ~task'[t].slot
      PROVE  SlotsCounted'
  <2>1. Holders' = Holders \ {t}
    BY <1>9 DEF Holders
  <2>2. \A u \in Holders' : task'[u].state = "up"
    BY <1>9 DEF Holders
  <2>3. CASE t \in Holders
    <3>1. task[t].slot
      BY <2>3 DEF Holders
    <3> QED
      BY <1>9, <2>1, <2>2, <2>3, <3>1, HolderCount DEF ReleaseSlot
  <2>4. CASE t \notin Holders
    <3>1. ~task[t].slot /\ Holders' = Holders
      BY <2>1, <2>4 DEF Holders
    <3> QED
      BY <1>9, <2>2, <3>1 DEF ReleaseSlot
  <2> QED
    BY <2>3, <2>4
<1>10. ASSUME NEW t \in Task, Ends(t) \/ EndsOnShutdown(t) PROVE SlotsCounted'
  <2>1. UNCHANGED stopped /\ used' = ReleaseSlot(t) /\ task' = [task EXCEPT ![t] = NoSession]
    BY <1>10 DEF Ends, EndsOnShutdown, End, EndWith, stopVars
  <2>2. ~NoSession.slot
    BY DEF NoSession
  <2> QED
    BY <1>0, <1>9, <2>1, <2>2
<1>11. ASSUME NEW t \in Task, NotInterested(t) PROVE SlotsCounted'
  <2>1. /\ UNCHANGED stopped /\ used' = ReleaseSlot(t)
        /\ task' = [task EXCEPT ![t].interested = FALSE, ![t].slot = FALSE]
    BY <1>11 DEF NotInterested, stopVars
  <2>2. ~task'[t].slot /\ \A u \in Task \ {t} : task'[u] = task[u]
    BY <1>0, <2>1 DEF Session
  <2> QED
    BY <1>9, <2>1, <2>2
<1>12. ASSUME NEW t \in Task, Interested(t) PROVE SlotsCounted'
  <2> DEFINE granted == task[t].slot \/ used < MaxSlots
  <2>1. /\ UNCHANGED stopped
        /\ used' = IF ~task[t].slot /\ used < MaxSlots THEN used + 1 ELSE used
        /\ task[t].state = "up"
    BY <1>12 DEF Interested, TryUnchoke, stopVars, Up
  <2>2. /\ \A u \in Task \ {t} : task'[u] = task[u]
        /\ task'[t].slot <=> granted
        /\ task'[t].state = "up"
    BY <1>0, <1>12, <2>1 DEF Interested, TryUnchoke, Session
  <2>3. Holders' = IF granted THEN Holders \cup {t} ELSE Holders \ {t}
    BY <2>2 DEF Holders
  <2>4. \A u \in Holders' : task'[u].state = "up"
    BY <2>2 DEF Holders
  <2>5. CASE t \in Holders
    <3>1. task[t].slot /\ Holders' = Holders
      BY <2>3, <2>5 DEF Holders
    <3> QED
      BY <2>1, <2>4, <3>1
  <2>6. CASE t \notin Holders /\ used < MaxSlots
    <3>1. ~task[t].slot /\ Holders' = Holders \cup {t}
      BY <2>3, <2>6 DEF Holders
    <3> QED
      BY <2>1, <2>4, <2>6, <3>1, HolderCount
  <2>7. CASE t \notin Holders /\ ~(used < MaxSlots)
    <3>1. ~task[t].slot /\ Holders' = Holders
      BY <2>3, <2>7 DEF Holders
    <3> QED
      BY <2>1, <2>4, <2>7, <3>1
  <2> QED
    BY <2>5, <2>6, <2>7
<1>13. ASSUME NEW t \in Task, Quiet(t) PROVE UNCHANGED <<task, used, stopped>>
  BY <1>13 DEF Quiet, stopVars
<1> QED
  BY <1>2, <1>3, <1>4, <1>5, <1>6, <1>7, <1>8, <1>10, <1>11, <1>12, <1>13, StepCases

\* UploadSlots counts the sessions that hold a slot, for any number of sessions
\* and slots, unless a stuck session is aborted.
THEOREM SlotsNeverLeak == "abort" \notin Behaviours /\ Spec => []SlotsExact
<1> DEFINE I == "abort" \notin Behaviours /\ SwarmTypeOK /\ SlotsCounted
<1>1. "abort" \notin Behaviours /\ Init => I
  <2> SUFFICES ASSUME Init PROVE SlotsCounted
    BY InitIsTyped
  <2>1. Holders = {}
    BY DEF Init, Holders, NoSession
  <2> QED
    BY <2>1, FS_EmptySet DEF SlotsCounted, Init
<1>2. I /\ [Next]_vars => I'
  BY StepKeepsTypes, StepKeepsSlots
<1>3. I => SlotsExact
  <2> SUFFICES ASSUME I PROVE SlotsExact
    OBVIOUS
  <2>1. {t \in Up : task[t].slot} = Holders
    BY DEF SlotsCounted, Holders, Up
  <2> QED
    BY <2>1 DEF SlotsCounted, SlotsExact
<1> QED
  BY <1>1, <1>2, <1>3, PTL DEF Spec

-----------------------------------------------------------------------------
(* Tasks and entries.                                                      *)

\* The end of a task is announced once, for an entry that still names the
\* task: neither the entry nor the task number can be given to another task
\* before the manager has seen the report.
ExitsMatch ==
    \A i \in DOMAIN events : events[i].type = "PeerExited" =>
        /\ events[i].addr \in Addr
        /\ events[i] = Event("PeerExited", events[i].addr, <<>>)
        /\ active[events[i].addr] \in Task \ Live
        /\ \A j \in DOMAIN events : events[j] = events[i] => j = i

TrackedInv == ~stopped => TasksTracked /\ ExitsMatch

\* Steps that start no task, end none, and report no end.
LEMMA SameTasksTracked ==
    ASSUME SwarmTypeOK, TrackedInv, UNCHANGED active, UNCHANGED stopped,
           \A t \in Task : /\ task'[t].addr = task[t].addr
                           /\ task'[t].state = "none" <=> task[t].state = "none",
           \/ events' = events
           \/ \E e \in SwarmEvent : events' = Append(events, e) /\ e.type # "PeerExited"
           \/ \E out \in Seq(SwarmEvent) :
                /\ events' = events \o out
                /\ \A k \in DOMAIN out : out[k].type # "PeerExited"
    PROVE  TrackedInv'
<1>1. (stopped' <=> stopped) /\ Live' = Live /\ active' = active
  BY DEF Live
<1>2. TasksTracked => TasksTracked'
  BY <1>1 DEF TasksTracked, Dialled, Live
<1>3. /\ \A i \in DOMAIN events : i \in DOMAIN events' /\ events'[i] = events[i]
      /\ \A i \in DOMAIN events' : i \in DOMAIN events \/ events'[i].type # "PeerExited"
  <2>0. events \in Seq(SwarmEvent)
    BY DEF SwarmTypeOK
  <2>1. CASE \E out \in Seq(SwarmEvent) :
                /\ events' = events \o out
                /\ \A k \in DOMAIN out : out[k].type # "PeerExited"
    BY <2>0, <2>1, ConcatKeeps
  <2>2. CASE \E e \in SwarmEvent : events' = Append(events, e) /\ e.type # "PeerExited"
    BY <2>0, <2>2
  <2> QED
    BY <2>1, <2>2
<1>4. ExitsMatch => ExitsMatch'
  BY <1>1, <1>3 DEF ExitsMatch
<1> QED
  BY <1>1, <1>2, <1>4 DEF TrackedInv

\* Free numbers are not live and no entry names them.
LEMMA FreeNumbers ==
    ASSUME SwarmTypeOK, NEW t \in Free
    PROVE  t \in Task /\ t \notin Live /\ \A a \in Addr : active[a] # t
BY DEF Free

\* A tick leaves every entry to a running task or to one whose report waits.
LEMMA TickTracks ==
    ASSUME "lag" \notin Behaviours, SwarmTypeOK, TrackedInv, Tick
    PROVE  TrackedInv'
<1>0. /\ ~stopped /\ stopped' = stopped /\ events' = events
      /\ \A a \in quiet : ~Waiting(Event("PeerExited", a, <<>>))
  BY DEF Tick, TickDialling, stopVars
<1>1. TasksTracked /\ ExitsMatch
  BY <1>0 DEF TrackedInv
<1>2. PICK dials, new : Dials(dials, new)
  BY TickEffect
<1>3. /\ dials \subseteq Addr \ Remaining /\ new \in [dials -> Free]
      /\ \A a, b \in dials : new[a] = new[b] => a = b
      /\ active' = [a \in Addr |-> IF a \in dials THEN new[a]
                                   ELSE IF a \in Remaining THEN active[a] ELSE NoTask]
  BY <1>2 DEF Dials
<1>4. /\ active \in [Addr -> Task \cup {NoTask}] /\ quiet \subseteq Addr
      /\ task \in [Task -> Session] /\ Remaining \subseteq Addr
  BY DEF SwarmTypeOK, ActiveAddrs, Remaining
<1>5. ASSUME NEW t \in Live', Dialled(t)'
      PROVE  active'[task'[t].addr] = t
  <2>1. t \in Task /\ task'[t].state # "none" /\ task'[t].addr # NoAddr
    BY <1>5 DEF Live, Dialled
  <2>2. CASE \E a \in dials : new[a] = t
    <3>1. PICK a \in dials : new[a] = t /\ task'[t].addr = a
      <4>1. task'[t] = [NoSession EXCEPT !.state = "dialling",
                                         !.addr = CHOOSE a \in dials : new[a] = t]
        BY <1>2, <2>1, <2>2 DEF Dials
      <4>2. task'[t].addr = CHOOSE a \in dials : new[a] = t
        BY <4>1 DEF NoSession
      <4> QED
        BY <2>2, <4>2
    <3> QED
      BY <1>3, <3>1
  <2>3. CASE ~\E a \in dials : new[a] = t
    <3>1. task'[t] = IF t \in {active[a] : a \in quiet} THEN NoSession ELSE task[t]
      BY <1>2, <2>1, <2>3 DEF Dials
    <3>2. NoSession.state = "none"
      BY DEF NoSession
    <3>3. task'[t] = task[t] /\ \A a \in quiet : active[a] # t
      BY <2>1, <3>1, <3>2
    <3> DEFINE b == task[t].addr
    <3>4. active[b] = t /\ b \in Addr
      <4>1. b \in Addr
        BY <1>4, <2>1, <3>3 DEF Session
      <4> QED
        BY <1>0, <1>1, <2>1, <3>3, <4>1 DEF TasksTracked, Live, Dialled
    <3>5. b \in Remaining
      BY <2>1, <3>3, <3>4, TaskAssumption DEF Remaining, ActiveAddrs, NoTask
    <3> QED
      BY <1>3, <3>3, <3>4, <3>5
  <2> QED
    BY <2>2, <2>3
<1>6. ASSUME NEW i \in DOMAIN events, events[i].type = "PeerExited"
      PROVE  LET a == events[i].addr IN active'[a] = active[a] /\ active[a] \notin Live'
  <2> DEFINE a == events[i].addr
             t == active[a]
  <2>1. /\ a \in Addr /\ t \in Task \ Live /\ events[i] = Event("PeerExited", a, <<>>)
    BY <1>1, <1>6 DEF ExitsMatch
  <2>2. a \notin quiet
    BY <1>0, <2>1 DEF Waiting
  <2>3. a \in Remaining
    BY <2>1, <2>2, TaskAssumption DEF Remaining, ActiveAddrs, NoTask
  <2>4. active'[a] = t
    BY <1>3, <2>1, <2>3
  <2>5. ~\E b \in dials : new[b] = t
    BY <1>3, <2>1, FreeNumbers
  <2>6. task[t].state = "none"
    BY <2>1 DEF Live
  <2>7. task'[t].state = "none"
    <3>1. task'[t] = NoSession \/ task'[t] = task[t]
      BY <1>2, <2>1, <2>5 DEF Dials
    <3> QED
      BY <2>6, <3>1 DEF NoSession
  <2> QED
    BY <2>4, <2>7 DEF Live
<1>7. TasksTracked'
  BY <1>5 DEF TasksTracked
<1>8. ExitsMatch'
  BY <1>0, <1>1, <1>6 DEF ExitsMatch
<1> QED
  BY <1>7, <1>8 DEF TrackedInv

\* A task that ends leaves its entry and one report.
LEMMA EndTracks ==
    ASSUME SwarmTypeOK, TrackedInv, NEW t \in Task, Ends(t) \/ EndsOnShutdown(t)
    PROVE  TrackedInv'
<1>0. /\ task[t].state # "none" /\ UNCHANGED <<active, stopped>>
      /\ task' = [task EXCEPT ![t] = NoSession]
      /\ events' = IF Dialled(t) THEN Send(Event("PeerExited", task[t].addr, <<>>)) ELSE events
  BY DEF Ends, EndsOnShutdown, End, EndWith, Up, managerVars, stopVars
<1>1. events \in Seq(SwarmEvent) /\ task \in [Task -> Session]
  BY DEF SwarmTypeOK
<1> SUFFICES ASSUME ~stopped PROVE TasksTracked' /\ ExitsMatch'
  BY <1>0 DEF TrackedInv
<1>2. TasksTracked /\ ExitsMatch
  BY DEF TrackedInv
<1>3. Live' = Live \ {t} /\ \A u \in Live' : task'[u] = task[u]
  BY <1>0, <1>1 DEF Live, NoSession
<1>4. TasksTracked'
  BY <1>0, <1>2, <1>3 DEF TasksTracked, Dialled
<1>5. CASE ~Dialled(t)
  <2>1. events' = events
    BY <1>0, <1>5
  <2> QED
    BY <1>0, <1>2, <1>3, <1>4, <2>1 DEF ExitsMatch
<1>6. CASE Dialled(t)
  <2> DEFINE a == task[t].addr
             e == Event("PeerExited", a, <<>>)
  <2>1. a \in Addr /\ active[a] = t
    <3>1. a \in Addr
      BY <1>1, <1>6 DEF Dialled, Session
    <3> QED
      BY <1>0, <1>2, <1>6, <3>1 DEF TasksTracked, Live
  <2>2. e \in SwarmEvent /\ e.type = "PeerExited" /\ e.addr = a
    BY <2>1 DEF Event, SwarmEvent
  <2>3. events' = Append(events, e)
    BY <1>0, <1>6 DEF Send
  <2>4. \A i \in DOMAIN events : events[i] # e
    BY <1>0, <1>2, <2>1, <2>2 DEF ExitsMatch, Live
  <2>5. t \in Task \ Live'
    BY <1>3
  <2>e. e = Event("PeerExited", e.addr, <<>>)
    BY <2>2
  <2> HIDE DEF e, a
  <2>6. /\ DOMAIN events' = DOMAIN events \cup {Len(events) + 1}
        /\ Len(events) + 1 \notin DOMAIN events
        /\ \A i \in DOMAIN events : events'[i] = events[i]
        /\ events'[Len(events) + 1] = e
    BY <1>1, <2>2, <2>3, AppendKeeps
  <2>7. ExitsMatch'
    <3> SUFFICES ASSUME NEW i \in DOMAIN events', events'[i].type = "PeerExited"
                 PROVE  /\ events'[i].addr \in Addr
                        /\ events'[i] = Event("PeerExited", events'[i].addr, <<>>)
                        /\ active'[events'[i].addr] \in Task \ Live'
                        /\ \A j \in DOMAIN events' : events'[j] = events'[i] => j = i
      BY DEF ExitsMatch, Event
    <3>1. CASE i \in DOMAIN events
      BY <1>0, <1>2, <1>3, <2>4, <2>6, <3>1 DEF ExitsMatch
    <3>2. CASE i = Len(events) + 1
      BY <1>0, <2>1, <2>2, <2>4, <2>5, <2>e, <2>6, <3>2
    <3> QED
      BY <2>6, <3>1, <3>2
  <2> QED
    BY <1>4, <2>7
<1> QED
  BY <1>5, <1>6

\* The manager handles a report: the entry goes, and with it the last trace of
\* the task.
LEMMA ReceiptTracks ==
    ASSUME SwarmTypeOK, TrackedInv, Receipt
    PROVE  TrackedInv'
<1>0. /\ ~stopped /\ events # <<>> /\ events' = Tail(events)
      /\ UNCHANGED <<task, stopped>>
      /\ active' = IF Head(events).type = "PeerExited"
                   THEN [active EXCEPT ![Head(events).addr] = NoTask] ELSE active
  BY ReceiptEffect
<1>1. events \in Seq(SwarmEvent) /\ active \in [Addr -> Task \cup {NoTask}]
  BY DEF SwarmTypeOK
<1>2. TasksTracked /\ ExitsMatch /\ Live' = Live
  BY <1>0 DEF TrackedInv, Live
<1>3. /\ 1 \in DOMAIN events /\ events[1] = Head(events)
      /\ \A j \in DOMAIN events' : /\ j + 1 \in DOMAIN events /\ j + 1 # 1
                                   /\ events'[j] = events[j + 1]
      /\ DOMAIN events' \subseteq Nat
  BY <1>0, <1>1
<1>4. CASE Head(events).type # "PeerExited"
  <2>1. active' = active
    BY <1>0, <1>4
  <2>2. TasksTracked'
    BY <1>0, <1>2, <2>1 DEF TasksTracked, Dialled
  <2>3. ExitsMatch'
    BY <1>2, <1>3, <2>1 DEF ExitsMatch
  <2> QED
    BY <2>2, <2>3 DEF TrackedInv
<1>5. CASE Head(events).type = "PeerExited"
  <2> DEFINE a == Head(events).addr
  <2>1. /\ a \in Addr /\ active[a] \in Task \ Live
        /\ events[1] = Event("PeerExited", a, <<>>)
        /\ \A j \in DOMAIN events : events[j] = events[1] => j = 1
    BY <1>2, <1>3, <1>5 DEF ExitsMatch
  <2>2. active' = [active EXCEPT ![a] = NoTask]
    BY <1>0, <1>5
  <2> HIDE DEF a
  <2>3. TasksTracked'
    <3> SUFFICES ASSUME NEW t \in Live, task[t].addr # NoAddr PROVE active'[task[t].addr] = t
      BY <1>0, <1>2 DEF TasksTracked, Dialled
    <3>1. active[task[t].addr] = t /\ task[t].addr \in Addr
      <4>1. task[t].addr \in Addr
        BY DEF SwarmTypeOK, Session, Live
      <4> QED
        BY <1>0, <1>2, <4>1 DEF TasksTracked, Dialled
    <3>2. task[t].addr # a
      BY <2>1, <3>1
    <3> QED
      BY <1>1, <2>2, <3>1, <3>2
  <2>4. ASSUME NEW i \in DOMAIN events', events'[i].type = "PeerExited"
        PROVE  /\ events'[i].addr \in Addr
               /\ events'[i] = Event("PeerExited", events'[i].addr, <<>>)
               /\ active'[events'[i].addr] \in Task \ Live'
               /\ \A j \in DOMAIN events' : events'[j] = events'[i] => j = i
    <3>1. i + 1 \in DOMAIN events /\ i + 1 # 1 /\ events'[i] = events[i + 1]
      BY <1>3
    <3> DEFINE b == events'[i].addr
    <3>2. /\ b \in Addr /\ events'[i] = Event("PeerExited", b, <<>>)
          /\ active[b] \in Task \ Live
          /\ \A j \in DOMAIN events : events[j] = events'[i] => j = i + 1
      BY <1>2, <2>4, <3>1 DEF ExitsMatch
    <3>3. b # a
      BY <2>1, <3>1, <3>2
    <3>4. active'[b] = active[b]
      BY <1>1, <2>2, <3>2, <3>3
    <3>5. \A j \in DOMAIN events' : events'[j] = events'[i] => j = i
      BY <1>3, <2>4, <3>2
    <3> QED
      BY <1>2, <3>2, <3>4, <3>5
  <2>5. ExitsMatch'
    BY <2>4 DEF ExitsMatch, Event
  <2> QED
    BY <2>3, <2>5 DEF TrackedInv
<1> QED
  BY <1>4, <1>5

\* Every step keeps tasks and entries together.
LEMMA StepKeepsTracked ==
    ASSUME "lag" \notin Behaviours, SwarmTypeOK, TrackedInv, [Next]_vars
    PROVE  TrackedInv'
<1>0. task \in [Task -> Session] /\ task' \in [Task -> Session]
  BY StepKeepsTasks DEF SwarmTypeOK
<1>1. CASE Receipt
  BY <1>1, ReceiptTracks
<1>2. CASE Tick
  BY <1>2, TickTracks
<1>3. CASE Stop
  BY <1>3 DEF Stop, StopWith, TrackedInv
<1>4. CASE DownloadComplete \/ TimePasses \/ UNCHANGED vars
  <2>1. UNCHANGED <<active, stopped, task, events>>
    BY <1>4 DEF DownloadComplete, AfterBranch, TimePasses, managerVars, stopVars, vars
  <2> QED
    BY <2>1, SameTasksTracked
<1>5. CASE TrackerAnswers \/ TrackerFails
  <2>1. PICK i \in DOMAIN announces, ok \in BOOLEAN, addrs \in Seq(Addr) : TrackerDone(i, ok, addrs)
    BY <1>5, TrackerSteps
  <2> DEFINE out == Outcome(announces[i], ok, addrs)
  <2>2. UNCHANGED <<active, stopped, task>>
    BY <2>1 DEF TrackerDone, managerVars, stopVars
  <2>3. out \in Seq(SwarmEvent) /\ events' = events \o out
    BY <2>1, TrackerEffect
  <2>4. \A k \in DOMAIN out : out[k].type # "PeerExited"
    <3>1. /\ Event("TrackerPeersReceived", NoAddr, addrs).type # "PeerExited"
          /\ Event("TrackerAnnounceFailed", NoAddr, <<>>).type # "PeerExited"
      BY DEF Event
    <3>2. \/ out = <<Event("TrackerPeersReceived", NoAddr, addrs)>>
          \/ out = <<Event("TrackerAnnounceFailed", NoAddr, <<>>)>>
          \/ out = <<>>
      BY DEF Outcome
    <3> HIDE DEF out
    <3> QED
      BY <3>1, <3>2
  <2> HIDE DEF out
  <2> QED
    BY <2>2, <2>3, <2>4, SameTasksTracked
<1>6. CASE Discover
  <2>1. PICK addrs \in PeerLists : events' = Append(events, Event("PeersDiscovered", NoAddr, addrs))
    BY <1>6 DEF Discover, Send
  <2>2. /\ Event("PeersDiscovered", NoAddr, addrs) \in SwarmEvent
        /\ Event("PeersDiscovered", NoAddr, addrs).type # "PeerExited"
    BY PeerListsAssumption DEF Event, SwarmEvent
  <2>3. UNCHANGED <<active, stopped, task>>
    BY <1>6 DEF Discover, managerVars, stopVars
  <2> QED
    BY <2>1, <2>2, <2>3, SameTasksTracked
<1>7. CASE Shutdown
  <2>1. /\ UNCHANGED <<active, stopped, events>>
        /\ \A u \in Task : task'[u] = task[u] \/ task'[u] = [task[u] EXCEPT !.told = TRUE]
    BY <1>7 DEF Shutdown, managerVars
  <2>2. \A u \in Task : task'[u].addr = task[u].addr /\ task'[u].state = task[u].state
    BY <1>0, <2>1 DEF Session
  <2> QED
    BY <2>1, <2>2, SameTasksTracked
<1>8. ASSUME NEW t \in Task,
             Connected(t) \/ Subscribe(t) \/ Quiet(t) \/ Interested(t) \/ NotInterested(t)
      PROVE  TrackedInv'
  <2>1. UNCHANGED <<active, stopped, events>>
    BY <1>8 DEF Connected, Subscribe, Quiet, Interested, NotInterested, managerVars, stopVars
  <2>2. \A u \in Task : /\ task'[u].addr = task[u].addr
                        /\ task'[u].state = "none" <=> task[u].state = "none"
    <3>1. CASE Connected(t) \/ Subscribe(t)
      BY <1>0, <3>1 DEF Connected, Subscribe, Session
    <3>2. CASE Quiet(t)
      BY <3>2 DEF Quiet
    <3>3. CASE Interested(t)
      BY <1>0, <3>3 DEF Interested, TryUnchoke, Session
    <3>4. CASE NotInterested(t)
      BY <1>0, <3>4 DEF NotInterested, Session
    <3> QED
      BY <1>8, <3>1, <3>2, <3>3, <3>4
  <2> QED
    BY <2>1, <2>2, SameTasksTracked
<1>9. ASSUME NEW t \in Task, Route(t) PROVE TrackedInv'
  <2>1. /\ UNCHANGED <<active, stopped, events>> /\ t \in Free
        /\ task' = [task EXCEPT ![t] = [NoSession EXCEPT !.state = "routed"]]
    BY <1>9 DEF Route, managerVars, stopVars
  <2>2. t \in Task /\ t \notin Live /\ \A a \in Addr : active[a] # t
    BY <2>1, FreeNumbers
  <2>3. Live' \subseteq Live \cup {t} /\ \A u \in Task \ {t} : task'[u] = task[u]
    BY <1>0, <2>1 DEF Live
  <2>4. task'[t].addr = NoAddr
    BY <1>0, <2>1 DEF NoSession
  <2>5. TasksTracked => TasksTracked'
    BY <2>1, <2>3, <2>4 DEF TasksTracked, Dialled, Live
  <2>6. ExitsMatch => ExitsMatch'
    BY <2>1, <2>2, <2>3 DEF ExitsMatch
  <2> QED
    BY <2>1, <2>5, <2>6 DEF TrackedInv
<1>10. ASSUME NEW t \in Task, Ends(t) \/ EndsOnShutdown(t) PROVE TrackedInv'
  BY <1>10, EndTracks
<1> QED
  BY <1>1, <1>2, <1>3, <1>4, <1>5, <1>6, <1>7, <1>8, <1>9, <1>10, StepCases

\* From the first state on, tasks and entries stay together.
LEMMA TrackedInvariant == "lag" \notin Behaviours /\ Spec => [](SwarmTypeOK /\ TrackedInv)
<1> DEFINE I == "lag" \notin Behaviours /\ SwarmTypeOK /\ TrackedInv
<1>1. "lag" \notin Behaviours /\ Init => I
  BY InitIsTyped DEF Init, TrackedInv, TasksTracked, ExitsMatch, Live, NoSession
<1>2. I /\ [Next]_vars => I'
  BY StepKeepsTypes, StepKeepsTracked
<1> QED
  BY <1>1, <1>2, PTL DEF Spec

\* `active` names every dialled task that runs, for any number of tasks and
\* addresses, as long as the manager sees a report before it expires the entry.
THEOREM EveryDialTracked == "lag" \notin Behaviours /\ Spec => []TasksTracked
<1>1. TrackedInv => TasksTracked
  BY DEF TrackedInv, TasksTracked
<1> QED
  BY <1>1, TrackedInvariant, PTL

-----------------------------------------------------------------------------
(* The stop.                                                               *)

\* What a task does about the stop depends on who started it: a dialled task is
\* aborted by the manager, a routed one subscribes before the signal or not at all.
OriginKnown ==
    \A t \in Task : /\ task[t].state = "dialling" => Dialled(t)
                    /\ task[t].state = "routed" => ~Dialled(t)

InboundTold == signalled => \A t \in Up : ~Dialled(t) => task[t].told

DialsAborted == stopped => signalled /\ ~registered /\ \A t \in Live : ~Dialled(t)

StopInv == OriginKnown /\ InboundTold /\ DialsAborted

\* A step that neither starts, connects nor stops anything.
LEMMA SameTasksStop ==
    ASSUME StopInv, UNCHANGED <<registered, signalled, stopped>>,
           \A t \in Task :
             \/ task'[t] = NoSession
             \/ /\ task'[t].addr = task[t].addr /\ task'[t].told = task[t].told
                /\ \/ task'[t].state = task[t].state
                   \/ task[t].state = "dialling" /\ task'[t].state = "up"
    PROVE  StopInv'
<1>0. NoSession.state = "none"
  BY DEF NoSession
<1>1. OriginKnown'
  BY <1>0 DEF StopInv, OriginKnown, Dialled
<1>2. InboundTold'
  BY <1>0 DEF StopInv, OriginKnown, InboundTold, Dialled, Up
<1>3. DialsAborted'
  BY <1>0 DEF StopInv, DialsAborted, Dialled, Live
<1> QED
  BY <1>1, <1>2, <1>3 DEF StopInv

\* Every step keeps what the stop relies on.
LEMMA StepKeepsStop ==
    ASSUME "late" \notin Behaviours, SwarmTypeOK, TrackedInv, StopInv, [Next]_vars
    PROVE  StopInv'
<1>0. task \in [Task -> Session] /\ task' \in [Task -> Session]
  BY StepKeepsTasks DEF SwarmTypeOK
<1>s. /\ NoSession.state = "none" /\ NoSession.addr = NoAddr
      /\ [NoSession EXCEPT !.state = "routed"].state = "routed"
      /\ [NoSession EXCEPT !.state = "routed"].addr = NoAddr
  BY DEF NoSession
<1>1. CASE Receipt \/ DownloadComplete \/ TimePasses \/ TrackerAnswers \/ TrackerFails
           \/ Discover \/ UNCHANGED vars
  <2>1. UNCHANGED <<task, registered, signalled, stopped>>
    <3>1. CASE Receipt
      BY <3>1, ReceiptEffect
    <3>2. CASE DownloadComplete \/ TimePasses \/ TrackerAnswers \/ TrackerFails
               \/ Discover \/ UNCHANGED vars
      BY <3>2 DEF DownloadComplete, TimePasses, TrackerAnswers, TrackerFails, TrackerDone,
                  Discover, stopVars, vars
    <3> QED
      BY <1>1, <3>1, <3>2
  <2> QED
    BY <2>1, SameTasksStop
<1>2. CASE Tick
  <2>0. ~stopped /\ UNCHANGED <<registered, signalled, stopped>>
    BY <1>2 DEF Tick, TickDialling, stopVars
  <2>1. PICK dials, new : Dials(dials, new)
    BY <1>2, TickEffect
  <2>2. ASSUME NEW t \in Task
        PROVE  \/ task'[t] = NoSession \/ task'[t] = task[t]
               \/ task'[t].state = "dialling" /\ task'[t].addr # NoAddr
    <3>1. CASE \E a \in dials : new[a] = t
      <4>1. task'[t] = [NoSession EXCEPT !.state = "dialling",
                                         !.addr = CHOOSE a \in dials : new[a] = t]
        BY <2>1, <3>1 DEF Dials
      <4>2. task'[t].state = "dialling" /\ task'[t].addr = CHOOSE a \in dials : new[a] = t
        BY <4>1 DEF NoSession
      <4>3. task'[t].addr \in Addr
        BY <2>1, <3>1, <4>2 DEF Dials
      <4> QED
        BY <4>2, <4>3, AddrAssumption
    <3>2. CASE ~\E a \in dials : new[a] = t
      BY <2>1, <3>2 DEF Dials
    <3> QED
      BY <3>1, <3>2
  <2>3. OriginKnown'
    BY <1>s, <2>2 DEF StopInv, OriginKnown, Dialled
  <2>4. InboundTold'
    BY <1>s, <2>0, <2>2 DEF StopInv, InboundTold, Dialled, Up
  <2> QED
    BY <2>0, <2>3, <2>4 DEF StopInv, DialsAborted
<1>3. CASE Stop
  <2>1. /\ signalled /\ ~stopped /\ signalled' = signalled /\ registered' = FALSE
        /\ task' = [t \in Task |-> IF t \in {active[a] : a \in ActiveAddrs(active)}
                                   THEN NoSession ELSE task[t]]
    BY <1>3 DEF Stop, StopWith
  <2>2. \A t \in Task : task'[t] = NoSession \/ task'[t] = task[t]
    BY <2>1
  <2>3. ASSUME NEW t \in Live' PROVE ~Dialled(t)'
    <3>1. t \in Task /\ task'[t] = task[t] /\ t \in Live
          /\ t \notin {active[a] : a \in ActiveAddrs(active)}
      BY <1>s, <2>1, <2>2 DEF Live
    <3>2. TasksTracked
      BY <2>1 DEF TrackedInv
    <3>3. CASE Dialled(t)
      <4>1. task[t].addr \in Addr
        BY <1>0, <3>1, <3>3 DEF Dialled, Session
      <4>2. active[task[t].addr] = t
        BY <2>1, <3>1, <3>2, <3>3 DEF TasksTracked
      <4>3. task[t].addr \in ActiveAddrs(active)
        BY <3>1, <4>1, <4>2, TaskAssumption DEF ActiveAddrs, NoTask
      <4> QED
        BY <3>1, <4>2, <4>3
    <3> QED
      BY <3>1, <3>3 DEF Dialled
  <2>4. OriginKnown' /\ InboundTold'
    BY <1>s, <2>1, <2>2 DEF StopInv, OriginKnown, InboundTold, Dialled, Up
  <2> QED
    BY <2>1, <2>3, <2>4 DEF StopInv, DialsAborted
<1>4. CASE Shutdown
  <2>1. /\ ~signalled /\ UNCHANGED <<registered, stopped>>
        /\ task' = [t \in Task |-> IF task[t].state \in {"dialling", "up"}
                               THEN [task[t] EXCEPT !.told = TRUE] ELSE task[t]]
    BY <1>4 DEF Shutdown
  <2>2. ASSUME NEW t \in Task
        PROVE  /\ task'[t].state = task[t].state /\ task'[t].addr = task[t].addr
               /\ task[t].state = "up" => task'[t].told
    BY <1>0, <2>1 DEF Session
  <2>3. ~stopped
    BY <2>1 DEF StopInv, DialsAborted
  <2>4. OriginKnown' /\ InboundTold'
    BY <2>2 DEF StopInv, OriginKnown, InboundTold, Dialled, Up
  <2> QED
    BY <2>1, <2>3, <2>4 DEF StopInv, DialsAborted
<1>5. ASSUME NEW t \in Task,
             \/ Connected(t) \/ Ends(t) \/ EndsOnShutdown(t) \/ Quiet(t)
             \/ Interested(t) \/ NotInterested(t)
      PROVE  StopInv'
  <2>1. UNCHANGED <<registered, signalled, stopped>>
    BY <1>5 DEF Connected, Ends, EndsOnShutdown, Quiet, Interested, NotInterested, stopVars
  <2>2. \A u \in Task :
             \/ task'[u] = NoSession
             \/ /\ task'[u].addr = task[u].addr /\ task'[u].told = task[u].told
                /\ \/ task'[u].state = task[u].state
                   \/ task[u].state = "dialling" /\ task'[u].state = "up"
    <3>1. CASE Connected(t)
      BY <1>0, <3>1 DEF Connected, Session
    <3>2. CASE Ends(t) \/ EndsOnShutdown(t)
      BY <1>0, <3>2 DEF Ends, EndsOnShutdown, End, EndWith
    <3>3. CASE Quiet(t)
      BY <3>3 DEF Quiet
    <3>4. CASE Interested(t)
      BY <1>0, <3>4 DEF Interested, TryUnchoke, Session
    <3>5. CASE NotInterested(t)
      BY <1>0, <3>5 DEF NotInterested, Session
    <3> QED
      BY <1>5, <3>1, <3>2, <3>3, <3>4, <3>5
  <2> QED
    BY <2>1, <2>2, SameTasksStop
<1>6. ASSUME NEW t \in Task, Route(t) PROVE StopInv'
  <2>1. /\ registered /\ UNCHANGED <<registered, signalled, stopped>>
        /\ task' = [task EXCEPT ![t] = [NoSession EXCEPT !.state = "routed"]]
    BY <1>6 DEF Route, stopVars
  <2>2. \A u \in Task : \/ task'[u] = task[u]
                        \/ task'[u].state = "routed" /\ task'[u].addr = NoAddr
    BY <1>0, <1>s, <2>1
  <2>3. OriginKnown' /\ InboundTold'
    BY <2>1, <2>2 DEF StopInv, OriginKnown, InboundTold, Dialled, Up
  <2> QED
    BY <2>1, <2>3 DEF StopInv, DialsAborted
<1>7. ASSUME NEW t \in Task, Subscribe(t) PROVE StopInv'
  <2>1. /\ ~signalled /\ UNCHANGED <<registered, signalled, stopped>>
        /\ \A u \in Task : /\ task'[u].addr = task[u].addr
                           /\ task'[u].state = task[u].state \/ task'[u].state = "up"
    BY <1>0, <1>7 DEF Subscribe, stopVars, Session
  <2> QED
    BY <2>1 DEF StopInv, OriginKnown, InboundTold, DialsAborted, Dialled
<1> QED
  BY <1>1, <1>2, <1>3, <1>4, <1>5, <1>6, <1>7, StepCases

\* Once the manager has left its loop, every session of the torrent that still runs
\* has got the stop signal: the dialled ones were aborted (`active` names them all)
\* and the inbound ones had subscribed.  The two exclusions are the cases the code
\* does not cover: a session that subscribes after the signal, and an entry that is
\* dropped before the report of an earlier task on its address is read.
THEOREM StopReachesAll ==
    {"late", "lag"} \cap Behaviours = {} /\ Spec => []StopReachesSessions
<1> DEFINE Covered == {"late", "lag"} \cap Behaviours = {}
           I == Covered /\ SwarmTypeOK /\ TrackedInv /\ StopInv
<1>0. Covered => "late" \notin Behaviours /\ "lag" \notin Behaviours
  OBVIOUS
<1>1. Covered /\ Init => I
  <2> SUFFICES ASSUME Covered, Init PROVE I
    OBVIOUS
  <2>1. SwarmTypeOK
    BY InitIsTyped
  <2>2. TrackedInv
    BY DEF Init, TrackedInv, TasksTracked, ExitsMatch, Live, NoSession
  <2>3. StopInv
    BY DEF Init, StopInv, OriginKnown, InboundTold, DialsAborted, Dialled, Live, Up, NoSession
  <2> QED
    BY <2>1, <2>2, <2>3
<1>2. I /\ [Next]_vars => I'
  BY <1>0, StepKeepsTypes, StepKeepsTracked, StepKeepsStop
<1>3. I => StopReachesSessions
  BY DEF StopInv, InboundTold, DialsAborted, StopReachesSessions, Live, Up
<1> QED
  BY <1>1, <1>2, <1>3, PTL DEF Spec

=============================================================================
