-------------------------- MODULE Dashboard_proofs --------------------------
(***************************************************************************)
(* The user interface and the metadata fetch, proved for any number of     *)
(* peers and of metadata pieces: no piece stays claimed without an owner,  *)
(* and a torrent that is gone was removed exactly as the user asked.       *)
(***************************************************************************)
EXTENDS Dashboard, WellFoundedInduction, TLAPS

-----------------------------------------------------------------------------
(* The steps of the specification.                                         *)

\* A non-empty set of numbers has a smallest one.
LEMMA SmallestIsMember ==
    ASSUME NEW S \in SUBSET Nat, S # {}
    PROVE  Min(S) \in S
<1> DEFINE R == {ss \in Nat \X Nat : ss[1] < ss[2]}
<1>0. IsWellFoundedOn(R, Nat)
  BY NatLessThanWellFounded DEF OpToRel
<1>a. \A x, y \in Nat : y < x => <<y, x>> \in R
  OBVIOUS
<1> HIDE DEF R
<1>1. PICK x \in S : \A y \in S : ~(<<y, x>> \in R)
  BY <1>0, WFMin
<1>2. ASSUME NEW y \in S PROVE x <= y
  <2>1. x \in Nat /\ y \in Nat
    OBVIOUS
  <2>2. ~(y < x)
    BY <1>a, <1>1, <2>1, Zenon
  <2> QED
    BY <2>1, <2>2
<1> QED
  BY <1>2 DEF Min

-----------------------------------------------------------------------------
(* Claims.                                                                 *)

\* A peer is tried once, so that a new task never takes over the place, and the
\* claim, of one that runs.
TriedOnce ==
    /\ queue \in Seq(seen) /\ DOMAIN peer \subseteq seen
    /\ \A i \in DOMAIN queue : queue[i] \notin DOMAIN peer
    /\ \A i, j \in DOMAIN queue : queue[i] = queue[j] => i = j

ClaimsInv ==
    /\ DOMAIN claimed = DOMAIN peer
    /\ in_flight \subseteq Part
    /\ TriedOnce
    /\ ClaimsOwned

\* A peer that ends takes its own claim along and no other.
LEMMA EndedPeerKeepsClaims ==
    ASSUME ClaimsInv, NEW a \in Running, NEW gone,
           peer' = Without(peer, a), claimed' = Without(claimed, a),
           in_flight' = in_flight \ gone, claimed[a] \in gone,
           UNCHANGED <<seen, queue>>
    PROVE  ClaimsInv'
<1>1. DOMAIN peer' = DOMAIN peer \ {a} /\ DOMAIN claimed' = DOMAIN peer'
  BY DEF Without, ClaimsInv
<1>2. \A b \in DOMAIN peer' : claimed'[b] = claimed[b]
  BY <1>1 DEF Without, ClaimsInv
<1>3. TriedOnce'
  BY <1>1 DEF ClaimsInv, TriedOnce
<1>4. ClaimsOwned'
  BY <1>1, <1>2 DEF ClaimsInv, ClaimsOwned, Running
<1> QED
  BY <1>1, <1>3, <1>4 DEF ClaimsInv

\* The next address starts without a claim.
LEMMA SpawnKeepsClaims ==
    ASSUME ClaimsInv, Spawn
    PROVE  ClaimsInv'
<1>1. /\ queue # <<>> /\ queue' = Tail(queue) /\ UNCHANGED <<seen, in_flight>>
      /\ peer' = With(peer, Head(queue), "greeting")
      /\ claimed' = With(claimed, Head(queue), NoPart)
  BY DEF Spawn
<1> DEFINE a == Head(queue)
<1>2. queue \in Seq(seen) /\ 1 \in DOMAIN queue /\ a = queue[1] /\ a \in seen
  BY <1>1 DEF ClaimsInv, TriedOnce
<1>3. /\ queue' \in Seq(seen)
      /\ \A i \in DOMAIN queue' : /\ i + 1 \in DOMAIN queue /\ i + 1 # 1
                                  /\ queue'[i] = queue[i + 1]
      /\ DOMAIN queue' \subseteq Nat
  BY <1>1, <1>2
<1>4. a \notin DOMAIN peer
  BY <1>2 DEF ClaimsInv, TriedOnce
<1>5. /\ DOMAIN peer' = DOMAIN peer \cup {a} /\ DOMAIN claimed' = DOMAIN peer'
      /\ \A b \in DOMAIN peer : claimed'[b] = claimed[b]
  BY <1>1, <1>4 DEF With, ClaimsInv
<1> HIDE DEF a
<1>6. \A i \in DOMAIN queue' : queue'[i] \notin DOMAIN peer'
  BY <1>2, <1>3, <1>5 DEF ClaimsInv, TriedOnce
<1>7. ASSUME NEW i \in DOMAIN queue', NEW j \in DOMAIN queue', queue'[i] = queue'[j]
      PROVE  i = j
  <2>1. i + 1 = j + 1
    BY <1>3, <1>7 DEF ClaimsInv, TriedOnce
  <2> QED
    BY <1>3, <2>1
<1>8. TriedOnce'
  BY <1>1, <1>2, <1>3, <1>5, <1>6, <1>7 DEF ClaimsInv, TriedOnce
<1>9. ClaimsOwned'
  BY <1>1, <1>5 DEF ClaimsInv, ClaimsOwned, Running
<1> QED
  BY <1>1, <1>5, <1>8, <1>9 DEF ClaimsInv

\* A request that is sent is noted.
LEMMA ClaimKeepsClaims ==
    ASSUME "send" \notin Behaviours, ClaimsInv, NEW a, Claim(a)
    PROVE  ClaimsInv'
<1> DEFINE p == Min(Unclaimed)
<1>1. /\ a \in DOMAIN peer /\ claimed[a] = NoPart /\ Unclaimed # {}
      /\ in_flight' = in_flight \cup {p} /\ peer' = peer
      /\ claimed' = [claimed EXCEPT ![a] = p]
      /\ UNCHANGED <<seen, queue>>
  BY DEF Claim, Running
<1>2. p \in Part
  <2>1. Unclaimed \in SUBSET Nat /\ Unclaimed \subseteq Part
    BY FetchAssumption DEF Unclaimed, Part
  <2> QED
    BY <1>1, <2>1, SmallestIsMember
<1> HIDE DEF p
<1>3. /\ DOMAIN claimed' = DOMAIN peer'
      /\ claimed'[a] = p /\ \A b \in DOMAIN peer \ {a} : claimed'[b] = claimed[b]
  BY <1>1 DEF ClaimsInv
<1>4. NoPart \notin in_flight
  BY FetchAssumption DEF ClaimsInv, Part, NoPart
<1>5. ClaimsOwned'
  BY <1>1, <1>3, <1>4 DEF ClaimsInv, ClaimsOwned, Running
<1>6. TriedOnce'
  BY <1>1 DEF ClaimsInv, TriedOnce
<1> QED
  BY <1>1, <1>2, <1>3, <1>5, <1>6 DEF ClaimsInv

\* A piece that arrives is no longer in flight, whoever claimed it.
LEMMA DataKeepsClaims ==
    ASSUME ClaimsInv, NEW a, NEW p, NEW quality, Data(a, p, quality)
    PROVE  ClaimsInv'
<1>1. /\ a \in DOMAIN peer /\ UNCHANGED <<seen, queue, peer>>
      /\ claimed' = [claimed EXCEPT ![a] = IF @ = p THEN NoPart ELSE @]
      /\ in_flight' = {} \/ in_flight' = in_flight \ {p}
  BY DEF Data, Assemble, Running
<1>2. /\ DOMAIN claimed' = DOMAIN claimed
      /\ \A b \in DOMAIN claimed : claimed'[b] = claimed[b] \/ claimed[b] = p
  BY <1>1
<1>3. ClaimsOwned'
  BY <1>1, <1>2 DEF ClaimsInv, ClaimsOwned, Running
<1>4. TriedOnce'
  BY <1>1 DEF ClaimsInv, TriedOnce
<1> QED
  BY <1>1, <1>2, <1>3, <1>4 DEF ClaimsInv

\* The end of a fetch leaves nothing.
LEMMA EndedFetchKeepsClaims ==
    ASSUME NEW outcome, NEW rest, EndFetch(outcome, rest)
    PROVE  ClaimsInv'
<1>1. seen' = {} /\ queue' = <<>> /\ peer' = <<>> /\ claimed' = <<>> /\ in_flight' = {}
  BY DEF EndFetch, Nothing
<1>2. DOMAIN <<>> = {} /\ <<>> \in Seq({})
  OBVIOUS
<1>3. TriedOnce'
  BY <1>1, <1>2 DEF TriedOnce
<1> QED
  BY <1>1, <1>2, <1>3 DEF ClaimsInv, ClaimsOwned

\* What the interface does leaves the claims alone.
LEMMA SameFetchKeepsClaims ==
    ASSUME ClaimsInv, UNCHANGED <<seen, queue, peer, claimed, in_flight>>
    PROVE  ClaimsInv'
BY DEF ClaimsInv, TriedOnce, ClaimsOwned, Running

\* A newly found address has not been tried.
LEMMA FoundKeepsClaims ==
    ASSUME ClaimsInv, NEW a, Found(a)
    PROVE  ClaimsInv'
<1>1. /\ a \notin seen /\ seen' = seen \cup {a} /\ queue' = Append(queue, a)
      /\ UNCHANGED <<peer, claimed, in_flight>>
  BY DEF Found
<1>2. queue \in Seq(seen) /\ DOMAIN peer \subseteq seen
  BY DEF ClaimsInv, TriedOnce
<1>3. /\ queue' \in Seq(seen')
      /\ DOMAIN queue' = DOMAIN queue \cup {Len(queue) + 1}
      /\ \A i \in DOMAIN queue : queue'[i] = queue[i] /\ queue[i] \in seen
      /\ queue'[Len(queue) + 1] = a
  <2>1. queue \in Seq(seen')
    BY <1>1, <1>2
  <2> QED
    BY <1>1, <1>2, <2>1
<1>4. TriedOnce'
  BY <1>1, <1>2, <1>3 DEF ClaimsInv, TriedOnce
<1> QED
  BY <1>1, <1>4 DEF ClaimsInv, ClaimsOwned, Running

\* Every step keeps the claims owned.
LEMMA StepKeepsClaims ==
    ASSUME "send" \notin Behaviours, ClaimsInv, [Next]_vars
    PROVE  ClaimsInv'
<1>1. CASE FetchStep
  <2>1. ASSUME NEW a \in Addr, NEW s, ExtHandshake(a, s) PROVE ClaimsInv'
    <3>1. a \in Running /\ UNCHANGED <<seen, queue>>
      BY <2>1 DEF ExtHandshake
    <3>2. CASE EndPeer(a)
      BY <3>1, <3>2, EndedPeerKeepsClaims DEF EndPeer
    <3>3. CASE peer' = [peer EXCEPT ![a] = "ready"] /\ UNCHANGED <<claimed, in_flight>>
      <4>1. DOMAIN peer' = DOMAIN peer
        BY <3>3
      <4>2. TriedOnce'
        BY <3>1, <4>1 DEF ClaimsInv, TriedOnce
      <4>3. ClaimsOwned'
        BY <3>3, <4>1 DEF ClaimsInv, ClaimsOwned, Running
      <4> QED
        BY <3>3, <4>1, <4>2, <4>3 DEF ClaimsInv
    <3> QED
      BY <2>1, <3>2, <3>3 DEF ExtHandshake
  <2>2. ASSUME NEW a \in Addr, TimesOut(a) \/ PeerFails(a) PROVE ClaimsInv'
    <3>1. /\ a \in Running /\ UNCHANGED <<seen, queue>>
          /\ peer' = Without(peer, a) /\ claimed' = Without(claimed, a)
          /\ in_flight' = in_flight \ {claimed[a]}
      BY <2>2 DEF TimesOut, PeerFails, EndPeer
    <3> QED
      BY <3>1, EndedPeerKeepsClaims
  <2>3. ASSUME NEW a \in Addr, NEW p, Malformed(a, p) PROVE ClaimsInv'
    <3>1. /\ a \in Running /\ UNCHANGED <<seen, queue>>
          /\ peer' = Without(peer, a) /\ claimed' = Without(claimed, a)
          /\ in_flight' = in_flight \ {p, claimed[a]} /\ claimed[a] \in {p, claimed[a]}
      BY <2>3 DEF Malformed
    <3> HIDE DEF Running
    <3> QED
      BY <3>1, EndedPeerKeepsClaims
  <2>4. ASSUME FetchEnds PROVE ClaimsInv'
    BY <2>4, EndedFetchKeepsClaims DEF FetchEnds
  <2> QED
    BY <1>1, <2>1, <2>2, <2>3, <2>4, FoundKeepsClaims, ClaimKeepsClaims, DataKeepsClaims,
       SpawnKeepsClaims DEF FetchStep
<1>2. CASE Receive
  <2>1. CASE AbortFetch
    BY <2>1, EndedFetchKeepsClaims DEF AbortFetch
  <2>2. CASE StartFetch \/ UNCHANGED fetchVars
    BY <2>2, SameFetchKeepsClaims DEF StartFetch, fetchVars
  <2> QED
    BY <1>2, <2>1, <2>2 DEF Receive, Waiting, Fetching, Commanded
<1>3. CASE Load \/ FetchFinished \/ Stopped \/ (\E missing, opened \in BOOLEAN : Announced(missing, opened))
           \/ PumpMessage \/ Close \/ Write \/ CoordinatorEnds \/ StartSwarm \/ PauseOrResume
           \/ CloseRequested \/ (\E delete \in BOOLEAN : Remove(delete)) \/ UNCHANGED vars
  <2>1. UNCHANGED fetchVars
    BY <1>3 DEF Load, FetchFinished, Stopped, Announced, PumpMessage, Close, Write,
                CoordinatorEnds, StartSwarm, PauseOrResume, CloseRequested, Remove, vars
  <2> QED
    BY <2>1, SameFetchKeepsClaims DEF fetchVars
<1> QED
  BY <1>1, <1>2, <1>3 DEF Next, Thread, Interface

\* No piece of the metadata stays marked as requested when nobody is fetching it,
\* for any number of peers and pieces, whatever the peers do.  The exception is the
\* one the code has: a request that cannot be sent.
THEOREM ClaimsAlwaysOwned == "send" \notin Behaviours /\ Spec => []ClaimsOwned
<1> DEFINE I == "send" \notin Behaviours /\ ClaimsInv
<1>1. "send" \notin Behaviours /\ Init => I
  <2> SUFFICES ASSUME Init PROVE ClaimsInv
    OBVIOUS
  <2>1. seen = {} /\ queue = <<>> /\ peer = <<>> /\ claimed = <<>> /\ in_flight = {}
    BY DEF Init, FetchInit, Nothing
  <2>2. DOMAIN <<>> = {} /\ <<>> \in Seq({})
    OBVIOUS
  <2> QED
    BY <2>1, <2>2 DEF ClaimsInv, TriedOnce, ClaimsOwned
<1>2. I /\ [Next]_vars => I'
  BY StepKeepsClaims
<1>3. I => ClaimsOwned
  BY DEF ClaimsInv
<1> QED
  BY <1>1, <1>2, <1>3, PTL DEF Spec

-----------------------------------------------------------------------------
(* Removal.                                                                *)

CoreMessage == {"TorrentLoaded", "MetadataReady", "Paused", "Resumed", "Error", "ShutdownComplete"}
TorrentSessionState ==
    [open : BOOLEAN, meta : {"none", "link", "torrent"}, swarm_started : BOOLEAN,
     is_paused : BOOLEAN, has_error : BOOLEAN, is_shutting_down : BOOLEAN,
     remove_requested : BOOLEAN, delete_requested : BOOLEAN]

DashboardTypeOK ==
    /\ source \in {"file", "magnet"}
    /\ task \in {"loading", "waiting", "fetching", "announcing", "running", "stopping", "ended"}
    /\ messages \in Seq(CoreMessage)
    /\ coordinator \in {"off", "running", "flushing", "ended"}
    /\ files \in BOOLEAN /\ stored \in BOOLEAN
    /\ session \in TorrentSessionState

\* Nobody writes files any more.
Quiescent == task = "ended" /\ coordinator \in {"off", "ended"}

\* The coordinator is started once, by the announcing thread, and the thread ends
\* after it.
ThreadInOrder ==
    /\ task \in {"loading", "waiting", "fetching", "announcing"} => coordinator = "off"
    /\ task = "ended" => Quiescent

\* The end is reported once nobody writes, and believed only then.
EndReported == (\E i \in DOMAIN messages : messages[i] = "ShutdownComplete") => Quiescent
EndBelieved == ~session.open => Quiescent

RemovalInv ==
    /\ DashboardTypeOK
    /\ ThreadInOrder /\ EndReported /\ EndBelieved
    /\ session.open => stored
    /\ RemovalExact

\* Sending adds the sent messages and nothing else.
LEMMA SentMessages ==
    ASSUME DashboardTypeOK, NEW sent \in Seq(CoreMessage), Send(sent)
    PROVE  /\ messages' \in Seq(CoreMessage)
           /\ \A i \in DOMAIN messages' :
                \/ i \in DOMAIN messages /\ messages'[i] = messages[i]
                \/ \E k \in DOMAIN sent : messages'[i] = sent[k]
<1>1. messages \in Seq(CoreMessage) /\ messages' = messages \o sent
  BY DEF DashboardTypeOK, Send
<1> HIDE DEF CoreMessage
<1> QED
  BY <1>1

\* A step of the thread or the coordinator that leaves the interface and the files alone.
LEMMA ThreadKeepsRemoval ==
    ASSUME RemovalInv, UNCHANGED <<source, stored, files, session>>,
           task' \in {"loading", "waiting", "fetching", "announcing", "running", "stopping", "ended"},
           coordinator' \in {"off", "running", "flushing", "ended"},
           NEW sent \in Seq(CoreMessage), Send(sent),
           ThreadInOrder', Quiescent => Quiescent',
           (\E k \in DOMAIN sent : sent[k] = "ShutdownComplete") => Quiescent'
    PROVE  RemovalInv'
<1>1. DashboardTypeOK /\ EndReported /\ EndBelieved /\ RemovalExact /\ (session.open => stored)
  BY DEF RemovalInv
<1>2. /\ messages' \in Seq(CoreMessage)
      /\ \A i \in DOMAIN messages' :
           \/ i \in DOMAIN messages /\ messages'[i] = messages[i]
           \/ \E k \in DOMAIN sent : messages'[i] = sent[k]
  BY <1>1, SentMessages
<1>3. DashboardTypeOK'
  BY <1>1, <1>2 DEF DashboardTypeOK
<1>4. EndReported'
  BY <1>1, <1>2 DEF EndReported
<1>5. EndBelieved'
  BY <1>1 DEF EndBelieved
<1>6. RemovalExact' /\ (session'.open => stored')
  BY <1>1 DEF RemovalExact
<1> QED
  BY <1>3, <1>4, <1>5, <1>6 DEF RemovalInv

\* The same without a message.
LEMMA SilentKeepsRemoval ==
    ASSUME RemovalInv, UNCHANGED <<source, stored, files, session, messages>>,
           task' \in {"loading", "waiting", "fetching", "announcing", "running", "stopping", "ended"},
           coordinator' \in {"off", "running", "flushing", "ended"},
           ThreadInOrder', Quiescent => Quiescent'
    PROVE  RemovalInv'
<1>1. Send(<<>>)
  BY DEF Send, RemovalInv, DashboardTypeOK
<1>2. <<>> \in Seq(CoreMessage) /\ DOMAIN <<>> = {}
  OBVIOUS
<1> QED
  BY <1>1, <1>2, ThreadKeepsRemoval

\* A button changes only wishes of a torrent that is still there.
LEMMA ButtonKeepsRemoval ==
    ASSUME RemovalInv, UNCHANGED <<source, stored, files, messages, task, coordinator>>,
           session' \in TorrentSessionState, session.open, session'.open
    PROVE  RemovalInv'
<1>1. DashboardTypeOK' /\ ThreadInOrder' /\ EndReported' /\ EndBelieved'
  BY DEF RemovalInv, DashboardTypeOK, ThreadInOrder, EndReported, EndBelieved, Quiescent
<1> QED
  BY <1>1 DEF RemovalInv, RemovalExact

\* A message is read: only ShutdownComplete closes the torrent, and then what the
\* user wanted removed goes.
LEMMA PumpKeepsRemoval ==
    ASSUME RemovalInv, PumpMessage
    PROVE  RemovalInv'
<1>1. /\ messages # <<>> /\ messages' = Tail(messages)
      /\ UNCHANGED <<source, task, coordinator>>
      /\ session' = IF session.open THEN Pumped(Head(messages)) ELSE session
  BY DEF PumpMessage
<1>2. /\ DashboardTypeOK /\ ThreadInOrder /\ EndReported /\ EndBelieved
      /\ RemovalExact /\ (session.open => stored)
  BY DEF RemovalInv
<1>3. /\ messages' \in Seq(CoreMessage) /\ Head(messages) \in CoreMessage
      /\ 1 \in DOMAIN messages /\ messages[1] = Head(messages)
      /\ \A i \in DOMAIN messages' : i + 1 \in DOMAIN messages /\ messages'[i] = messages[i + 1]
  <2>1. messages \in Seq(CoreMessage)
    BY <1>2 DEF DashboardTypeOK
  <2> HIDE DEF CoreMessage
  <2> QED
    BY <1>1, <2>1
<1>4. EndReported' /\ ThreadInOrder'
  BY <1>1, <1>2, <1>3 DEF EndReported, ThreadInOrder, Quiescent
<1> DEFINE leaves == session.open /\ ~session'.open
<1>5. /\ stored' = (stored /\ ~(leaves /\ session.remove_requested))
      /\ files' \in {files, FALSE} /\ (~(leaves /\ session.delete_requested) => files' = files)
      /\ leaves /\ session.delete_requested /\ session.meta = "torrent" => files' = FALSE
  BY DEF PumpMessage
<1>6. /\ session \in TorrentSessionState /\ source \in {"file", "magnet"}
      /\ files \in BOOLEAN /\ files' \in BOOLEAN
  BY <1>2, <1>5 DEF DashboardTypeOK
<1>7. CASE ~session.open
  <2>1. session' = session
    BY <1>1, <1>7
  <2>2. (stored' <=> stored) /\ stored' \in BOOLEAN /\ files' = files
    BY <1>5, <1>7
  <2>3. stored' = stored /\ files' = files
    BY <1>2, <2>2 DEF DashboardTypeOK
  <2> QED
    BY <1>1, <1>2, <1>3, <1>4, <2>1, <2>3
       DEF RemovalInv, DashboardTypeOK, RemovalExact, EndBelieved, Quiescent
<1>8. CASE session.open /\ Head(messages) # "ShutdownComplete"
  <2>1. session' \in TorrentSessionState /\ session'.open
    <3>1. \/ \E x \in {"torrent", "link"} : session' = [session EXCEPT !.meta = x]
          \/ \E x \in BOOLEAN : session' = [session EXCEPT !.is_paused = x]
          \/ session' = [session EXCEPT !.has_error = TRUE]
      <4> HIDE DEF TorrentSessionState
      <4>1. Head(messages) \in {"TorrentLoaded", "MetadataReady", "Paused", "Resumed", "Error"}
        BY <1>3, <1>8 DEF CoreMessage
      <4>2. session' = Pumped(Head(messages))
        BY <1>1, <1>8
      <4> QED
        BY <4>1, <4>2 DEF Pumped
    <3> QED
      BY <1>6, <1>8, <3>1 DEF TorrentSessionState
  <2>2. (stored' <=> stored) /\ stored' \in BOOLEAN /\ files' = files
    BY <1>5, <2>1
  <2> QED
    BY <1>1, <1>2, <1>3, <1>4, <1>8, <2>1, <2>2
       DEF RemovalInv, DashboardTypeOK, RemovalExact, EndBelieved
<1>9. CASE session.open /\ Head(messages) = "ShutdownComplete"
  <2>1. session' = [session EXCEPT !.open = FALSE]
    BY <1>1, <1>9 DEF Pumped
  <2>2. /\ session' \in TorrentSessionState /\ session'.open = FALSE
        /\ session'.remove_requested = session.remove_requested
        /\ session'.delete_requested = session.delete_requested
        /\ session'.meta = session.meta
    BY <1>6, <2>1 DEF TorrentSessionState
  <2>3. Quiescent /\ Quiescent'
    <3>1. Quiescent
      BY <1>2, <1>3, <1>9 DEF EndReported
    <3> QED
      BY <1>1, <3>1 DEF Quiescent
  <2>4. stored' \in BOOLEAN /\ files' \in BOOLEAN
    BY <1>5, <1>6
  <2>5. /\ stored' <=> ~session.remove_requested
        /\ session.delete_requested /\ session.meta = "torrent" => ~files'
    BY <1>2, <1>5, <1>9, <2>2
  <2>6. RemovalExact'
    <3>1. session.remove_requested \in BOOLEAN
      BY <1>6 DEF TorrentSessionState
    <3>2. stored' = ~session'.remove_requested
      BY <2>2, <2>4, <2>5, <3>1
    <3> QED
      BY <2>2, <2>5, <3>2 DEF RemovalExact
  <2> QED
    BY <1>1, <1>2, <1>3, <1>4, <2>2, <2>3, <2>4, <2>6
       DEF RemovalInv, DashboardTypeOK, EndBelieved
<1> QED
  BY <1>7, <1>8, <1>9

\* The thread reads a command.
LEMMA ReceiveKeepsRemoval ==
    ASSUME RemovalInv, Receive
    PROVE  RemovalInv'
<1>1. UNCHANGED <<source, stored, files, session>>
  BY DEF Receive, appVars
<1>2. /\ task \in {"loading", "waiting", "fetching", "announcing", "running", "stopping", "ended"}
      /\ coordinator \in {"off", "running", "flushing", "ended"} /\ ThreadInOrder
      /\ source \in {"file", "magnet"}
  BY DEF RemovalInv, DashboardTypeOK
<1>3. /\ <<"ShutdownComplete">> \in Seq(CoreMessage)
      /\ <<"Paused">> \in Seq(CoreMessage) /\ <<"Resumed">> \in Seq(CoreMessage)
  BY DEF CoreMessage
<1> DEFINE c == Head(commands)
<1> HIDE DEF c
<1>4. CASE Waiting(c)
  <2>1. task = "waiting" /\ coordinator = "off" /\ coordinator' = "off"
    BY <1>2, <1>4 DEF Waiting, ThreadInOrder
  <2>2. CASE c = "StopAll"
    <3>1. task' = "ended" /\ Send(<<"ShutdownComplete">>)
      BY <1>4, <2>2 DEF Waiting
    <3>2. Quiescent' /\ ThreadInOrder'
      BY <2>1, <3>1 DEF Quiescent, ThreadInOrder
    <3> QED
      BY <1>1, <1>2, <1>3, <2>1, <3>1, <3>2, ThreadKeepsRemoval
  <2>3. CASE c # "StopAll"
    <3>1. task' \in {"waiting", "fetching", "announcing"} /\ UNCHANGED messages
      BY <1>2, <1>4, <2>1, <2>3 DEF Waiting
    <3>2. ~Quiescent /\ ThreadInOrder'
      BY <2>1, <3>1 DEF Quiescent, ThreadInOrder
    <3> QED
      BY <1>1, <1>2, <2>1, <3>1, <3>2, SilentKeepsRemoval
  <2> QED
    BY <2>2, <2>3
<1>5. CASE Fetching(c)
  <2>1. task = "fetching" /\ coordinator = "off" /\ coordinator' = "off"
    BY <1>2, <1>5 DEF Fetching, ThreadInOrder
  <2>2. CASE c = "StopAll"
    <3>1. task' = "ended" /\ Send(<<"ShutdownComplete">>)
      BY <1>5, <2>2 DEF Fetching
    <3>2. Quiescent' /\ ThreadInOrder'
      BY <2>1, <3>1 DEF Quiescent, ThreadInOrder
    <3> QED
      BY <1>1, <1>2, <1>3, <2>1, <3>1, <3>2, ThreadKeepsRemoval
  <2>3. CASE c # "StopAll"
    <3>1. task' = task /\ UNCHANGED messages
      BY <1>5, <2>3 DEF Fetching
    <3>2. ~Quiescent /\ ThreadInOrder'
      BY <2>1, <3>1 DEF Quiescent, ThreadInOrder
    <3> QED
      BY <1>1, <1>2, <2>1, <3>1, <3>2, SilentKeepsRemoval
  <2> QED
    BY <2>2, <2>3
<1>6. CASE Commanded(c)
  <2>1. task = "running" /\ task' \in {"running", "stopping"} /\ ~Quiescent
        /\ coordinator' \in {"off", "running", "flushing", "ended"}
    BY <1>2, <1>6 DEF Commanded, Quiescent
  <2>2. ThreadInOrder'
    BY <2>1 DEF ThreadInOrder
  <2>3. CASE UNCHANGED messages
    BY <1>1, <2>1, <2>2, <2>3, SilentKeepsRemoval
  <2>4. ASSUME NEW m \in {"Paused", "Resumed"}, Send(<<m>>) PROVE RemovalInv'
    <3>1. <<m>> \in Seq(CoreMessage) /\ \A k \in DOMAIN <<m>> : <<m>>[k] # "ShutdownComplete"
      BY DEF CoreMessage
    <3> QED
      BY <1>1, <2>1, <2>2, <2>4, <3>1, ThreadKeepsRemoval
  <2> QED
    BY <1>6, <2>3, <2>4 DEF Commanded
<1> QED
  BY <1>4, <1>5, <1>6 DEF Receive, c

\* The other steps of the thread and the coordinator.
LEMMA BackgroundKeepsRemoval ==
    ASSUME "slow" \notin Behaviours, RemovalInv,
           \/ Load \/ FetchFinished \/ Stopped \/ CoordinatorEnds
           \/ \E missing, opened \in BOOLEAN : Announced(missing, opened)
    PROVE  RemovalInv'
<1>2. /\ task \in {"loading", "waiting", "fetching", "announcing", "running", "stopping", "ended"}
      /\ coordinator \in {"off", "running", "flushing", "ended"} /\ ThreadInOrder
  BY DEF RemovalInv, DashboardTypeOK
<1>3. CASE Load \/ FetchFinished
  <2>1. /\ UNCHANGED <<source, stored, files, session>> /\ coordinator' = coordinator
        /\ task \in {"loading", "fetching"}
    BY <1>3 DEF Load, FetchFinished, appVars
  <2>2. PICK sent : /\ Send(sent)
                    /\ \/ task' \in {"waiting", "announcing"} /\ sent \in {<<"TorrentLoaded">>, <<"MetadataReady">>}
                       \/ task' = "ended" /\ sent = <<"Error", "Error">>
    BY <1>3 DEF Load, FetchFinished
  <2>3. sent \in Seq(CoreMessage) /\ \A k \in DOMAIN sent : sent[k] # "ShutdownComplete"
    <3>1. /\ <<"TorrentLoaded">> \in Seq(CoreMessage) /\ <<"MetadataReady">> \in Seq(CoreMessage)
          /\ <<"Error", "Error">> \in Seq(CoreMessage)
      BY DEF CoreMessage
    <3>2. \A k \in DOMAIN sent : sent[k] \in {"TorrentLoaded", "MetadataReady", "Error"}
      <4>1. CASE sent = <<"Error", "Error">>
        BY <4>1
      <4>2. CASE sent \in {<<"TorrentLoaded">>, <<"MetadataReady">>}
        BY <4>2
      <4> QED
        BY <2>2, <4>1, <4>2
    <3> QED
      BY <2>2, <3>1, <3>2
  <2>4. coordinator = "off" /\ ~Quiescent /\ ThreadInOrder'
    BY <1>2, <2>1, <2>2 DEF ThreadInOrder, Quiescent
  <2> QED
    BY <1>2, <2>1, <2>2, <2>3, <2>4, ThreadKeepsRemoval
<1>4. CASE Stopped
  <2>1. /\ UNCHANGED <<source, stored, files, session>> /\ coordinator' = coordinator
        /\ coordinator = "ended" /\ task' = "ended" /\ Send(<<"ShutdownComplete">>)
    BY <1>4 DEF Stopped, FlushAwaited, appVars
  <2>2. Quiescent' /\ ThreadInOrder'
    BY <2>1 DEF Quiescent, ThreadInOrder
  <2>3. <<"ShutdownComplete">> \in Seq(CoreMessage)
    BY DEF CoreMessage
  <2> QED
    BY <2>1, <2>2, <2>3, ThreadKeepsRemoval
<1>5. CASE CoordinatorEnds
  <2>1. /\ UNCHANGED <<source, stored, files, session, messages, task>>
        /\ coordinator = "flushing" /\ coordinator' = "ended"
    BY <1>5 DEF CoordinatorEnds, appVars
  <2>2. ThreadInOrder' /\ (Quiescent => Quiescent')
    BY <1>2, <2>1 DEF ThreadInOrder, Quiescent
  <2> QED
    BY <1>2, <2>1, <2>2, SilentKeepsRemoval
<1>6. ASSUME NEW missing \in BOOLEAN, NEW opened \in BOOLEAN, Announced(missing, opened)
      PROVE  RemovalInv'
  <2> DEFINE first == IF missing THEN <<"Error", "Paused">> ELSE <<>>
             second == IF opened THEN <<>> ELSE <<"Error">>
             sent == first \o second
  <2>1. /\ UNCHANGED <<source, stored, files, session>> /\ task = "announcing"
        /\ task' = "running" /\ coordinator' \in {"running", "ended"} /\ Send(sent)
    BY <1>6 DEF Announced, appVars
  <2>2. /\ first \in Seq(CoreMessage \ {"ShutdownComplete"})
        /\ second \in Seq(CoreMessage \ {"ShutdownComplete"})
    <3>1. {"Error", "Paused"} \subseteq CoreMessage \ {"ShutdownComplete"}
      BY DEF CoreMessage
    <3> DEFINE M == CoreMessage \ {"ShutdownComplete"}
    <3> HIDE DEF M
    <3>2. /\ <<"Error", "Paused">> \in Seq(M) /\ <<>> \in Seq(M) /\ <<"Error">> \in Seq(M)
      BY <3>1 DEF M
    <3> QED
      BY <3>2 DEF M
  <2>3. sent \in Seq(CoreMessage \ {"ShutdownComplete"})
    <3> HIDE DEF first, second
    <3> QED
      BY <2>2
  <2> HIDE DEF sent
  <2>4. sent \in Seq(CoreMessage) /\ \A k \in DOMAIN sent : sent[k] # "ShutdownComplete"
    BY <2>3
  <2>5. ThreadInOrder' /\ ~Quiescent
    BY <2>1 DEF ThreadInOrder, Quiescent
  <2> QED
    BY <2>1, <2>4, <2>5, ThreadKeepsRemoval
<1> QED
  BY <1>3, <1>4, <1>5, <1>6

\* Every step keeps the removal exact.
LEMMA StepKeepsRemoval ==
    ASSUME "slow" \notin Behaviours, RemovalInv, [Next]_vars
    PROVE  RemovalInv'
<1>0. DashboardTypeOK /\ session \in TorrentSessionState /\ ThreadInOrder /\ EndBelieved
  BY DEF RemovalInv, DashboardTypeOK
<1>1. CASE Close \/ (FetchStep /\ UNCHANGED dashboardVars) \/ UNCHANGED vars
  <2>1. UNCHANGED <<source, stored, files, session, messages, task, coordinator>>
    BY <1>1 DEF Close, taskVars, appVars, dashboardVars, vars
  <2> QED
    BY <2>1 DEF RemovalInv, DashboardTypeOK, ThreadInOrder, EndReported, EndBelieved, Quiescent,
                RemovalExact
<1>2. CASE StartSwarm \/ PauseOrResume \/ CloseRequested \/ \E delete \in BOOLEAN : Remove(delete)
  <2>1. UNCHANGED <<source, stored, files, messages, task, coordinator>>
    BY <1>2 DEF StartSwarm, PauseOrResume, CloseRequested, Remove, taskVars, appVars
  <2>2. \/ session' = session
        \/ session.open /\ session' \in TorrentSessionState /\ session'.open
    <3>1. CASE StartSwarm
      BY <1>0, <3>1 DEF StartSwarm, Present, TorrentSessionState
    <3>2. CASE PauseOrResume
      BY <1>0, <3>2 DEF PauseOrResume, Present, TorrentSessionState
    <3>3. CASE CloseRequested
      BY <1>0, <3>3 DEF CloseRequested, TorrentSessionState
    <3>4. ASSUME NEW delete \in BOOLEAN, Remove(delete)
          PROVE  session.open /\ session' \in TorrentSessionState /\ session'.open
      BY <1>0, <3>4 DEF Remove, Present, TorrentSessionState
    <3> QED
      BY <1>2, <3>1, <3>2, <3>3, <3>4
  <2>3. CASE session' = session
    BY <2>1, <2>3 DEF RemovalInv, DashboardTypeOK, ThreadInOrder, EndReported, EndBelieved,
                      Quiescent, RemovalExact
  <2> QED
    BY <2>1, <2>2, <2>3, ButtonKeepsRemoval
<1>3. CASE Write
  <2>1. /\ UNCHANGED <<source, stored, session, messages, task, coordinator>>
        /\ files' = TRUE /\ coordinator \in {"running", "flushing"}
    BY <1>3 DEF Write, taskVars, appVars
  <2>2. session.open
    BY <1>0, <2>1 DEF EndBelieved, Quiescent
  <2> QED
    BY <2>1, <2>2 DEF RemovalInv, DashboardTypeOK, ThreadInOrder, EndReported, EndBelieved,
                      Quiescent, RemovalExact
<1> QED
  BY <1>1, <1>2, <1>3, PumpKeepsRemoval, ReceiveKeepsRemoval, BackgroundKeepsRemoval
     DEF Next, Thread, Interface

\* A torrent that is gone has left the session store if and only if the user removed
\* it, and its deleted files are not written again: the end is reported only when the
\* coordinator has ended.  The exception is the one the code makes when the final
\* flush takes longer than it is willing to wait.
THEOREM RemovalIsExact == "slow" \notin Behaviours /\ Spec => []RemovalExact
<1> DEFINE I == "slow" \notin Behaviours /\ RemovalInv
<1>1. "slow" \notin Behaviours /\ Init => I
  <2> SUFFICES ASSUME Init PROVE RemovalInv
    OBVIOUS
  <2>1. /\ task = "loading" /\ coordinator = "off" /\ messages = <<>> /\ stored = TRUE
        /\ source \in {"file", "magnet"} /\ files \in BOOLEAN
        /\ session \in TorrentSessionState /\ session.open = TRUE
    BY DEF Init, TorrentSessionState
  <2>2. <<>> \in Seq(CoreMessage) /\ DOMAIN <<>> = {}
    OBVIOUS
  <2> QED
    BY <2>1, <2>2 DEF RemovalInv, DashboardTypeOK, ThreadInOrder, EndReported, EndBelieved,
                      Quiescent, RemovalExact
<1>2. I /\ [Next]_vars => I'
  BY StepKeepsRemoval
<1>3. I => RemovalExact
  BY DEF RemovalInv
<1> QED
  BY <1>1, <1>2, <1>3, PTL DEF Spec

=============================================================================
