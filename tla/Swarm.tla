-------------------------------- MODULE Swarm --------------------------------
(***************************************************************************)
(* The swarm manager of one torrent (src/net/swarm.rs): the tasks it dials *)
(* (probe.rs), the inbound sessions the engine routes to the torrent       *)
(* (engine.rs, inbound.rs), the upload slots all of them share             *)
(* (session.rs) and the announces it leaves running (tracker.rs).          *)
(*                                                                         *)
(* The manager is one task: a branch of its select! and the re-announce    *)
(* check after it are one step.  Everything else reports to it through an  *)
(* unbounded FIFO channel, here of at most MaxEvents.  PeerProgress only   *)
(* restarts the idle clock of an entry and is handled when it is sent.     *)
(* What is downloaded and the PEX messages we send are left out.           *)
(*                                                                         *)
(* `Behaviours` lists what else may happen:                                *)
(*   "lag"      the manager is so late that it expires an entry whose      *)
(*              PeerExited still waits in the channel;                     *)
(*   "abort"    an entry expires while its session is up, stuck in a send  *)
(*              without timeout, and may hold an upload slot;              *)
(*   "overlap"  the download completes while an announce is running;       *)
(*   "late"     an inbound peer that was routed before the stop subscribes *)
(*              after the stop signal was sent.                            *)
(***************************************************************************)
EXTENDS Integers, Sequences, FiniteSets

CONSTANTS
    Addr,           \* socket addresses
    NoAddr,         \* the address of an inbound session (it is not in `active`)
    Undialable,     \* those with port 0, or an unspecified or multicast IP
    Task,           \* tasks: 1..n
    PeerLists,      \* address lists a tracker, the DHT or a peer may send
    NumTrackers,
    MaxActive,      \* MAX_ACTIVE_PEERS (30)
    MaxQueued,      \* MAX_QUEUED_PEERS (2000)
    PeerThreshold,  \* PEER_THRESHOLD (5)
    MaxSlots,       \* MAX_UPLOAD_SLOTS (8)
    MaxInbound,     \* MAX_INBOUND_PEERS
    MaxEvents,      \* bound on waiting events (the channel is unbounded)
    MaxAnnounces,   \* bound on announces running at once
    Behaviours

ASSUME AddrAssumption == IsFiniteSet(Addr) /\ NoAddr \notin Addr /\ Undialable \subseteq Addr
ASSUME PeerListsAssumption == PeerLists \subseteq Seq(Addr)
ASSUME TaskAssumption == IsFiniteSet(Task) /\ Task \subseteq Nat \ {0}
ASSUME SwarmSizesAssumption ==
    /\ {NumTrackers, MaxActive, MaxSlots, MaxAnnounces} \subseteq Nat \ {0}
    /\ {MaxQueued, PeerThreshold, MaxInbound, MaxEvents} \subseteq Nat

VARIABLES
    available,              \* available_peers, the addresses still to dial
    active,                 \* address -> its task, or NoTask
    quiet,                  \* entries without progress for PEER_IDLE_TIMEOUT_SECS
    task,                   \* every spawned task
    events,                 \* SwarmEvents the manager has not received yet
    announce_in_progress,
    event,                  \* what the next announce reports: started, completed or none
    due,                    \* last_announce is None or MIN_ANNOUNCE_INTERVAL ago
    announces,              \* running announce_all tasks
    reported,               \* some tracker has accepted event=completed
    complete,               \* the coordinator broadcast DownloadComplete
    used,                   \* UploadSlots.used
    registered,             \* the engine knows the torrent
    signalled,              \* shutdown_tx.send(()) happened
    stopped                 \* the manager left its loop

managerVars == <<available, active, quiet, announce_in_progress, event, due>>
trackerVars == <<announces, reported>>
stopVars == <<registered, signalled, stopped>>
vars == <<managerVars, task, events, trackerVars, complete, used, stopVars>>

NoTask == 0
NoSession == [state |-> "none", addr |-> NoAddr, told |-> FALSE,
              interested |-> FALSE, slot |-> FALSE]

Live == {t \in Task : task[t].state # "none"}
Up == {t \in Task : task[t].state = "up"}
Dialled(t) == task[t].addr # NoAddr
ActiveAddrs(act) == {a \in Addr : act[a] # NoTask}
\* A task number stands for one task until nothing refers to it.
Free == {t \in Task \ Live : \A a \in Addr : active[a] # t}

Event(type, addr, addrs) == [type |-> type, addr |-> addr, addrs |-> addrs]
Waiting(e) == \E i \in DOMAIN events : events[i] = e
CanSend == Len(events) < MaxEvents
\* A send fails silently once the manager has dropped the receiver.
Send(e) == IF stopped THEN events ELSE Append(events, e)

------------------------------------------------------------------------------
\* What a branch of the select! leaves behind, then should_reannounce and
\* start_reannounce.
Announce(e) == [event |-> e, left |-> NumTrackers, ok |-> FALSE]

AfterBranch(queue, act, busy, ev, running, isDue) ==
    LET again == /\ ~busy
                 /\ \/ Len(queue) < PeerThreshold
                    \/ Cardinality(ActiveAddrs(act)) < PeerThreshold
                 /\ isDue
    IN /\ available' = queue
       /\ active' = act
       /\ quiet' = {a \in quiet : act[a] # NoTask /\ act[a] = active[a]}
       /\ event' = ev
       /\ announce_in_progress' = (busy \/ again)
       /\ announces' = IF again THEN Append(running, Announce(ev)) ELSE running
       /\ due' = (isDue /\ ~again)

\* enqueue_peers: the new dialable addresses, in order, while there is room.
Enqueue(addrs) ==
    LET New(i) == /\ addrs[i] \notin Undialable
                  /\ active[addrs[i]] = NoTask
                  /\ \A k \in DOMAIN available : available[k] # addrs[i]
                  /\ \A k \in 1..(i - 1) : addrs[k] # addrs[i]
        Added == SelectSeq([i \in DOMAIN addrs |-> i], New)
        Room == IF Len(available) < MaxQueued THEN MaxQueued - Len(available) ELSE 0
    IN available \o [k \in 1..(IF Len(Added) < Room THEN Len(Added) ELSE Room)
                        |-> addrs[Added[k]]]

\* The manager serves one SwarmEvent.
Received(type) ==
    /\ ~stopped
    /\ events # <<>> /\ Head(events).type = type
    /\ events' = Tail(events)
    /\ UNCHANGED <<task, reported, complete, used, stopVars>>

PeerExited ==
    /\ Received("PeerExited")
    /\ AfterBranch(available, [active EXCEPT ![Head(events).addr] = NoTask],
                   announce_in_progress, event, announces, due)

TrackerPeersReceived ==
    /\ Received("TrackerPeersReceived")
    /\ AfterBranch(Enqueue(Head(events).addrs), active, FALSE, "none", announces, due)

\* Mutant of TrackerAnnounceFailed: a failed announce also clears the event.
ForgetAfterFailure ==
    /\ Received("TrackerAnnounceFailed")
    /\ AfterBranch(available, active, FALSE, "none", announces, due)

TrackerAnnounceFailed ==
    /\ Received("TrackerAnnounceFailed")
    /\ AfterBranch(available, active, FALSE, event, announces, due)

\* PexPeersReceived and DhtPeersReceived are handled alike.
PeersDiscovered ==
    /\ Received("PeersDiscovered")
    /\ AfterBranch(Enqueue(Head(events).addrs), active, announce_in_progress, event,
                   announces, due)

\* The select! branch of DownloadComplete forces an announce, even while another
\* one is running; the check after the branch then finds one in progress.
DownloadComplete ==
    /\ ~stopped /\ ~complete
    /\ \/ "overlap" \in Behaviours
       \/ announces = <<>> /\ \A i \in DOMAIN events : events[i].type # "TrackerPeersReceived"
    /\ Len(announces) < MaxAnnounces
    /\ complete' = TRUE
    /\ AfterBranch(available, active, TRUE, "completed",
                   Append(announces, Announce("completed")), FALSE)
    /\ UNCHANGED <<task, events, reported, used, stopVars>>

\* How many addresses the dial loop pops: all of them, or those that fill `active`.
Popped(remaining) ==
    LET Filled(n) == Cardinality(remaining \cup {available[i] : i \in 1..n}) >= MaxActive
    IN CHOOSE n \in 0..Len(available) :
           /\ n = Len(available) \/ Filled(n)
           /\ \A m \in 0..(n - 1) : ~Filled(m)

\* The timer branch: it drops and aborts the entries without progress, then dials.
\* Tasks that end by an abort run no cleanup: no PeerExited, no slot given back.
TickDialling(aborted) ==
    LET remaining == ActiveAddrs(active) \ quiet
        n == Popped(remaining)
        dials == {a \in Addr \ remaining : \E i \in 1..n : available[i] = a}
    IN /\ ~stopped
       /\ \A a \in quiet :
            /\ "abort" \in Behaviours \/ task[active[a]].state # "up"
            /\ "lag" \in Behaviours \/ ~Waiting(Event("PeerExited", a, <<>>))
       /\ Cardinality(dials) <= Cardinality(Free)
       /\ LET new == CHOOSE f \in [dials -> Free] :
                         \A a, b \in dials : f[a] = f[b] => a = b
          IN /\ task' = [t \in Task |->
                   IF \E a \in dials : new[a] = t
                   THEN [NoSession EXCEPT !.state = "dialling",
                                          !.addr = CHOOSE a \in dials : new[a] = t]
                   ELSE IF t \in aborted THEN NoSession
                   ELSE task[t]]
             /\ AfterBranch(SubSeq(available, n + 1, Len(available)),
                   [a \in Addr |-> IF a \in dials THEN new[a]
                                   ELSE IF a \in remaining THEN active[a] ELSE NoTask],
                   announce_in_progress, event, announces, due)
       /\ UNCHANGED <<events, reported, complete, used, stopVars>>

\* Mutant of Tick: an expired entry is removed and its task left running.
TickWithoutAbort == TickDialling({})

Tick == TickDialling({active[a] : a \in quiet})

\* MIN_ANNOUNCE_INTERVAL passes.
TimePasses ==
    /\ ~stopped /\ ~due /\ Len(announces) < MaxAnnounces
    /\ due' = TRUE
    /\ UNCHANGED <<available, active, quiet, announce_in_progress, event, task, events,
                   trackerVars, complete, used, stopVars>>

------------------------------------------------------------------------------
\* announce_all reports the peers of each tracker that answers at once, and a
\* failure only when the last tracker is done and none answered.
\* Mutant of Outcome: nobody is told that every tracker failed.
AnswersOnly(a, ok, addrs) ==
    IF ok THEN <<Event("TrackerPeersReceived", NoAddr, addrs)>> ELSE <<>>

Outcome(a, ok, addrs) ==
    CASE ok -> <<Event("TrackerPeersReceived", NoAddr, addrs)>>
      [] ~ok /\ a.left = 1 /\ ~a.ok -> <<Event("TrackerAnnounceFailed", NoAddr, <<>>)>>
      [] OTHER -> <<>>

\* One more tracker of the i-th running announce answers or fails.
TrackerDone(i, ok, addrs) ==
    LET a == announces[i]
    IN /\ CanSend
       /\ announces' = IF a.left = 1
                       THEN SubSeq(announces, 1, i - 1) \o SubSeq(announces, i + 1, Len(announces))
                       ELSE [announces EXCEPT ![i].left = @ - 1, ![i].ok = @ \/ ok]
       /\ reported' = (reported \/ (ok /\ a.event = "completed"))
       /\ events' = events \o Outcome(a, ok, addrs)
       /\ UNCHANGED <<managerVars, task, complete, used, stopVars>>

TrackerAnswers == \E i \in DOMAIN announces, addrs \in PeerLists : TrackerDone(i, TRUE, addrs)

TrackerFails == \E i \in DOMAIN announces : TrackerDone(i, FALSE, <<>>)

\* The DHT search (external here, see Dht) or the PEX message of a session.
Discover ==
    /\ CanSend /\ ~stopped
    /\ \E addrs \in PeerLists \ {<<>>} :
         events' = Send(Event("PeersDiscovered", NoAddr, addrs))
    /\ UNCHANGED <<managerVars, task, trackerVars, complete, used, stopVars>>

------------------------------------------------------------------------------
\* Tasks.  A dialled task tells the manager when it ends; `finish` gives the
\* upload slot back.
EndWith(t, slots) ==
    /\ task' = [task EXCEPT ![t] = NoSession]
    /\ events' = IF Dialled(t) THEN Send(Event("PeerExited", task[t].addr, <<>>)) ELSE events
    /\ used' = slots

ReleaseSlot(t) == IF task[t].slot /\ used > 0 THEN used - 1 ELSE used

\* Mutant of End: the session does not release its upload slot.
EndLeaking(t) == EndWith(t, used)

End(t) == EndWith(t, ReleaseSlot(t))

\* The first of the TCP and QUIC dials whose handshake succeeds (execute_probe).
Connected(t) ==
    /\ task[t].state = "dialling"
    /\ task' = [task EXCEPT ![t].state = "up"]
    /\ quiet' = quiet \ {task[t].addr}
    /\ UNCHANGED <<available, active, announce_in_progress, event, due, events, trackerVars,
                   complete, used, stopVars>>

\* Both dials failed, the peer is gone, an error or an idle timeout.
Ends(t) ==
    /\ task[t].state # "none" /\ CanSend
    /\ End(t)
    /\ UNCHANGED <<managerVars, trackerVars, complete, stopVars>>

\* A session leaves its loop on the stop signal; a dialling task ignores it.
EndsOnShutdown(t) ==
    /\ t \in Up /\ task[t].told /\ CanSend
    /\ End(t)
    /\ UNCHANGED <<managerVars, trackerVars, complete, stopVars>>

\* PEER_IDLE_TIMEOUT_SECS pass without progress: a dial waits in open_bi, or a
\* session in a send, neither of which has a timeout.
Quiet(t) ==
    /\ t \in Live /\ Dialled(t) /\ active[task[t].addr] = t
    /\ task[t].state = "dialling" \/ "abort" \in Behaviours
    /\ quiet' = quiet \cup {task[t].addr}
    /\ UNCHANGED <<available, active, announce_in_progress, event, due, task, events,
                   trackerVars, complete, used, stopVars>>

\* spawn_tcp_acceptor and spawn_quic_acceptor take a permit; route looks the
\* torrent up and the handshake is sent.
Route(t) ==
    /\ registered /\ t \in Free /\ \A u \in Free : t <= u
    /\ Cardinality({u \in Live : ~Dialled(u)}) < MaxInbound
    /\ task' = [task EXCEPT ![t] = [NoSession EXCEPT !.state = "routed"]]
    /\ UNCHANGED <<managerVars, events, trackerVars, complete, used, stopVars>>

\* The handshake is out: the session subscribes to the stop signal and starts.
Subscribe(t) ==
    /\ task[t].state = "routed"
    /\ "late" \in Behaviours \/ ~signalled
    /\ task' = [task EXCEPT ![t].state = "up"]
    /\ UNCHANGED <<managerVars, events, trackerVars, complete, used, stopVars>>

\* try_unchoke, called for INTERESTED and by the housekeeping of each tick.
TryUnchoke(t) ==
    /\ task' = [task EXCEPT ![t].interested = TRUE,
                            ![t].slot = @ \/ used < MaxSlots]
    /\ used' = IF ~task[t].slot /\ used < MaxSlots THEN used + 1 ELSE used

Interested(t) ==
    /\ t \in Up /\ task[t].addr \notin quiet
    /\ TryUnchoke(t)
    /\ UNCHANGED <<managerVars, events, trackerVars, complete, stopVars>>

\* NOT_INTERESTED: choke, then release_upload_slot.
NotInterested(t) ==
    /\ t \in Up /\ task[t].addr \notin quiet /\ task[t].interested
    /\ task' = [task EXCEPT ![t].interested = FALSE, ![t].slot = FALSE]
    /\ used' = ReleaseSlot(t)
    /\ UNCHANGED <<managerVars, events, trackerVars, complete, stopVars>>

------------------------------------------------------------------------------
\* background_task sends the stop signal; every subscriber of that moment gets it.
Shutdown ==
    /\ ~signalled
    /\ signalled' = TRUE
    /\ task' = [t \in Task |-> IF task[t].state \in {"dialling", "up"}
                               THEN [task[t] EXCEPT !.told = TRUE] ELSE task[t]]
    /\ UNCHANGED <<managerVars, events, trackerVars, complete, used, registered, stopped>>

StopWith(Aborted) ==
    /\ signalled /\ ~stopped
    /\ stopped' = TRUE
    /\ registered' = FALSE
    /\ task' = [t \in Task |-> IF t \in Aborted THEN NoSession ELSE task[t]]
    /\ available' = <<>> /\ active' = [a \in Addr |-> NoTask] /\ quiet' = {}
    /\ announce_in_progress' = FALSE /\ event' = "none" /\ due' = FALSE
    /\ events' = <<>>
    /\ announces' = <<>>
    /\ UNCHANGED <<reported, complete, used, signalled>>

\* Mutant of Stop: the manager counts on the stop signal and aborts nothing.
StopWithoutAbort == StopWith({})

\* The manager leaves its loop: it aborts its tasks, unregisters the torrent and
\* announces "stopped" to whichever trackers answer within two seconds.  Its state is
\* dropped; announces that still run are not followed any further.
Stop == StopWith({active[a] : a \in ActiveAddrs(active)})

------------------------------------------------------------------------------
\* The queue begins with what the trackers answered background_task, each address once.
Init ==
    /\ available \in {addrs \in PeerLists : \A i, k \in DOMAIN addrs : addrs[i] = addrs[k] => i = k}
    /\ active = [a \in Addr |-> NoTask]
    /\ quiet = {}
    /\ task = [t \in Task |-> NoSession]
    /\ events = <<>>
    /\ announce_in_progress = FALSE
    /\ event = "started"
    /\ due = TRUE
    /\ announces = <<>>
    /\ reported = FALSE
    /\ complete = FALSE
    /\ used = 0
    /\ registered = TRUE
    /\ signalled = FALSE
    /\ stopped = FALSE

Manager ==
    \/ PeerExited \/ TrackerPeersReceived \/ TrackerAnnounceFailed \/ PeersDiscovered
    \/ DownloadComplete \/ Tick \/ Stop

Next ==
    \/ Manager
    \/ TimePasses \/ TrackerAnswers \/ TrackerFails \/ Discover \/ Shutdown
    \/ \E t \in Task : \/ Connected(t) \/ Ends(t) \/ EndsOnShutdown(t) \/ Quiet(t)
                       \/ Route(t) \/ Subscribe(t)
                       \/ Interested(t) \/ NotInterested(t)

Spec == Init /\ [][Next]_vars

------------------------------------------------------------------------------
\* `active` lists exactly the dialled tasks that run: no address is dialled twice at
\* once, at most MAX_ACTIVE_PEERS tasks run, and each can be expired and aborted.
TasksTracked ==
    ~stopped => \A t \in Live : Dialled(t) => active[task[t].addr] = t

\* announce_in_progress is cleared by an answer or a failure, so the swarm announces
\* again: while it is set an announce runs or its outcome waits to be handled.
AnnounceNeverStuck ==
    ~stopped /\ announce_in_progress =>
        \/ announces # <<>>
        \/ \E i \in DOMAIN events :
               events[i].type \in {"TrackerPeersReceived", "TrackerAnnounceFailed"}

\* "completed" stays owed to the trackers until one of them accepted it, however many
\* announces fail.
CompletedOwed ==
    ~stopped /\ complete =>
        \/ event = "completed" \/ reported
        \/ \E i \in DOMAIN announces : announces[i].event = "completed"

\* Once the manager is gone, every session that still runs has got the stop signal,
\* also one that was being dialled when it was sent.  (An inbound session that only
\* subscribes after the signal never gets it: behaviour "late".)
StopReachesSessions == stopped => \A t \in Up : task[t].told

\* While the torrent runs, UploadSlots counts the sessions that hold a slot: none leaks and none is given
\* back twice, so an upload slot is free again when its peer is gone.
SlotsExact == ~stopped => used = Cardinality({t \in Up : task[t].slot})
==============================================================================
