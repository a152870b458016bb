----------------------------- MODULE Dashboard -----------------------------
(***************************************************************************)
(* One torrent in the user interface (src/ui/dashboard.rs) and the thread  *)
(* behind it (background_task): the user presses buttons, the thread reads *)
(* the commands they send, fetches the metadata of a magnet link, starts   *)
(* the coordinator and stops it, and answers with messages the interface   *)
(* reads once per frame.  Commands and messages travel through unbounded   *)
(* queues; a command sent to a thread that has returned is lost.           *)
(*                                                                         *)
(* The coordinator is only the thread that writes files until it is told   *)
(* to stop and has flushed (module Storage has the rest).                  *)
(*                                                                         *)
(* `Behaviours` adds to those of MetadataFetch:                            *)
(*   "source"    the magnet link, the torrent file or the metadata that    *)
(*               was fetched is malformed;                                 *)
(*   "slow"      the final flush takes longer than five seconds.           *)
(***************************************************************************)
EXTENDS MetadataFetch

CONSTANTS
    MaxPresses    \* bound on how often the user pauses or resumes

ASSUME PressesAssumption == MaxPresses \in Nat

VARIABLES
    source,       \* TorrentSource: "file" or "magnet"
    task,         \* where background_task is
    commands,     \* CoreCommand queue
    messages,     \* CoreMessage queue
    coordinator,  \* "off", "running", "flushing" or "ended"
    paused,       \* at the coordinator
    files,        \* the torrent's files exist
    session,      \* TorrentSessionState
    stored,       \* the torrent is in the session store
    quit_requested,
    closed,
    presses

taskVars == <<task, messages, coordinator, paused>>
appVars == <<source, stored, quit_requested, closed, presses>>
dashboardVars == <<taskVars, appVars, commands, files, session>>
vars == <<dashboardVars, fetchVars>>

Send(sent) == messages' = messages \o sent

------------------------------------------------------------------------------
\* background_task.  It loads the source, which may be malformed (an error here is
\* reported twice, by the task and by its caller).
Load ==
    /\ task = "loading"
    /\ \E ok \in IF "source" \in Behaviours THEN BOOLEAN ELSE {TRUE} :
        IF ok THEN task' = "waiting" /\ Send(<<"TorrentLoaded">>)
              ELSE task' = "ended" /\ Send(<<"Error", "Error">>)
    /\ UNCHANGED <<appVars, commands, coordinator, paused, files, session, fetchVars>>

\* Mutant of Waiting: StopAll is one of the commands that mean nothing yet.
WaitingOnly(command) ==
    /\ task = "waiting"
    /\ IF command = "StartSwarm"
       THEN IF source = "magnet" THEN task' = "fetching" /\ StartFetch
                                 ELSE task' = "announcing" /\ UNCHANGED fetchVars
       ELSE UNCHANGED <<task, fetchVars>>
    /\ UNCHANGED <<messages, coordinator, paused>>

\* Before the swarm is started only StartSwarm and StopAll mean something.
Waiting(command) ==
    /\ task = "waiting"
    /\ CASE command = "StartSwarm" /\ source = "magnet" ->
                task' = "fetching" /\ StartFetch /\ UNCHANGED messages
         [] command = "StartSwarm" /\ source = "file" ->
                task' = "announcing" /\ UNCHANGED <<messages, fetchVars>>
         [] command = "StopAll" ->
                task' = "ended" /\ Send(<<"ShutdownComplete">>) /\ UNCHANGED fetchVars
         [] OTHER -> UNCHANGED <<task, messages, fetchVars>>
    /\ UNCHANGED <<coordinator, paused>>

\* While metadata is fetched only StopAll does.
Fetching(command) ==
    /\ task = "fetching" /\ fetch = "on"
    /\ IF command = "StopAll"
       THEN task' = "ended" /\ Send(<<"ShutdownComplete">>) /\ AbortFetch
       ELSE UNCHANGED <<task, messages, fetchVars>>
    /\ UNCHANGED <<coordinator, paused>>

\* Commands for a running torrent.  Pause and Resume are lost when the coordinator's
\* mailbox is full, and ignored by it while it checks files or after it ended.
Commanded(command) ==
    /\ task = "running"
    /\ \/ /\ command = "StopAll"
          /\ task' = "stopping"
          /\ coordinator' = IF coordinator = "running" THEN "flushing" ELSE coordinator
          /\ UNCHANGED <<messages, paused>>
       \/ /\ command \in {"Pause", "Resume"} /\ coordinator = "running"
          /\ paused' = (command = "Pause")
          /\ Send(<<IF command = "Pause" THEN "Paused" ELSE "Resumed">>)
          /\ UNCHANGED <<task, coordinator>>
       \/ command # "StopAll" /\ UNCHANGED <<task, messages, coordinator, paused>>
    /\ UNCHANGED fetchVars

Receive ==
    /\ commands # <<>>
    /\ commands' = Tail(commands)
    /\ \/ Waiting(Head(commands)) \/ Fetching(Head(commands)) \/ Commanded(Head(commands))
    /\ UNCHANGED <<appVars, files, session>>

\* Metadata that has the right hash need not be a torrent.
FetchFinished ==
    /\ task = "fetching" /\ fetch \in {"done", "failed"}
    /\ \/ /\ fetch = "done"
          /\ task' = "announcing" /\ Send(<<"MetadataReady">>)
       \/ /\ fetch = "failed" \/ "source" \in Behaviours
          /\ task' = "ended" /\ Send(<<"Error", "Error">>)
    /\ UNCHANGED <<appVars, commands, coordinator, paused, files, session, fetchVars>>

\* The first announce, the resume file, and the coordinator and swarm are started;
\* a torrent whose files are missing starts paused, and a coordinator that cannot open
\* its files ends at once.
Announced(missing, opened) ==
    /\ task = "announcing"
    /\ task' = "running" /\ paused' = missing
    /\ coordinator' = IF opened THEN "running" ELSE "ended"
    /\ Send((IF missing THEN <<"Error", "Paused">> ELSE <<>>) \o (IF opened THEN <<>> ELSE <<"Error">>))
    /\ UNCHANGED <<appVars, commands, files, session, fetchVars>>

Write ==
    /\ coordinator \in {"running", "flushing"} /\ files' = TRUE
    /\ UNCHANGED <<taskVars, appVars, commands, session, fetchVars>>

\* The coordinator ends after its final flush.
CoordinatorEnds ==
    /\ coordinator = "flushing" /\ coordinator' = "ended"
    /\ UNCHANGED <<appVars, task, messages, paused, commands, files, session, fetchVars>>

\* Mutant of FlushAwaited: the stop does not wait for the coordinator.
FlushIgnored == TRUE
FlushAwaited == coordinator = "ended" \/ "slow" \in Behaviours

\* The thread has waited for the coordinator, but not longer than five seconds.
Stopped ==
    /\ task = "stopping" /\ FlushAwaited
    /\ task' = "ended" /\ Send(<<"ShutdownComplete">>)
    /\ UNCHANGED <<appVars, commands, coordinator, paused, files, session, fetchVars>>

------------------------------------------------------------------------------
\* The buttons.  A command reaches the thread only while it still listens.
Command(c) == commands' = IF task = "ended" THEN commands ELSE Append(commands, c)
Present == session.open /\ ~closed

StartSwarm ==
    /\ Present /\ ~session.swarm_started /\ ~session.is_shutting_down /\ ~session.has_error
    /\ session' = [session EXCEPT !.swarm_started = TRUE]
    /\ Command("StartSwarm")
    /\ UNCHANGED <<taskVars, appVars, files, fetchVars>>

PauseOrResume ==
    /\ Present /\ session.swarm_started /\ ~session.is_shutting_down /\ presses < MaxPresses
    /\ session' = [session EXCEPT !.is_paused = ~@]
    /\ Command(IF session.is_paused THEN "Resume" ELSE "Pause")
    /\ presses' = presses + 1
    /\ UNCHANGED <<taskVars, source, stored, quit_requested, closed, files, fetchVars>>

Remove(delete) ==
    /\ Present /\ ~session.is_shutting_down
    /\ session' = [session EXCEPT !.remove_requested = TRUE, !.delete_requested = delete,
                                  !.is_shutting_down = TRUE]
    /\ Command("StopAll")
    /\ UNCHANGED <<taskVars, appVars, files, fetchVars>>

\* The window is asked to close: every torrent is stopped first.
CloseRequested ==
    /\ ~closed /\ ~quit_requested
    /\ quit_requested' = TRUE
    /\ IF session.open /\ ~session.is_shutting_down
       THEN session' = [session EXCEPT !.is_shutting_down = TRUE] /\ Command("StopAll")
       ELSE UNCHANGED <<session, commands>>
    /\ UNCHANGED <<taskVars, source, stored, closed, presses, files, fetchVars>>

\* pump_messages: what each message changes in the session.
Pumped(m) ==
    CASE m = "TorrentLoaded" -> [session EXCEPT !.meta = IF source = "file" THEN "torrent" ELSE "link"]
      [] m = "MetadataReady" -> [session EXCEPT !.meta = "torrent"]
      [] m \in {"Paused", "Resumed"} -> [session EXCEPT !.is_paused = (m = "Paused")]
      [] m = "Error" -> [session EXCEPT !.has_error = TRUE]
      [] m = "ShutdownComplete" -> [session EXCEPT !.open = FALSE]

\* One message of a frame; messages for a torrent that is gone are dropped.  When it is
\* gone, so is what the user wanted removed; what a link that was never resolved calls
\* itself may, or may not, be the name of the torrent's files.
PumpMessage ==
    /\ messages # <<>> /\ ~closed
    /\ messages' = Tail(messages)
    /\ session' = IF session.open THEN Pumped(Head(messages)) ELSE session
    /\ LET leaves == session.open /\ ~session'.open
             deletes == leaves /\ session.delete_requested
       IN /\ stored' = (stored /\ ~(leaves /\ session.remove_requested))
          /\ files' \in IF deletes /\ session.meta = "torrent" THEN {FALSE}
                       ELSE IF deletes /\ session.meta = "link" THEN {files, FALSE}
                       ELSE {files}
    /\ UNCHANGED <<source, task, coordinator, paused, commands, quit_requested, closed,
                   presses, fetchVars>>

Close ==
    /\ quit_requested /\ ~session.open /\ ~closed
    /\ closed' = TRUE
    /\ UNCHANGED <<taskVars, source, stored, quit_requested, presses, commands, files, session, fetchVars>>

------------------------------------------------------------------------------
\* start_core
Init ==
    /\ FetchInit
    /\ source \in {"file", "magnet"}
    /\ task = "loading" /\ commands = <<>> /\ messages = <<>>
    /\ coordinator = "off" /\ paused = FALSE /\ files \in BOOLEAN
    /\ session = [open |-> TRUE, meta |-> "none", swarm_started |-> FALSE, is_paused |-> FALSE,
                  has_error |-> FALSE, is_shutting_down |-> FALSE, remove_requested |-> FALSE,
                  delete_requested |-> FALSE]
    /\ stored = TRUE /\ quit_requested = FALSE /\ closed = FALSE /\ presses = 0

Thread == Load \/ Receive \/ FetchFinished \/ Stopped \/ \E missing, opened \in BOOLEAN : Announced(missing, opened)
Interface == PumpMessage \/ Close

Next ==
    \/ Thread \/ Interface
    \/ Write \/ CoordinatorEnds
    \/ StartSwarm \/ PauseOrResume \/ CloseRequested
    \/ \E delete \in BOOLEAN : Remove(delete)
    \/ FetchStep /\ UNCHANGED dashboardVars

\* Threads are scheduled, the window is drawn, and a coordinator told to stop does so.
Fairness ==
    /\ WF_vars(Thread) /\ WF_vars(Interface) /\ WF_vars(CoordinatorEnds)
    /\ FetchFairness

Spec == Init /\ [][Next]_vars /\ Fairness

------------------------------------------------------------------------------
\* With a steady peer, metadata that is asked for arrives unless the user stops the
\* torrent: whatever the other peers claim and hold back, as long as they fall silent
\* then, and however often the metadata had to be thrown away before the lies ended.
MetadataArrives ==
    PeersFallSilent /\ LiesEnd => (task = "fetching" ~> task # "fetching")

\* A torrent the user removes goes away and a window asked to close does, whether the
\* thread behind the torrent loads, waits, fetches metadata, announces or downloads.
\* (A thread that has ended with an error, of a malformed source or a failed fetch,
\* answers nobody; the run has neither "source" nor "deadline".)
ShutdownCompletes == session.is_shutting_down ~> (~session.open /\ (quit_requested => closed))

\* A torrent that is gone has left the session store if and only if the user removed it,
\* and deleted files are not written again by a coordinator that still flushes.
RemovalExact ==
    ~session.open =>
        /\ stored = ~session.remove_requested
        /\ session.delete_requested /\ session.meta = "torrent" => ~files
==============================================================================
