# TLA+ models of tortor

Models, model-checking runs and proofs for tortor, a BitTorrent client (Rust,
tokio). Paths below are relative to the repository; a line such as
`manager.rs:153` is `src/core/manager.rs`, line 153.

`PROJECT.json` maps every definition to the lines it models, and lists the
runs, the mutants that show each property can fail, the findings, the hazards
and the theorems.

## 1. The system

One process runs any number of torrents. For each torrent the dashboard starts
`background_task` (a thread), which starts one **coordinator** (a task that
owns the piece manager and the disk), one **swarm manager** (dials peers,
announces to trackers, aborts idle sessions) and, through it, one **peer
session** task per connection. All torrents share the engine (listening port,
DHT, port mapping, bandwidth limits); upload slots belong to one torrent.

| Component | State | Operations | Hard behaviour | What makes it correct |
|---|---|---|---|---|
| Piece manager (`core/manager.rs`) | `missing`, `in_progress`, `completed`, `availability`, selection, two counters | next_work_for, return_work, mark_completed, apply_selection, peer availability | endgame with several holders, selection changes with pieces in flight, lazy purge of the queue | no wanted piece is lost, double-booked or fetched after completion; done means done |
| File selection (`core/selection.rs`) | – | from_files, pieces_of_files, pieces_to_refetch | piece boundaries, empty files | exactly the pieces that share a byte with a file |
| Coordinator (`core/coordinator.rs`) | check or download state, paused, has_completed, last save | one handler per `CoordinatorMsg`, the check tick, the final save | messages of many sessions interleave; disk errors; order of flush and save | recorded progress is durable; completed pieces are stored; done is announced once and truthfully |
| Disk (`core/disk.rs`, `disk_uring.rs`) | per file: handle, dirty flag | init, write, read, flush, set_selection | a step of several fails; power loss | bytes land in their file at their place; after flush they survive |
| Resume file (`core/resume.rs`, `fsutil.rs`) | file on disk | load, save | crash between steps | never claims more than the disk holds |
| Life cycle (`ui/dashboard.rs`) | shared selection, `current_flags` | launch, relay of commands, stop | edits while a change is queued, stop or crash in between | the running torrent ends up with the chosen files |
| Peer session (`net/session.rs`) | job, have, choke/interest flags, upload slot | messages, events, time-outs, finish | waits for the coordinator, loses events, is aborted | everything reserved is given back; peers learn what we have; downloads finish |
| Piece assembler (`core/assembler.rs`) | per block: when requested, received | next_request, add_block, reset_requests | retries, duplicates, late blocks of another piece | a piece is complete exactly when every block of it arrived once |
| Swarm manager (`net/swarm.rs`, `probe.rs`) | active peers, dial queue, announce state | events, expiry and dialling on a timer, re-announce, stop | late exits, overlapping announces, a stop while peers connect | every task is tracked; announces never get stuck; `completed` stays owed; a stop reaches everybody |
| Metadata fetch (`net/metadata.rs`) | shared assembler and claims | claim, add, release, start over | several peers, wrong pieces, silence | one good peer suffices |
| DHT (`net/dht/`) | routing table, searches, tokens, stored peers, pending queries | queries, replies, time-outs, rotation | late, lost and reordered replies, bucket splits | a stored peer is found; announces reach the right nodes and are accepted |
| Shaper (`net/shaper.rs`) | token bucket | acquire, give_back, set_rate | changes while somebody waits | nothing lost, nobody starves |
| Wire decoder (`net/wire.rs`) | partial message | next | partial reads, cancelled reads | no byte lost |
| Engine (`net/engine.rs`, `inbound.rs`) | registry of torrents, permits | register, route | connections around a stop | inbound peers are bounded and stopped |
| User interface (`ui/dashboard.rs`) | one record per torrent, quit flag | buttons, messages, close | commands to a thread that is elsewhere or gone | removal is exact, closing completes |
| Port mapping (`net/portmap.rs`) | lease | maintain | partial failure | mappings removed at exit |

Interactions:

* session → coordinator: one bounded FIFO channel (2048); `RequestWork` and
  `GetCompletedPieces` carry a one-shot reply the session waits for;
* coordinator → sessions: a broadcast channel of 64 events, of which a slow
  session loses the oldest (`RecvError::Lagged`, ignored at `session.rs:191`);
* dashboard → `background_task`: a command queue; `SelectionChanged` carries no
  data, the flags are read from a shared mutex when it is handled;
* swarm → session: dial and `abort`; session → swarm: progress and exit events.
* engine → session: inbound connections routed by info hash; the session
  subscribes to the torrent's stop signal when its handshake is done;
* tracker, DHT and peer exchange → swarm: `SwarmEvent`s through one unbounded
  channel, any number of them on their way;
* `background_task` → dashboard: `CoreMessage`s, read once per frame.

## 2. Modules

```
PieceManager        TorrentManager, one action per method
  MCPieceManager      instance for TLC
  PieceManager_proofs theorems
  Coordinator         the handlers of run_coordinator, parametrised by the
                      outcome of the disk calls
    Storage           Coordinator + Disk + resume file + launch, stop, crash
      MCStorage         instance for TLC
      Storage_proofs    Storage implements ManagerSpec; what is recorded, stored,
                        selected and announced
    Transfer          Coordinator + sessions + mailbox + events
      MCTransfer        instance for TLC
      Transfer_proofs   Transfer implements ManagerSpec; what the coordinator
                        counts and what the peers are told
FileSelection       which pieces a choice of files wants, serves, refetches
  Disk                the disk back ends (used by Storage)
FileLayout          the byte arithmetic behind FileSelection and Disk
  FileLayout_proofs
BlockFetch          one session block by block: assembler, pipeline, decoder,
  BlockFetch_proofs download limit
Swarm               swarm manager, dialled and inbound sessions, upload slots,
  MCSwarm           announces
  Swarm_proofs
DhtRouting          the routing table
  Dht                 nodes, searches, tokens, datagrams
    MCDht               instance for TLC
    Dht_proofs          ordered tables, announces to the right nodes, good tokens
MetadataFetch       peers that share one metadata assembler
  Dashboard           MetadataFetch + background_task + buttons + window
    Dashboard_proofs
```

**PieceManager.** Each variable is a field of `TorrentManager`. `in_progress`
is a function that is 0 where the map has no entry. The deque `missing` is a
set: `next_work_for` picks a rarest piece and breaks ties at random, so the
order has no effect, and no method can queue a piece twice because a queued
piece is never in flight (`MissingIsUnassigned`). `ManagerSpec` lets any method
be called at any time with any arguments, so it is the abstract specification
that the two compositions are measured against: Storage and Transfer are proved
to implement it.

**Coordinator.** One operator per handler. Parameters are the message's fields
and what the disk answered. `...Events` operators give the broadcast events.
The `DownloadingMetadata` state is left out: both callers of `run_coordinator`
start it with metadata in hand.

**Disk.** A segment `<<p, f>>` is the part of piece `p` in file `f`. A disk has
the segments a read returns (`cache`), the ones that survive a power loss
(`durable`), the files with a handle and the dirty flags. Each call is a
function from a disk to the disks it may leave, failures half way included. The
two back ends run the same algorithm; their differences (seek and write against
positioned writes) do not show at this level.

**Storage.** The coordinator with its disk, the resume file, the shared file
selection, `background_task`'s `current_flags`, the queue of `SetSelection`
messages, launch and stop, kill and power loss. Peers are reduced to the set of
pieces they have been asked for (`requested`). A launch works with all files when
the choice leaves out nothing but empty ones (`FilesAtStart`, `dashboard.rs:399`).
Three variables only observe: `selected_files` (the files the coordinator's
selection stands for), `resume_files` (the files the resume file was written for)
and `refused` (the last selection change failed on disk).

**Transfer.** Sessions with their job, bitfield, choke and interest flags, the
mailbox, and a queue of events per session. A session waiting for a reply does
nothing else, so the step that handles its request delivers the reply. Opening
takes three steps (`Connect`, the reply, `Greet`), between which other sessions go
on; a session has subscribed before the first. The peer of a steady session is a
seed that stays, but housekeeping may still drop it as idle. Blocks
of a piece and uploading are left out; the remote peers may send any message
at any time. As in `StartCoordinator`, a file check needs a piece to check.

**FileLayout.** Init takes every layout within the bounds; `plan_files` goes over
the files, one per step; then the pieces are written in any order, one turn of
the write loop per step. The meaning it is
checked against is FileSelection, instantiated with the files each piece really
shares a byte with.

**BlockFetch.** What Transfer takes as one step, the download of a piece. The
stream is a sequence of units of `MIN_CHUNK` bytes; a message is one or more of
them and its first carries the length. A tick is a second and happens when the
session has nothing else to do. Every branch of the session's loop ends with
`maybe_request_work` and `fill_pipeline` (`Proceed`). The peer is external and
honest; it chokes and unchokes when it likes. `buffer` notes for each block the
piece its data came from, so that a hash matches when all of them agree.

**Swarm.** The manager's branches are actions; each ends with the re-announce
check (`AfterBranch`). A task is dialling, up, or (inbound) routed and not yet
subscribed. An aborted task disappears without its clean-up, which is what an
abort does. `PeerProgress` only restarts an idle clock, so the clock is a set of
entries that have been quiet too long. `reported` observes whether a tracker has
accepted `completed`.

**DhtRouting, Dht.** Ids are tuples of bits; buckets are split as the code does
it. Every node runs this program: it answers queries, and the searchers search.
A search does nothing between two answers, so the step that applies an answer
sends the next queries, and at the end the announces, which take a transaction
like any query. (Their answers, which nobody waits for, are left out.) The stable sort by distance puts each contact at its rank in
the order "closer, or equally close and earlier", and filters keep the rest in
place; neither is a recursion, so that they can be reasoned about. `seen` is the
clock of a node's token secret: a search, with the delivery of its announces, is
over by the second rotation after it began. `refused`, `answered`, `spoilt` and
`owed` only observe.

**MetadataFetch.** Pieces of metadata are good or bad and the hash tells only
whether all are good. Steady peers are found and answer; the others may stay
silent, reject, leave, answer for somebody else, or send bad or malformed
pieces, as often as they like.

**Dashboard.** One torrent from `start_core` until it is gone: where
`background_task` is, the two queues, the session record with the buttons'
flags, and of the coordinator only whether it still writes and flushes. A link
that was never resolved deletes what it calls itself, which may be the torrent's
files or not. It
extends MetadataFetch, whose steps run while the thread is fetching.

`Faults` (Storage) and `Behaviours` (the other modules) list what else may
happen; the headers say what each entry means. The passing runs leave out the
entries that lead to the deviations of section 3.

## 3. Runs

| Run | Instance | Shows |
|---|---|---|
| PieceManager | 3 pieces, 3 holders, 4 selections | the manager's invariants under any calls |
| Storage | 2 files, 2 pieces (one shared), 2 holders, 2 queued changes, faults write, flush, power, kill, delete | what is recorded is durable, what is completed is stored, what is servable is wholly stored, the announcement is truthful |
| StorageSelections | 3 files, one of them empty, 1 piece, 2 queued changes, faults open, sync, lazy, hasty | `current_flags` is exact, the selection settles on the files chosen last |
| Transfer | 2 sessions (symmetric), 2 pieces, mailbox 2, 2 events kept | reservations and availability exact, with lost events and write failures |
| TransferReselect | 2 sessions (symmetric), 2 pieces, 2 selection changes, abort | interest is kept, every servable piece is advertised |
| TransferLive | a steady seed and another peer, 1 holder per piece, mailbox 1, check, pause, 1 event kept | the download finishes, if the other peer fails finitely often |
| FileLayout | 3 files of 0–2 bytes, pieces of 1–3 bytes | plan, selection arithmetic, write loop, termination |
| BlockFetch | 2 pieces of 3 blocks (2, 2 and 1 units), 2 in flight, 2 chokes, 1 change of the limit | no byte lost, blocks exact, pieces get assembled |
| Swarm | 3 addresses (1 undialable), 2 tasks, 2 trackers, 1 active, 1 inbound, 1 slot | tasks and slots accounted for, announces neither stuck nor forgotten, a stop reaches everybody |
| Dht | 4 nodes with 3-bit ids, buckets of 1, 2 searches of which 1 announces, 2 rotations at 1 node | tables ordered, the right nodes are announced to, no announce is refused, stored peers are found |
| Dashboard | 1 torrent (file or link), 3 metadata peers (1 steady), 2 parts, 1 pause press | claims owned, metadata arrives once lies and chatter end, removal exact, shutdown completes |
| StorageHastyStop | 2 files, 2 pieces (one shared), 1 holder, fault hasty | a finding, see below |

Bounds. Two files with a shared piece is the smallest layout in which a piece
can be partly stored; the piece that lies in one file is there to be completed
while the other is not. Two holders make endgame happen with a holder more than
the one that fails. A resume file that cannot be saved (fault save) is left to the
proofs, which have it; it triples the states. Two sessions fill a mailbox of two, so senders wait, and
two kept events are lost by a session that is slow. Two
queued selection changes and one pending command are the stages at which edits
meet: an edit can be coalesced with the pending one, can follow two changes that
are still queued, and can find the queue full. Three files with an empty one allow a
choice that leaves out nothing but an empty file. Two selection changes take a file
away and give it back, which is what a stale
event needs to do harm. In TransferReselect one session completes a piece while the
other is between its snapshot of the servable pieces and its first event, and eight
events are never exceeded:
both of its properties speak of sessions that have received every event, and
`session.rs:191` drops lost ones without repair. In
TransferLive one holder per piece is the limit the other session can fill alone, so
that the seed must wait for what it gives back. In FileLayout three files allow an
empty file between two others and a piece that spans three.

In BlockFetch three blocks exceed the pipeline, the blocks are cut by reads of
two units, the limit is lower than a burst, and a second piece is there for late
blocks of the first; the time-outs keep their order (retry, choked, stall). In
Swarm two tasks for one active place mean that dialled and inbound sessions
compete for the slot and that an address can be dialled again; two events and
two announces allow an outcome to be overtaken. In Dht a table with buckets
of one contact splits twice; a search keeps two of three contacts in flight, so that answers
come in any order and one node is learnt of only from an answer; the second
search may begin before, during or after the first. The secret of a node that is
announced to rotates twice, before, during or after the search that announces; no
step reads the secrets of two nodes, so that one rotating node is enough. In Dashboard two of three
metadata peers run at once, so one waits for a place, and two parts can be
claimed by different peers.

Deadlock is checked in the runs of PieceManager, Storage and Transfer. The other
models end: all pieces written or assembled, the swarm stopped, the searches
over, the window closed.

### Fairness

* TransferLive: `WF(MailboxStep)`, `WF(OnCheckTick)`, because the coordinator is
  a loop that waits for nothing but its own disk and channels. `WF(JobEnds)` for
  every session: a job is finished, fails, or is ended by CHOKED_JOB_TIMEOUT or
  BLOCK_STALL_TIMEOUT (`session.rs:657-672`). `SF(FinishJob)` for every session
  and `SF` for the steps of the steady one, the dial after an idle drop included:
  `tokio::select!` picks among ready branches at random
  and a bounded channel serves waiting senders in order, so a step that keeps
  becoming possible is taken; weak fairness is not enough because a full mailbox
  disables a send again and again. The property has two hypotheses about who is
  not the program: the torrent is not left paused (`<>[]~paused`), and the other
  peers fail to deliver finitely often. The second is needed: nobody is banned, and
  a piece that was given back goes to who asks first, so that a peer that fails for
  ever can keep a piece from the seed at the endgame limit.
* FileLayout: `WF(Next)`: the write loop runs.
* BlockFetch: `WF` of the session together with the serving peer (both go on),
  and of `PeerUnchokes` (the peer does not choke us for ever). Not of the user
  or of other sessions.
* Dashboard: `WF` of the thread, of the interface (frames are drawn) and of the
  end of a coordinator told to stop; of the tasks of the metadata
  fetch; and that steady peers are found and answer. Not of the buttons and not
  of the other peers: that who owes an answer falls silent, so that the time-out is
  looked at (`metadata.rs:321`), and that bad pieces end are hypotheses of
  `MetadataArrives` (`PeersFallSilent`, `LiesEnd`).

### Finding

StorageHastyStop is expected to fail. Servable pieces are "fully stored on disk"
(`manager.rs:82`), but when the new selection is saved and the program ends
before the coordinator applied it, the resume file is trusted for files it never
covered (`dashboard.rs:508`).

### Deviations

These show with the same modules when constants of a configuration are changed;
the property then fails.

| Configuration and change | Property | What happens |
|---|---|---|
| StorageHastyStop, `Faults = {"open"}` | `ServableIsStored` | set_selection released one file, then failed to open another; later pieces are written nowhere and still count (`disk.rs:172`), against "Completed and fully stored on disk" (`manager.rs:82`) |
| StorageSelections, `~refused` taken out of the property | `CurrentFlagsExact` | `current_flags` ("The selection the coordinator currently works with.", `dashboard.rs:724`) is set when the message is sent, not when the change is accepted (`dashboard.rs:759`); so the next change computes what to fetch again from files the coordinator never took |
| StorageHastyStop, `Faults = {"lazy", "kill", "power"}` | `RecordedIsDurable` | the check marks pieces completed without marking files dirty (`coordinator.rs:151`), against "progress is recorded only after the data was flushed to disk" (repository README, line 24) |
| StorageHastyStop, `Faults = {"sync", "power"}` | `RecordedIsDurable` | set_selection takes the handle before the sync; after a failed sync the dirty mark is cleared without one (`disk.rs:188`) |
| TransferLive, `Behaviours = {"abort"}` | `DownloadFinishes` | an aborted session never runs `finish` (`swarm.rs:230`); such reservations fill the endgame limit and no peer is given the piece, against "Fixes stalls at 99.9 %." (CHANGELOG, line 25) |
| Transfer, `Behaviours = {"abort"}` | `ReservationsExact` | `finish` "Releases everything the session reserved, whatever way it ended." (`session.rs:698`), but an abort skips it |
| TransferReselect, `Behaviours = {"check"}` | `ServableAdvertised` | pieces verified before a peer connected are never announced to it (`coordinator.rs:284`), against "the client seeds while and after downloading" (repository README, line 21) |
| Transfer, `MaxEdits = 2`, `MaxEvents = 8`, `Behaviours = {}` | `ReservationsExact` | a stale PieceCompleted makes a session drop the piece it fetches again (`session.rs:341`) |
| Transfer, `Behaviours = {"rehave"}` | `AvailabilityExact` | `Bitfield::set` reports an index in range, not a new bit, so a repeated HAVE is counted twice (`session.rs:418`) |
| Swarm, `Behaviours = {"lag"}` | `TasksTracked` | the expiry of an entry and its waiting PeerExited both remove it; the second removal hits the task dialled in between, which runs on untracked (`swarm.rs:142`) |
| Swarm, `Behaviours = {"abort"}` | `SlotsExact` | an aborted session keeps its upload slot (`swarm.rs:230`) |
| Swarm, `Behaviours = {"overlap"}` | `CompletedOwed` | an answer to the announce before clears the event (`swarm.rs:147`) although every tracker may have failed to take `completed` |
| Swarm, `Behaviours = {"late"}` | `StopReachesSessions` | an inbound session that subscribes after the signal never gets it (`inbound.rs:74`), against "Torrent sessions are stopped through their own shutdown signal." (`engine.rs:213`) |
| Dht, `Known <- MCTwiceKnown`, `InfoHash <- MCTwiceInfoHash`, invariant `ClosestExact` | `ClosestExact` | after the second split both halves carry the same prefix length, so `bucket_index` (`routing.rs:176`) looks for a far contact in another bucket than the one it is in; it is stored twice and `closest` returns it twice, against "Up to `count` known contacts closest to `target`" (`routing.rs:153`) |
| Dht, `Behaviours = {"pseudo"}`, `Known <- MCPseudoKnown` | `AnsweredAreAnnounced` | a bootstrap router listed under its placeholder and its real id has two entries with one address; the answers go to the first (`search.rs:129`) |
| Dht, `Known <- MCTwiceAsked`, `InfoHash <- MCTwiceInfoHash`, `Searcher = {n0, n2}`, `Announcer = {n0}` | `AnsweredAreAnnounced` | a search that starts from a table with such a double lists and asks the node twice; both answers go to the first entry (`search.rs:129`) and the second stays in flight to the end |
| Dht, `Behaviours = {"slow"}` | `AnnounceAccepted` | nothing bounds a search by the five minutes of a token secret (`actor.rs:24`); after two rotations the token is refused |
| BlockFetch, the constants of the code (1 piece of 32 blocks of 4 units, pipeline 16, time-outs 5, 60, 30, `ReadChunk = MinBurst = 4`) and `Rates = {1}`, the lowest limit the settings allow | `GoodPeerKept` | blocks take longer than the retry time-out, the repeated requests use up the limit, and a peer that answers everything is dropped as stalled, against "Unchoked peer that delivers no block for this long is considered stalled." (`session.rs:34`); with twice the limit it is kept |
| Dashboard, `Behaviours = {"send"}` | `ClaimsOwned` | a request that cannot be sent leaves its piece claimed (`metadata.rs:315`) |
| Dashboard, `PeersFallSilent` taken out of the property | `MetadataArrives` | time-outs are looked at only after 500 ms without a message (`metadata.rs:321`); a peer that claims a piece and sends anything else more often keeps it for ever |
| Dashboard, `LiesEnd` taken out of the property | `MetadataArrives` | whoever sends bad pieces stays and may send more; each time everybody's work is thrown away (`metadata.rs:95`) |
| Dashboard, `Behaviours = {"size"}` | `MetadataArrives` | the first size counts, right or not, and honest peers are rejected from then on (`metadata.rs:67`) |
| Dashboard, `Behaviours = {"source"}` or `{"deadline"}` | `ShutdownCompletes` | a thread that ended with an error (a torrent that cannot be read, metadata that cannot be parsed, a deadline) answers no StopAll, so its torrent cannot be removed and the window ("Graceful shutdown on window close", `dashboard.rs:1156`) never closes (`dashboard.rs:1166`) |
| Dashboard, `Behaviours = {"slow"}` | `RemovalExact` | the stop waits five seconds (`dashboard.rs:768`) and the files are deleted while the coordinator still writes them, against "awaited on shutdown so the final flush finishes" (CHANGELOG, line 20) |

Seen while modelling, with no property: a stopped metadata fetch leaves its
tracker and DHT helpers running (`dashboard.rs:348`, `metadata.rs:141`); a
deselected empty file is created at a launch when everything else is selected
(`dashboard.rs:399`, against "unselected files are not created", CHANGELOG, line 6);
an announce_peer beyond MAX_PENDING is dropped and counted as made
(`server.rs:143`, `search.rs:218`); Pause is swallowed while files are checked, metadata is
fetched or the mailbox is full, and the button shows it all the same
(`coordinator.rs:188`, `dashboard.rs:772`); endgame waits until `missing` is
empty (`manager.rs:137`); a failed hashing task loses its job (`session.rs:599`).

## 4. Proofs

All theorems hold for every value of the constants under the assumptions named
in the modules: `NumPieces` natural, `MaxHolders` positive, `MaxAvail` natural,
`Selections` a set of pairs of piece sets; for Storage also at least one file,
`FilesOf` defined on the pieces, and `Selections` the ones the files give rise
to; finitely many sessions (Transfer), addresses and tasks (Swarm); pieces with
at least one block and blocks with at least one unit (BlockFetch); any positive
number of files and any bounds on their lengths and on the piece length
(FileLayout); node ids of any width, all different, and positive sizes (Dht). Some
theorems
also exclude entries of `Faults` or `Behaviours`, the ones behind the deviations
of section 3, or sessions that lose events (`session.rs:191`).

| Theorem | Property | Without |
|---|---|---|
| PieceManager_proofs (six) | the run's invariants | – |
| `ImplementsManager`, `NoLossInProgram` | ManagerSpec, no wanted piece lost | – |
| `StorageTypeCorrect`, `AnnouncedTorrentIsDone` | `StorageTypeOK`, `AnnouncedIsDone` | – |
| `FlagsFollowSelection`, `SelectionArrives` | `CurrentFlagsExact`, `SelectionSettles` | – |
| `RecordedSurvives`, `CompletedReadable`, `ServableReadable` | `RecordedIsDurable`, `CompletedIsStored`, `ServableIsStored` | faults open, sync, lazy, hasty |
| `TransferTypeCorrect`, `SessionsImplementManager` | `TransferTypeOK`, ManagerSpec | – |
| `ReservationsAlwaysExact` | `ReservationsExact` | abort, selection changes |
| `AvailabilityAlwaysExact` | `AvailabilityExact` | abort, rehave, more sessions than a counter holds |
| `InterestAlwaysKept` | `InterestKept` | a session that lags |
| `ServableAlwaysAdvertised` | `ServableAdvertised` | a session that lags, check |
| `SelectionAlwaysExact`, `BytesAlwaysInPlace`, `WriteNeverRefused` | `SelectionArithmetic`, `StoredInPlace`, no write is refused | – |
| `StreamAlwaysWhole`, `BlocksAlwaysExact` | `StreamWhole`, `BlocksExact` | – |
| `PieceNeverRejected` | an honest peer's piece passes its hash | – |
| `AnnounceAlwaysCleared` | `AnnounceNeverStuck` | – |
| `CompletedReported` | `CompletedOwed` | overlap |
| `SlotsNeverLeak` | `SlotsExact` | abort |
| `EveryDialTracked` | `TasksTracked` | lag |
| `StopReachesAll` | `StopReachesSessions` | late, lag |
| `ClaimsAlwaysOwned` | `ClaimsOwned` | send |
| `RemovalIsExact` | `RemovalExact` | slow |
| `DhtTypeCorrect`, `TablesOrdered` | types and shape of the tables, `TableOrdered` | – |
| `AnnouncesAccepted` | `AnnounceAccepted` | slow |
| `AnswersAnnounced` | `AnsweredAreAnnounced` | pseudo, a searcher's table with a double |
| `SmallTablesAnnounced` | `AnsweredAreAnnounced` | pseudo, a searcher's table that was split twice |

**PieceManager_proofs.** `NoWantedPieceLost` is not inductive: to know that
`return_work` or the purge loses nothing one must know that a completed piece
has no holder and that a queued one is not in flight, and to know that
`mark_completed` counts right one must know the exact values of the counters.
The inductive invariant is

    ManagerInv == TypeOK /\ NoWantedPieceLost /\ MissingIsUnassigned
                  /\ CompletedIsSettled /\ CountersExact

It is established by `with_selection` (`StartEstablishesInv`) and preserved by
each method (one lemma per method, put together in `NextPreservesInv`).
`DoneIsExact` needs one fact about finite sets, that a subset of the same size
is the whole set (`SameCountSameSet`).

**Storage_proofs.** `ImplementsManager`: every step of Storage is a step of the
manager or leaves it alone. A stop or crash is a restart of the manager, and
what a launch restores are pieces, which needs `Carried` (the resume file, the
queued messages and the handed-out pieces mention only pieces); so the
invariant is `StorageInv == ManagerInv /\ Carried`. `NoLossInProgram` follows.
It holds with every fault switched on.

Its second part, what survives, has three layers, each inductive relative to the one before.
`TypeInv` adds the types of the disk and what `has_completed` means.
`SettledInv` says that the last of the queued SetSelection messages, or else the last
change accepted, carries `current_flags`, and that these are the chosen files as soon as
no command waits; it holds whatever is refused in between. `SelectionInv`, for what
follows, says that the queued messages form a chain from the coordinator's selection
to `current_flags`; an edit may arrive anywhere along it. `DurableInv` says which segments of which pieces are in the cache or durable,
and that a segment that is only in the cache belongs to a dirty file with a
handle. That is what makes flush-before-save enough: `RecordedIsDurable` speaks
of the disk after a power loss, which no single handler sees.

**Transfer_proofs.** `TransferInv` gives types, the manager's invariant, and that
messages name pieces where the handlers expect one; with it each handler is a
step of the manager. The counting properties relate a number of the coordinator
to sets of sessions and of messages, so the proofs count messages of a kind at
the ends of the mailbox (`Count`, with lemmas for appending and taking one).
`ReservedInv` adds that a session asks once at a time (`AskedOnce`), that a
session that is not up has no job, that an event naming a piece is true, and
that nothing is fetched during the check. `AdvertInv` says that the messages
about one session and one piece alternate between coming and going (`Alternating`);
without this a saturating counter could lose an increment.
The event properties assume `NoLag`, room for two more events in each session's
queue: then `Informed` and `InterestOwed` say what the events still on their way
will do to a session, whatever the order of connection, reply, greeting, broadcast and
handling.

**FileLayout_proofs.** The offsets are sums over the files before, which no prover
here can reason about; `plan_files` builds them one file at a time, and so does the
model. `BackToBack` says of the files planned so far that they have their lengths,
lie in order and leave no byte out; it is inductive, and with two facts about
division (`DivCompared`) it gives `SelectionArithmetic`. `StoredSoFar` extends
`StoredInPlace` to the middle of a piece: the bytes `Dealt` with are those of the
pieces before and the first `written` ones of this piece. A turn writes to the one
file its first byte lies in (`LocateExact`) and not past that file's end, so it adds
its bytes there and disturbs no other file.

**BlockFetch_proofs.** `FetchInv` has three parts. `Whole` says of each unit of the
stream where the message it belongs to begins and ends, so appending, moving and
removing messages is arithmetic and needs no induction along the stream.
`Exact` says that an assembler counts its blocks once and that they are of its
piece; every block asked for is one of the piece, because a set of blocks has a
block at each place of its order (`NthBlock`, from the fact that a set of natural
numbers has a least element). `PieceNeverRejected` follows because `received`
reaches the length of the piece only when no block is missing (`SizeComplete`).

**Swarm_proofs.** One small inductive invariant for each property. `AnnounceOwed`: while
the flag is set, an outcome is waiting or an announce is still running.
`CompletedKept`: until a tracker took `completed`, it is what every running announce
carries. `SlotsCounted`: `used` is the number of holders, and holders are up.
`TrackedInv`: a waiting PeerExited is the only one for its address, whose entry still
names the ended task. `StopInv`: dialled tasks are aborted by the stop, the others
have subscribed before the signal.

**Dashboard_proofs.** `ClaimsInv` ties the shared claims to what each metadata peer
has in flight; `RemovalInv` follows the thread, its queues and the coordinator
from the button to the deleted files: a thread that reports its end has nothing
left to do, and is believed only then.

**Dht_proofs.** First what the lists are: a set in order holds each member once, at
its rank (`InOrderLists`, by counting the members before), so a sorted list holds the
contacts of the table, closest first (`SortedList`), and a filtered one keeps the
order (`PartKeeps`). That XOR distance is a total order is proved from the first bit
in which two ids differ (`CloserOrders`). A recursive function on `0..n` exists
because a longest partial solution can be extended (`RecursionExists`), and what each
of its steps keeps holds at the end (`RecursionStays`); so every insertion keeps the
shape of a table (`Tables`): bucket `i` holds contacts that share `i - 1` bits with
the own id, from its split, or `i`, from after the next split, because both halves
get the same prefix length; and no bucket holds an id twice. `TableOrdered` follows;
that no *table* holds an id twice follows only for two buckets
(`SmallTableDistinct`).

`TokenInv` says which tokens may still be around: of the current secret, or of the
one before if their holder was at work at the last rotation (`GoodToken`), in short
lists, answers and announces alike; and that who rests waits for no answer.

`SearchInv` relates a search's short list, its tasks, its transactions and the
answers it got (`Consistent`): no two tasks ask one node or share a transaction, a
transaction belongs to the node its task waits for, an entry in flight has a task,
a task's entry is in flight or was driven out by closer ones, and a node that
answered has its entry, with a token, or was driven out. The step that is hard is
that who was driven out never comes back (`MergeOut`): the list is full of closer
contacts, and a merged list holds the closest of more. At the end nothing is in
flight, so every entry is settled, and a willing entry beyond the first
`MaxAnnounced` has that many before it (`FirstOfMany`). The hypothesis on doubles is
needed, see section 3; `Dht.cfg` satisfies it, and with `BucketSize = 2` also that
of `SmallTablesAnnounced`.

Only model-checked: liveness under fairness (`DownloadFinishes`, `AllWritten`,
`PiecesAssembled`, `MetadataArrives`, `ShutdownCompletes`), which the prover does
not support; and `PeerFound`,
which is a statement about the network as a whole: it depends on who knows whom,
and fails where two searches can end at different nodes. For `AllWritten` the safety half is
proved: no write is refused and each turn gets on (`WriteNeverRefused`).

## 5. Not modelled

Bit packing, bencode and JSON, message encodings, TLS, hashing (a hash matches
or not), drawing, settings, logging, progress figures, telemetry. Times are
abstracted, except in BlockFetch: a time-out may fire at any moment its
condition allows.

* Port mapping: one sequential loop around a router's answers.
* Disk: an error `tokio::fs::File` reports after the write was accepted; the
  steps of `atomic_write` (a save is atomic); a Storage launch whose files cannot
  be opened (`dashboard.rs:681`; Dashboard has it).
* Sessions: serving requests (reads and sends, no state), the extended
  handshake, the idle time-outs of seeding sessions, sending peer lists.
* Swarm: torrents without trackers, the packets of the trackers, several
  torrents sharing the permits of the engine.
* Dht: the second address family, expiry of stored peers, nodes that do not run
  this program.
* Shaper: several sessions drawing on one bucket, and the writing side.
* Dashboard: several torrents (they share only the window), a torrent without
  pieces, which returns without an answer (`dashboard.rs:456`), adding torrents
  and the session store's file.

## 6. Plan

What remains is proof.

1. BlockFetch: for which limits and time-outs the retries of an honest peer cannot
   delay a block beyond the stall time-out (`GoodPeerKept`, which no run checks
   because the code's own constants break it).
2. Dht: conditions on who knows whom under which `PeerFound` holds.
