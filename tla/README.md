# Synapses in TLA+

Synapses is a daemon that keeps a graph of a code base current and answers the
questions of coding agents from it (MCP tools over a socket). This directory
holds TLA+ models of the parts of it where goroutines, files, SQLite statements
and crashes interleave, the TLC configurations that check them on small
instances, and proofs, checked by TLAPS, of the most important results for
every instance. Line numbers are those of the Go sources under `src/`.

To check everything by hand, in this directory:

    tlc -workers 2 -config MCWatcherPipeline.cfg MCWatcherPipeline
    tlapm WatcherPipelineProofs.tla

and so on for the runs and modules of the tables below.

## 1. Inventory

The implementation is about 136,000 lines of Go without tests. More than half of
it (language parsers, tool handlers that format answers, benchmarks) is a matter
of examples and tests. What follows lists every part with its state, its
operations, the parts it touches, what is hard in it, and what makes it correct.

### Indexing a project

| Part | State | Operations | Talks to | Hard | Correct when |
|---|---|---|---|---|---|
| **Watcher pipeline** `internal/watcher/watcher.go` | fsnotify events, debounce timers, `workCh`, four parse workers, `parseCh`, the batch, `reparseMu`, `fileHadParseErrors` | handleEvent, debounce, timer callback, prepareParseResult, mergeLoop, applyBatch, remove path, full re-walk | graph, store, brain scheduler | two workers with two contents of one file; re-armed timers; herd protection with a re-walk that may fail; discarded reads; full channels | no change is lost but to an I/O error; at rest the graph mirrors the disk; a content with syntax errors waits for a second one in a row |
| **Watcher lifecycle** same file | WaitGroup, `stopCh`, `stopped`, timers, restarts of the loop | Start, Stop, trackGo, loop with recover, reloadConfig | all goroutines of the watcher, the store that is closed after Stop | counting goroutines on every path, panics, Stop beside everything else | Stop returns, and after all work has ended |
| **Cold start and cache** `cmd/synapses/main.go`, `internal/parser/parser.go`, `internal/store/store.go` | `nodes`, `file_hashes`, `meta` tables; the graph in memory | loadOrBuildGraphWithStore, smartReindex, IncrementalReindex, SaveGraph, SaveGraphDelta, SaveFileMtimes, persistAsync | parser, store, watcher | crash or error between two transactions; files that cannot be read or parsed; persist goroutines in any order; edits while the daemon is down | a start that skips a file has its current nodes |
| **Graph and columnar index** `internal/graph` | nodes, edges, file index, stable ids, an asynchronous columnar snapshot | Add, RemoveFile, RebuildIndex, NodesForFile, MigrateStableID | watcher, handlers, store | readers fall back on an index older than the maps | a reader after a batch sees the batch; stable ids stay unique |
| **Call-site merge** `applyBatch` phases 0–3, `internal/resolver` | stored call sites, resolved CALLS edges | preload, filter by invalidation set, re-resolve, store | graph, store | call sites read before a removal and written after it | no CALLS edge from or to nodes that are gone |
| **Language parsers** `internal/parser` | none | file bytes to nodes and call sites | pipeline | grammar corner cases | matter of tests |
| **Resolver, data flow, name matching** | none | graph to edges | pipeline | heuristics | matter of tests |
| **Traversal, metrics, graph cache** | cached answers | traversal, PageRank, Get/Put/Invalidate | handlers | an answer computed before an invalidation is put after it | cached answers are not older than the last invalidation |

### Serving agents

| Part | State | Operations | Talks to | Hard | Correct when |
|---|---|---|---|---|---|
| **Plans and tasks** `internal/store/tasks.go`, `internal/mcp/task_tools.go` | `plans`, `tasks` tables | CreatePlan, GetPendingTasks (claims), UpdateTask, findNewlyUnblocked, checkAndCompletePlan | agents | statements of two agents' calls interleave; an error or a crash between them | a finished plan is completed, once; every unblocked task is announced; listing steals nothing |
| **Sessions** `internal/store/sessions.go`, `internal/mcp/server.go`, `handlers_session.go`, `session_memory.go` | `sessions` rows, their last activity; `synapsesSessions`, from a connection to its row | GetOrResumeSession with its two phases, registration, tool calls, EndSession, GetStaleSessions, pruning, restarts | MCP server, background sweeps | requests of several connections, and concurrent ones of the one key all HTTP clients share, beside sweeps and a restart that reuses connection ids | a window of the socket that is at work keeps its session to itself; one live session per connection and agent |
| **Memories, episodes, messages, work ledger** | tables | one statement each | handlers | decay formulas | matter of tests |
| **Vector indexes** `internal/store/hnsw_index.go`, `memory_embeddings.go`, `memories.go` | HNSW graph, rebuild flag, queues of pending adds and deletes, the saved file | rebuild, add, delete, batch delete, migration, save, load, search | store, embedder | adds and deletes during a rebuild, unreadable rows and panics of the library, two rebuilds, a restart with an older file | the index finds every live embedding; what was deleted does not come back; a rebuild never keeps the flag |
| **Rate limiter, loop guard** `internal/mcp` | sliding windows per session | check, record, clearSession, gcSweep | every tool call | time windows, forgotten sessions | limits hold per window; a sweep loses no budget |
| **Approvals** `internal/mcp/approval.go` | a file of tokens with an expiry | request, approve, consume | command line, server | two processes on one file | a token is used once and in time |
| **MCP server and handlers** `internal/mcp` | session-local caches | the MCP tools | everything | few; they read and format | matter of tests |
| **Injection scanner, secrets** | none | text to findings | handlers | patterns | matter of tests |

### The brain and telemetry

| Part | State | Operations | Talks to | Hard | Correct when |
|---|---|---|---|---|---|
| **Task scheduler** `internal/brain/scheduler.go`, `pulse.go` | bounded keyed queue, `drainCh`, `done`, health level | Submit, add, drainLoop, runEligible, drain, Stop | watcher, MCP server, model manager | lost wakeups, eviction, replacement by key, refusal by the memory gate | bounds, one task per key, P1 kept, nothing waits for ever, Stop returns |
| **Models and enrichment** `internal/brain/*` | answers cached in a store | prompts | scheduler, store | latency and failure of a model | matter of tests |
| **Pulse collector** `internal/pulse/collector` | ring buffer, early-flush flag, WaitGroup | Record… (enqueue), early flush, tick, transaction and its fallback, Stop | every tool call, telemetry store | early flush beside the ticker's; a failing transaction; Stop beside all of it | every event is in one place, or written once, or counted as given up; Stop flushes and returns |
| **Telemetry store and aggregation** `internal/pulse/pstore`, `aggregator` | SQLite tables | one statement per kind of event, aggregate queries | collector, daemon | none | matter of tests |
| **Federation** `internal/federation` | resolved projects, drift reports | resolve, track, enrich | other projects' stores | read-mostly | matter of tests |
| **Embedding clients** `internal/embed` | model handle | Embed | indexes | floating point | matter of tests |

### Processes

| Part | State | Operations | Hard | Correct when |
|---|---|---|---|---|
| **Project registry** `cmd/synapses/registry.go`, `daemon_admin.go` | open projects, singleflight, the cap | GetOrSet, Delete, reindex, Close | opening beside deleting, reindexing and closing; the cap checked late | one live instance per path, none forgotten; the cap holds; every caller is answered |
| **Daemon** `cmd/synapses/daemon*.go` | sockets, HTTP handlers | serve, warm, stop | wiring | covered by what it drives: registry, sessions |
| **Proxy and command line** `cmd/synapses` | processes and sockets | start, restart on a new version, bridge | other processes | left out |
| **Configuration, skills, web cache, git, benchmarks** | files | read, fetch | none | left out |

How they interact: the watcher's merge goroutine is the only regular writer of
the graph, besides cold start; it hands work to the store (`persistAsync`), to
the brain scheduler and to the embedding pass through goroutines it counts, so
that `Stop` can wait for them before the store is closed. Handlers read the graph
and write the store. The tables of tasks and sessions, and the memories behind
the vector index, are the state that agents share by writing; the registry is
what the daemon's own goroutines share.

## 2. The modules

| Module | Models | State variables and what they are in the code |
|---|---|---|
| `WatcherPipeline` | the way of a change from the disk to the graph | `disk`/`edits` the file system; `events` fsnotify's channel; `timer` entries of `w.timers`, `stray` armed timers no longer listed, `due` callbacks waiting for `w.mu`, `sending` callbacks blocked on `workCh`; `workCh`, `worker`, `parseCh`; `phase`, `batch` of mergeLoop; `graph`, `hadErrors`; `walks`, `walkTodo`, `walkRead` the herd protection's re-walks before and after they have listed the tree; `ioErrors` a bound; `delivered`, `tainted`, `erring`, `relies`, `dropped` history |
| `WatcherLifecycle` | Start, Stop, WaitGroup, panics, reload | `wg` the counter, `stop`, `loop` and `merge` program counters, `work`/`parsed` channel lengths, `reparse` the holder of `reparseMu`, `jobs` goroutines of trackGo, timers as above; `miscount` history |
| `ProjectCache` | runs of the daemon over one SQLite file | `disk`; `proc`, `how`, `todo`, `fresh` the phases of a start; `graph`, `seen`, `jobs` the running daemon; `rows`, `hashes`, `saved` the tables; `missed`, `torn`, `unread` history |
| `BrainScheduler` | the deferred task queue | `queue` with slots, stamps and times; `signal` is `drainCh`; `done`; `caller` the Submit calls; `drainer` the drain goroutine; `health`, `now`; `steady` history |
| `WorkSet` | what those who Submit may rely on: abstract specification that `BrainScheduler` implements | `waiting`, `running`, `offered` |
| `AgentTasks` | plans and tasks shared by agents | `status`, `deps`, `assigned`, `completed` the columns; `call` the statements an agent's call still has to run; `notices`, `heard`, `lost`, `cut` history |
| `HnswIndex` | the index over memory embeddings | `memory`, `row` the tables; `index`, `rebuilding`, `adds`, `dels` the fields `hnswMem…` guarded by `hnswMemMu`; `file` the saved index; `client` goroutines that have written a row and still owe the index call; `builder` the rebuilds with the graph each has built; `model`, `opening`; `faults` bounds; `missed`, `suspect`, `told` history |
| `PulseCollector` | the event buffer of the telemetry | `ring`, `head`, `tail`, `count`; `early` is `earlyFlushRunning`; `writer` the flush loop and the early flush with their batches; `leaving`, `wg` the WaitGroup; `stop`; `rows`, `dropped`, `failed` where an event ended; `beforeStop`, `drained` history |
| `DropOldestQueue` | what the users of the ring may rely on: abstract specification that `PulseCollector` implements | `queue`, `drained` |
| `Sessions` | session records and the connections that use them | `session` the rows with agent, connection, age and state; `entry` is `synapsesSessions`; `handler` where a request is and the row it holds; `taken`, `quiet` history |
| `ProjectRegistry` | project instances of the daemon | `projects` the map; `instance` the life of each; `flight` singleflight per project; `caller`; `daemon` |
| `MC…` | values of the constants for TLC | |
| `WatcherPipelineProofs`, `BrainSchedulerProofs`, `AgentTasksProofs`, `ProjectCacheProofs`, `HnswIndexProofs`, `PulseCollectorProofs`, `SessionsProofs` | the theorems of those modules | |
| `LifecycleProofs` | the theorems of `ProjectRegistry` and of `WatcherLifecycle`, of which every instance in the registry has one | |

A step of a model is what the code does without letting another goroutine see
the middle of it: a critical section of one mutex, one channel operation, one
SQL statement or transaction. `PROJECT.json` maps every definition to the lines
it stands for. The abstractions:

* `WatcherPipeline`: the content of a file is a version number, its inode another
  one; the nodes of a file are the set of versions they were parsed from, since a
  re-walk adds nodes without removing any. A constant says of each version
  whether it parses, has syntax errors, or makes the parser fail. `reparseMu` is
  the phase "apply"; the phase "prepare" is applyBatch before it takes the lock for good.
  A re-walk lists the tree in one step or aborts, and reads each file or fails to. The persistence done after a batch is `ProjectCache`'s
  subject, its goroutines are `WatcherLifecycle`'s.
* `WatcherLifecycle`: no contents; channels are lengths, several trackGo
  goroutines of one place are one or none. Start is called once and before Stop: the code
  does not check it, its one caller keeps it (`daemon_serve.go:2364`).
* `ProjectCache`: a version is also the mtime (no two contents share one); the
  watcher merges a file's current version in one step. A file that no walk can read or
  parse has no nodes (`unread`). A full build that cannot list the tree does not open the
  project, which is the step `Crash`.
* `BrainScheduler`: closures are their key, time of submission and slot. A run
  of a task is one step. Without a SystemPulse the code runs the task at once;
  that fallback is left out, and so are P0 calls, which bypass the queue.
* `AgentTasks`: the statements of UpdateTask and its helpers are steps of their own;
  columns that no condition reads are left out. Every statement after the first may fail. A listing that finds nothing to
  claim only reads, and is no step.
* `HnswIndex`: a vector is the embedding model it came from, a search a pure read.
  Stale and expired memories are both "hidden": the index treats them alike. The
  node index in the same file repeats the code under other names.
* `PulseCollector`: an event is its number in the order of the ring's lock. A
  transaction holds the store's mutex from `BeginBatch` to its end and is one step,
  with any set of events refused; the fallback writes one event per step.
* `Sessions`: a transaction is one step, a critical section of the map another. A
  connection of the socket handles one request after the other (`serveMCPConn`); all
  requests over HTTP have the key "stdio" (`server.go:416-421`) and run side by side, each
  client of the model being one of them. `Disconnect` lets a key come back at once, the
  code's counter only after a restart: the model allows more. Time is the age of `last_seen_at`, which stops counting past the
  retention, where nothing tells ages apart. Ids are drawn from a finite set, so
  that a pruned row's id comes back; the code's are random.
* `ProjectRegistry`: singleflight is its documented behaviour, one leader per key
  until it lands. What an instance does while it is open is left to the other modules.

Outside the sources, and modelled from how they are used: the file system and
fsnotify (delivers every event, in order), the Go runtime's timers and channels,
SQLite transactions (atomic, may fail), `singleflight`, the hnsw library (may panic),
and the operating system (may kill the daemon at any step of `ProjectCache`,
`AgentTasks`, `HnswIndex` and `Sessions`).

## 3. What the runs show

Bounds are the constants named "bound" in each module. `violation` runs check one
statement that a comment of the source makes and the code does not keep.

| Run | Instance | Shows |
|---|---|---|
| `pipeline` | 2 files, 2 workers, channels of 1, 3 contents in all (the first with syntax errors, the second clean, the third with errors), herd protection from the first timer on, 2 I/O errors | `NoLostUpdate`: a present file whose content has not reached the merge goroutine is held by a stage, unless an I/O error fell on it; `MirrorAtRest`: with nothing pending the graph mirrors the file, unless two of its results overlapped or its content was lost to an I/O error; a content with errors is there if it was the second in a row |
| `pipeline_live` | 2 files, 1 worker, 3 contents in all (the first unparseable), herd at 1 timer, 1 I/O error, fair | `EventuallyDelivered`, with the re-walk on every second file, also one that aborts |
| `stale_overwrite` (violation) | 1 file, 2 workers | `PresentFilesCurrent` fails: the older of two results is merged last and stays |
| `lifecycle` | a source file and `synapses.json`, 1 worker, 3 events, 2 panics, fair | `WaitGroupCounts`, `NoAddFromZero`, `StopDrains`, `NobodyStuck`: no deadlock over `reparseMu` and the channels; `StopReturns`, `BacklogDrains` |
| `lifecycle_early` (violation) | the same, 2 events, no panic | `StopWaitsForAll` fails: a timer re-armed after it fired is counted once and done twice |
| `project_cache` | 2 files, 3 contents in all, 3 starts | `TypeOK`, `LoadMirrorsDisk` and `SkipIsSound` over any crashes, failed saves, unreadable files and orders of persist goroutines |
| `scheduler` | 4 keys of 2 priorities, queue of 2, 3 submissions, fair | `QueueInvariant`, `NoWakeupLost`, `P1NeverEvicted`, `EveryTaskLeaves`, `StopReturns`; `QueueIsWorkSet`, the refinement of `WorkSet` |
| `tasks` | 2 agents, plans of 2 and 1 tasks with any dependencies, 3 calls | `PlanCompletes`, `CompletedOnce`, `UnblockReported`, `CompletesWhenTerminal`, `ListingNeverSteals` |
| `hnsw` | 2 memories, 2 clients, 2 rebuilds, a queue of 1, 3 writes, 1 panic, 1 restart | `IndexCoversRows`: an installed index finds every live embedding; `DeletedStaysOut`; `RebuildEnds` |
| `sessions` | 2 clients over HTTP, 1 connection of the socket, 1 agent, 2 rows, windows of 2 (reconnect) and 4 (hibernate), stale threshold 0, retention 3 | `SharedOnlyAfterIdling`: two keys share a session only after one of them was idle; `OneLiveSession`; `LiveSessionsKept` |
| `pulse` | ring of 3, 6 events | `CollectorOK`; `EveryEventOnce`; `StopFlushes`; `StopEnds`; `RingIsQueue`, the refinement of `DropOldestQueue` |
| `registry` | 3 projects, a cap of 2, 2 callers, 3 instances | `NoneForgotten`; `CapHolds`; `CallsReturn` |

Why the bounds are enough to be interesting:

* Two files and two workers are the least that let results of one file overlap
  while another one fills a channel of one place. Three contents with errors in the first
  and the third hold back the first, reset the flag with the second and hold back the third
  again; unparseable contents are in `pipeline_live`, whose first version is one. A herd threshold of 1 makes every second timer
  trigger the re-walk. With two I/O errors a re-walk aborts and a re-parse of the same
  or of the other file fails too. Two re-walks listed one after the other while both are
  pending (the branch of `WalkAborts` that leaves their files to the second one) need more edits
  than that and are covered by the proofs only.
* One worker is enough in `WatcherLifecycle`, where workers differ in nothing;
  three events reach a timer, its re-arming, and the herd protection or a removal
  beside them; two panics exhaust `MaxRestarts` = 1.
* Three starts allow a crash during a save, an offline edit, and the start that
  would skip the file.
* A queue of two with four keys is full with a new key arriving, in every
  mixture of priorities. One goroutine submits in the run, which is fair and so needs
  its states small; the theorems are about any number of them. The clock has two values and a TTL of 0: a task is
  younger or older than its TTL, which is all the code asks.
* Three calls are two listings that race and an update beside them, or the two
  updates that finish a plan and the one that finishes the task depending on it.
* With two clients and two rebuilds an add and a delete of one memory meet a rebuild
  in either order, on a graph read before or after either; the queue of 1 is full as
  soon as a second add arrives. Three writes embed a memory, delete it and embed it or
  the other one. A panic (or one rebuild that skips rows) and a restart each come once, at
  any step.
* Two clients of HTTP share their key and its entry, the connection of the socket is a key
  beside them: one session is handed over or shared, the second row is the one a superseded
  session leaves behind. An age is 0 (fresh, and not stale), 1 (stale, within
  the reconnect window), 2 (on its edge), 3 (idle, open to takeover) or 4 (past the hibernate
  window and the retention). The stale threshold is below the reconnect window here, which
  the configuration allows (`config.go:356-373`) and the properties have to bear; the
  theorems hold for any windows.
* A ring of 3 wraps around and overflows, and its early flush is due with the second
  event (3*80/100 = 2); six events fill it twice, while the first batch is still being written.
* A cap of 2 is reached while two flights for other projects are under way; three
  instances allow one project to be opened, deleted and opened again beside another.

Runs disable the deadlock check where the system may rest: no event, no
submission, no call. Symmetry is only used without liveness, over constants no
action or property names.

Fairness. A goroutine that can run does run, timers fire, the 10 s ticker of the
drain goroutine ticks, a started call finishes: weak fairness of those steps.
Strong fairness is assumed where goroutines compete for a channel or a mutex,
which Go serves in arrival order (channels) or hands to a starved waiter
(`sync.Mutex`), and for the case of `select` that stays ready while others
come and go, since `select` picks at random. Nothing is assumed of
editors, agents, panics, Start and Stop, health samples and the memory gate.
In `HnswIndex` a rebuild that was called takes its steps (`WF`), and clients owe
nothing to liveness. `PulseCollector` has `WF` for ticks and writes, and `SF` for the
final flush, since the loop's `select` picks at random between `stopCh` and a tick.
`ProjectRegistry` has `WF` for the steps of a flight (an initialisation ends or fails)
and of closing, and `SF` for a caller that enters singleflight, whose mutex is handed to a
starved waiter. `Sessions` has safety properties and one action property only.
`EveryTaskLeaves` has the premise that the gate lets some cycle pass
again and again; `StopReturns` of the watcher excludes by name the state in which
a handler panicked while it held `reparseMu`.

History variables. `tainted` marks a file two of whose results (or a result and a
removal or re-walk) overlapped, `dropped` one on whose current content an I/O error fell,
so `MirrorAtRest` says that these are the only ways to a stale file; `stale_overwrite`
shows one of them. `relies` holds the files whose re-parse was left to re-walks that have not
listed the tree: it is what an aborted one takes away. `erring` counts the results with
errors in a row, beside the code's own flag, so that `MirrorAtRest` does not rest on it.
`miscount` counts re-armed timers without an Add; `WaitGroupCounts` says it is the only
way the counter is wrong. `torn` and `cut` mark what a crash or an error split, `lost` the
announcements that went with a failed call, `unread` the files the last walk over them could
not read. Each is cleared as soon as the code repairs the matter: `dropped` with the next
change, `torn` and `unread` with the next parse, `cut` with the next check of the plan, `lost`
with the next update of a dependency. In `HnswIndex`, `missed` names the memories whose add a
full queue or a panic swallowed, whose row a rebuild could not read, or that came back from
expiry, until the next rebuild begins or they are added again; `suspect` says that the index
came from the file or from overlapping rebuilds; `told` names the deletions that reached the
index without a panic. In `Sessions`, `quiet` remembers which
key was idle for longer than the window with which row, and `taken` the rows
another key resumed while they were in use. `beforeStop` and
`drained` of `PulseCollector` are what Stop has to answer for and what the abstract
queue shows.

## 4. What is proved

Every theorem is for all values of the constants under the assumption named in the
module, and by the same argument: a strengthening of the property is shown to
hold initially and to be kept by every action, one proof step per action.

`WatcherPipelineProofs` (`PipelineAssumption`: finite set of files, capacities and
threshold at least 1, any quality of each version):

* `TypeCorrect == Spec => []TypeOK`. `TypeOK` is inductive as it stands. It says
  among others that no count of timers, callbacks or re-walks goes below zero, which
  is where the guards of `TimerFires` and `CallbackRuns` are used.
* `NoUpdateIsLost == Spec => []NoLostUpdate`. With `TypeOK` and `RemovalsFollowed` it is
  inductive: for each file, every step keeps a stage that will still read it (`WillRead`) or a
  result with its current content under way (`OnItsWay`), or delivers that content, or is
  an I/O error on it (`dropped`). The removal of a file that exists again is followed in the queue by a write
  event of it (`RemovalsFollowed`). An event becomes a timer, or leaves the file to a
  re-walk (`relies`); a timer a callback, whether or not it is still listed; a callback
  an entry of `workCh`; that a read, whose inode check can only fail when the file was
  replaced, and then the event of that is still to come or has armed a timer; and so on to
  the batch. A re-walk that lists the tree reads the file, and one that aborts takes away what
  relied on it, unless another one is still to list. `CoverageParts` splits the
  property into what one worker holds (`Holds`) and what the daemon keeps besides
  (`Pending`), so that a step of one worker need not look at the others. The steps on the
  channels rest on `RangeOfAppend`, `RangeOfTail` and `RangeOfEmpty`.
* `MirroredAtRest == Spec => []MirrorAtRest`, by `Settles` for each file beside
  `NoUpdateIsLost`. `MirrorAtRest` speaks of quiet files only
  and is far from inductive. That a quiet file's content was delivered is
  `NoUpdateIsLost`; `Settles` says of every untainted file that one worker or result at most
  has a version of it, so that what is delivered last is the newest, that a version with
  errors is in the graph only as the second in a row, which is where the code's
  `hadErrors` is tied to the count `erring`, and that the nodes of an absent file have a
  removal coming. `Undisturbed` is for the steps that touch nothing of the file.

`BrainSchedulerProofs` (`SchedulerAssumption`: any keys, priorities, callers, capacity and
lifetimes):

* `InvHolds == Spec => []Inv`, with `Inv == TypeOK /\ QueueInvariant`; `TypeCorrect`
  and `QueueIsSound` follow. The two are proved together, since the bound of the queue
  needs tasks that are records and a slot needs a finite queue. What `add` does is in
  `RefreshKeepsQueue` and `InsertKeepsQueue`, on the cardinality theorems of the
  library; `drain` needs `SmallerQueue`.
* `P1Kept == Spec => P1NeverEvicted`, an action property, from `Inv`: a refresh
  puts in a task of the same key, an eviction takes a P2 task, a drain hands
  the task to the batch or finds it expired.
* `WakeupsKept == Spec => []NoWakeupLost`.
* `SchedulerIsWorkSet == Spec => QueueIsWorkSet`, the refinement of `WorkSet`. Queue and
  batch map to the pieces of work they hold; a submission counts once the queue took or
  dropped it, so that a call that has built its task and not queued it is no step of
  `WorkSet`. The mapping needs two invariants beside `Inv`: `BatchApart` (no batch outside
  its run, one task for each key in it) and `CallsApart` (no two calls with one number).
  `AddTakes` and `DropTurnsAway` map the two outcomes of `add`; they compare the
  cardinality of the queue with that of its pieces (`OnePieceEach`, a bijection since the
  keys differ). Everything else maps to `Hand`, to `Finish` or to a stutter (`StepIsWork`).
* `RunsOnce`: no submission is in the queue and in the batch, and none that the queue took
  or dropped comes back. It is proved of the steps of `WorkSet` (`WorkGoes`) and holds of
  the scheduler by the refinement.

`AgentTasksProofs` (`TasksAssumption`: any agents, tasks, plans and number of calls):

* `TypeCorrect`, with what is known of a call in each of its stages in `CallKinds`.
* `PlansComplete == Spec => []PlanCompletes`. Inductive with `TypeOK`: a step that
  makes a plan terminal leaves its own check still to come, no step of another agent
  ends that call, and the check completes the plan or fails, as does every query before
  it; then the plan is in `cut` until a check of it succeeds.
* `PlanCompletedOnce == Spec => []CompletedOnce`, by the stronger
  `ReportedWhenCompleted`: a plan was reported as often as it was completed, 0 or 1
  times.
* `CompletesSoundly` and `ListingsStealNothing`, the action properties
  `CompletesWhenTerminal` and `ListingNeverSteals`, from `TypeOK`.
* `UnblocksReported == Spec => []UnblockReported`: the announcement of an unblocked
  task is made, or still to come in a call that nobody else's step ends, or `lost` with a
  call that an error or a crash ended while it owed it (`OwesTasks`, `LossTypes`).

`ProjectCacheProofs` (`CacheAssumption`):

* `TypeCorrect`, and `CacheIsKept == Spec => []CacheKept`, of which
  `SkipsAreSound == Spec => []SkipIsSound` and
  `LoadedGraphMirrorsDisk == Spec => []LoadMirrorsDisk` are consequences. Both properties
  speak of one phase of a run and are made true in another, so `CacheKept` has a part
  per phase: between runs (`Resting`), while files are visited (`Loading`,
  `Walking`), between the two saves (`Walked`), and while the watcher runs (`Live`). Its
  centre is `PastOnly`: nothing stored or heard of a file is newer than the file, so an
  edit makes the stored mtime obsolete for good (`ChangeUnmatches`); and in `Live`, that
  every persist goroutine writes for a file that the next start parses again anyway, so
  their order cannot matter (`JobSteps`). A walk that fails on a file and records it all the
  same leaves it without nodes and in `unread` (`Recorded`), which `WalkSteps` shows of each
  way a walk comes across a file or misses it.

`HnswIndexProofs` (`HnswAssumption`):

* `TypeCorrect`; `RebuildsAreLone == Spec => [](TypeOK /\ DeletedAreGone /\ LoneRebuild)`:
  a memory whose deletion the index has queued or was told of does not come back, and unless overlaps were noticed (`suspect`) one rebuild
  is between its critical sections at most, holds the flag, and no index is installed.
* `DeletedStaysOutEver == Spec => []DeletedStaysOut`, by `DeletionsQueued`: while a queued
  add or a finished graph still holds a deleted memory, its deletion is queued too, unless a
  panic ate it (then it is not in `told`).
* `IndexCoversRowsEver == Spec => []IndexCoversRows`, by `GraphCovers`: what a finished
  graph lacks is in the queue of adds, or in `missed`, where skipped rows and entries go.
  `ReplayIs` says what the replay makes of graph and queues when some of its entries
  panic, from `LastExists` and `QueueFacts` on queues; `ClientEffects` and `BuilderMoves` sum
  up the steps that are not a replay.
* `FlagIsOwned`, the part of `RebuildEnds` that is not about fairness: the flag is never set
  without a rebuild that is still to clear it.

`PulseCollectorProofs` (`CollectorAssumption`: any capacity at least 1, any number of events):

* `CollectorCorrect == Spec => []CollectorOK`.
* `RingRefinesQueue == Spec => RingIsQueue`: the ring with head, tail and count
  implements `DropOldestQueue` under the mapping `queue <- Contents`. Initial states
  map to initial states, an enqueue to `Put` or `PutAndTakeAll`, a flush to `TakeAll`, every
  other step to a stutter; the arithmetic modulo the capacity is in lemmas on `Contents`.
* `EveryEventAccounted == Spec => []EveryEventOnce` by `Acc`, and
  `StopLeavesNothing == Spec => []StopFlushes` by `StopInv`: what Stop still has to wait for
  is held by a writer the WaitGroup counts.

`SessionsProofs` (`SessionsAssumption`):

* `TypeCorrect == Spec => [](TypeOK /\ HeldIsRegistered)`: beside the types, a request of a
  connection of the socket holds the row its key is mapped to, but for a session_init that has
  not registered. Nothing of the kind is true of HTTP, whose clients share a key.
* `SharingNeedsIdleness == Spec => []SharedOnlyAfterIdling`, by `IdleIsQuiet` and
  `MovedIsQuiet`: who let the window pass over a session in use is in `quiet`, and a session
  moves to another key only after that.
* `OneLiveSessionEver == Spec => []OneLiveSession`, by `CurrentIsOnly` and `MovedIsTaken`: the
  session a connection of the socket goes on with has no live rival on its key.
* `LiveSessionsKeptEver == Spec => LiveSessionsKept`, step by step. Nothing is assumed of
  the stale threshold beside the reconnect window: the property's sessions were seen
  within both.

What GetOrResumeSession does is stated once, in `ResumeEffects`, what a touch does in
`TouchEffects`, and that all other steps put no row in use and make none younger in
`OtherKeepUses` and `OtherKeepRows`.

`LifecycleProofs` has the theorems of `ProjectRegistry` (`RegistryAssumption`):
`RegistryTypeCorrect`, `NoneForgottenEver` and `CapHoldsEver`, all from one invariant `IInv` on the
life of an instance and its flight, and `NobodyMissesTheFlight`, the part of `CallsReturn`
that is not about fairness: nobody waits for a flight that has landed. It extends `WatcherLifecycle` too and proves,
from `LifecycleAssumption` (finite sets of paths and workers, at least one worker, as New
starts four; capacities and thresholds at least 1; any number of events, panics and
restarts):

* `WatcherTypeCorrect == Spec => []TypeOK`.
* `WaitGroupCountsWhatRuns == Spec => []WaitGroupCounts`. What runs is a sum over all
  paths; `Total` draws it as the cardinality of a set of pairs, so that `TotalPlus` and
  `TotalMinus` follow from the library's theorems on finite sets without induction. Every
  action is then accounted for in one of five groups (timers and callbacks, workers, merge
  goroutine, event loop, jobs), and `Balanced` adds the groups up. `CounterNotNegative`, that
  no Done is one too many, follows.
* `NoAddAfterTheEnd == Spec => NoAddFromZero`, an action property: after Stop was called,
  and with an exact count, a counter at zero stays there, since no step but the end of Wait
  is possible (`OnlyTheWaitEnds`).
* `StopDrainsAll == Spec => []StopDrains`: Wait is released only at zero
  (`ReleasedAtZero`), where an exact count leaves nobody, and with nobody left and Stop
  called no step but the end of Wait is possible (`OnlyTheWaitEnds`). `StoppedIsFinal` says
  so of the steps: after Stop returned with an exact count there are none.
* `NobodyIsStuck == Spec => []NobodyStuck`, the part of `StopReturns` and
  `BacklogDrains` that is not about fairness. `MutexHeld` (who is recorded as the holder of
  `reparseMu` is between Lock and Unlock, the short one of a batch's snapshot included) and `ServesUntilStop` (before Stop no worker and
  no merge goroutine has left) make the chain of waiting end with someone who moves: the
  callback waits for a worker, the worker for the merge goroutine, that for the mutex, whose
  holder waits for nobody. In Stop it is the WaitGroup's count above zero that provides
  the one who moves. The guards are spelled out since the prover has no ENABLED; TLC has
  compared them with ENABLED of the goroutines' steps.

Only model-checked: liveness, since the prover has neither ENABLED nor fairness:
`EventuallyDelivered`, `EveryTaskLeaves`, `StopReturns` (of the watcher and of the
scheduler), `BacklogDrains`, `RebuildEnds`, `StopEnds` and `CallsReturn`. Every invariant and
every action property of the passing runs is also a theorem.

## 5. Findings

Each is shown by a violation run.

1. `watcher.go:1375`: two workers can hold successive contents of one path; the
   one merged last wins, whichever it is, and nothing corrects it
   (`stale_overwrite`).
2. `watcher.go:944`: a timer that fired or was cancelled by Stop is reset without
   a new `wg.Add`; `Stop` may return early or the counter go negative
   (`lifecycle_early`).

Seen while modelling, without a run of their own; the models have these behaviours, and the
properties name them as exceptions:

* `main.go:1246`: fresh mtimes are committed before the graph; a crash or a failed save in
  between hides the change from every later start until the file changes again (`torn`).
* `parser.go:226-228` promises the mtimes of the files that were parsed; `WalkDir` records one
  after a failed read as well (376-378, 413-417), so that the next start skips a
  file it has no rows of (`unread`). `parser.go:515-521`: an incremental walk removes the
  nodes of a changed file before a read that may fail.
* `watcher.go:2294-2295` says persistAsync stores the file's mtime; 2306 takes the clock, so
  that the next start parses the file again (`ByClock`).
* `main.go:660`: an empty `file_hashes` table makes a start serve the cached graph unchecked.
* `scheduler.go:112`: with concurrent Submit calls of one key the older closure may
  replace the newer. `scheduler.go:393`: a health sample is used for a whole batch.
* `watcher.go:952`: herd protection cancels the pending reload of `synapses.json`.
  `watcher.go:968-969`: when its re-walk fails, which one unreadable directory is enough for
  (`parser.go:254-257`), the updates whose timers it cancelled are lost (`dropped`),
  although 989-991 means to prevent silent drops.
* `daemon_serve.go:2364-2367`: if Start fails, the watcher is dropped without a Stop and its
  workers wait for ever.
* `watcher.go:1381`: a file removed while its result is in a worker stays in the graph
  (`tainted`). `watcher.go:1203`: results left in `parseCh` when Stop ends a coalescing
  delay. `watcher.go:858`: a panic in the remove path leaves `reparseMu` locked.
  `watcher.go:799`: an overflow of fsnotify is only logged.
* `tasks.go:207`: a listing replies that the caller owns tasks another agent claimed
  first. `tasks.go:494` and `236`: `depends_on` with an unknown id blocks a task in one
  query and not in the other. `tasks.go:371-385`: a crash or an error between the status
  UPDATE and the plan check leaves a finished plan open until another of its tasks is
  updated (`cut`): a failed plan_id query is ignored (374), a failed
  `findNewlyUnblocked` returns before the check and takes the notices with it (377-380,
  `lost`), and the check itself may fail (383-385).
* `hnsw_index.go:231`: an add is refused when the queue holds 10000, so the queue is never
  longer, and the cap of the replay (161-165) with its second rebuild (206-209) is never
  needed. `hnsw_index.go:190`: of two rebuilds at once the first one clears the flag of the
  second (`suspect`). `memories.go:453`: a touch may bring back a memory that expired
  and that an index was built without (`missed`).
  `hnsw_index.go:128-150`: rows that cannot be read are skipped and the rest is installed
  (`missed`). `hnsw_index.go:168-185`: an entry whose replay panics is skipped, a pending delete
  too, and the deleted memory stays in the index (`told`).
* `memory_embed.go:114-117` says stale embeddings are left out of a rebuild,
  `hnsw_index.go:104-112` leaves them in.
* `handlers_session.go:362-364` says that windows never steal each other's sessions; one that
  was idle for more than five minutes can be taken over by phase 2 (`sessions.go:229`), and
  all clients of `/mcp` over HTTP have the key "stdio" (`server.go:62-73`, `416-421`) and thus
  one session per agent, whose entry any of them replaces or clears.
* `config.go:356-373`: the reconnect window and the stale threshold are independent. With
  a threshold below the window, the sweep (`sessions.go:362-368`) hibernates sessions that a
  reconnect would still call live.
* `registry.go:181` says Close shuts down all instances; one whose initialisation ends
  later is stored afterwards (134) and stays open until the process ends.
* `collector.go:265`: events enqueued after the final flush stay in the ring.
* `loop_guard.go:108-113`: an alternation A, B, A, B is not recognised; `resetAll` (218-226)
  has no caller.

## 6. Not modelled, and why

* Parsers, resolver heuristics, traversal, metrics, embedding and model answers:
  pure functions on large data, out of a model checker's reach and better served
  by examples. They are more than half of the implementation.
* Handlers that only read and format; the command line, installers, federation
  and benchmarks: I/O on other processes, little shared state. The telemetry store is one SQL
  statement per method.
* Rate limiter and loop guard: each check is one critical section over counters of one
  session. A draft model had properties that only repeated those counters.
* Edges and call sites: the phases of `applyBatch` that re-resolve them depend on names
  and heuristics of the resolver. The columnar index: every accessor of the graph has two
  paths, and what matters, that a reader falls back on the maps, is a matter of each.
  The query cache and approvals: small and sequential but for one put after an invalidation.
* In the modelled parts: a loss of fsnotify events (`watcher.go:799` only logs it;
  everything after it would be lost trivially), the brain ingestion workers,
  node links and commits of tasks, links of sessions to tasks.

## 7. Plan

Written, in this order, most important behaviour first: `WatcherPipeline`,
`BrainScheduler` with `WorkSet`, `ProjectCache`, `WatcherLifecycle`, `AgentTasks`, `HnswIndex`,
`PulseCollector` with `DropOldestQueue`, `Sessions`, `ProjectRegistry`, and the proofs of
all of them.

What an extension would add, in this order:

1. `CallSiteMerge`: phases of applyBatch beside the remove path, with the edges as
   pairs of versions. Property: no CALLS edge of a removed file.
2. `GraphIndexing`: maps, asynchronous columnar index and the readers that fall back,
   composed with a merge of two batches. Property: a save after a batch holds the batch's
   nodes.
3. `ProjectRegistry` composed with `WatcherLifecycle`: an instance is closed only after its
   watcher's goroutines have ended.
4. `GraphMirror`, an abstract specification of the pipeline which `WatcherPipeline`
   implements.
