-------------------------- MODULE WatcherLifecycle --------------------------
(***************************************************************************)
(* Start, Stop and the goroutines of internal/watcher: who is counted in   *)
(* the watcher's WaitGroup, who waits for whom, and what is left when Stop *)
(* returns.  Contents are abstracted away (WatcherPipeline has them): the  *)
(* channels are lengths, a batch is the fact that there is one.            *)
(*                                                                         *)
(* A critical section of w.mu is one step.  reparseMu is held over several *)
(* steps and is state.  The two brain ingestion workers (New 322-340) wait *)
(* for nobody and end when stopCh closes; they are not modelled.           *)
(***************************************************************************)
EXTENDS Integers, FiniteSets

CONSTANTS
    Paths,              \* paths with events, synapses.json among them
    ConfigPath,         \* w.configPath
    Workers,            \* parse worker goroutines
    WorkCap,            \* reparseWorkChanSize
    ParseCap,           \* parseChanSize
    BacklogThreshold,   \* reparseBacklogThreshold
    CoalesceThreshold,  \* batchCoalesceThreshold
    MaxRestarts,        \* loop's maxRestarts
    MaxEvents,          \* bound: fsnotify events over a behaviour
    MaxPanics           \* bound: panics in event handlers

ASSUME LifecycleAssumption ==
    /\ IsFiniteSet(Paths) /\ ConfigPath \in Paths
    /\ IsFiniteSet(Workers) /\ Workers # {}
    /\ {WorkCap, ParseCap, BacklogThreshold, CoalesceThreshold} \subseteq Nat \ {0}
    /\ {MaxRestarts, MaxEvents, MaxPanics} \subseteq Nat

VARIABLES
    wg,         \* w.wg's counter; Done below zero panics and ends the daemon
    stop,       \* Stop: no call, waiting in wg.Wait, returned
    loop,       \* the event loop: off, run, lock (wants reparseMu), remove, persist, backoff, gone
    events,     \* events handled so far
    panics,     \* w.loopPanics
    timer,      \* path -> entry of w.timers: none, armed, fired, cancelled by Stop
    stray,      \* path -> armed timers that are no longer in w.timers
    due,        \* path -> timer callbacks that started and wait for w.mu
    calling,    \* path -> callbacks past w.mu: sending to workCh, or reloading
    work,       \* Len(w.workCh)
    worker,     \* parse worker -> idle, parse, send, drain, gone
    parsed,     \* Len(w.parseCh)
    merge,      \* mergeLoop: where it is and where it goes after applyBatch
    reparse,    \* holder of w.reparseMu: free, loop, merge, lost (by a panic)
    jobs,       \* goroutines started by trackGo, and full re-walks
    miscount    \* history: timers armed again without their wg.Add

loopVars  == <<loop, events, panics>>
timerVars == <<timer, stray, due, calling>>
poolVars  == <<work, worker, parsed>>
waitVars  == <<wg, stop>>
vars == <<waitVars, loopVars, timerVars, poolVars, merge, reparse, jobs, miscount>>

stopped == stop # "no"      \* w.stopped; stopCh is closed with it

Init ==
    /\ wg = Cardinality(Workers) + 1
    /\ stop = "no"
    /\ loop = "off" /\ events = 0 /\ panics = 0
    /\ timer = [p \in Paths |-> "none"]
    /\ stray = [p \in Paths |-> 0]
    /\ due = [p \in Paths |-> 0]
    /\ calling = [p \in Paths |-> 0]
    /\ work = 0 /\ parsed = 0
    /\ worker = [w \in Workers |-> "idle"]
    /\ merge = [pc |-> "idle", next |-> "idle"]
    /\ reparse = "free"
    /\ jobs = 0
    /\ miscount = 0

\* wg.Add(n), and Done for n = -1.  A Wait is released when the counter is 0.
Add(n) ==
    /\ wg' = wg + n
    /\ stop' = IF stop = "waiting" /\ wg + n = 0 THEN "returned" ELSE stop

\* Mutant: a goroutine started by trackGo is not counted.
TrackGoUncounted ==
    IF stopped THEN UNCHANGED <<waitVars, jobs>>
    ELSE jobs' = jobs + 1 /\ UNCHANGED waitVars

\* trackGo: the goroutine is counted and started, unless Stop was called.
TrackGo ==
    IF stopped THEN UNCHANGED <<waitVars, jobs>>
    ELSE jobs' = jobs + 1 /\ Add(1)

JobEnds ==
    /\ jobs > 0
    /\ jobs' = jobs - 1
    /\ Add(-1)
    /\ UNCHANGED <<loopVars, timerVars, poolVars, merge, reparse, miscount>>

-----------------------------------------------------------------------------
\* Start and Stop.

\* Mutant: the loop's goroutine is not counted before it starts.
StartUncounted ==
    /\ loop = "off"
    /\ ~stopped
    /\ loop' = "run"
    /\ UNCHANGED <<waitVars, events, panics, timerVars, poolVars, merge, reparse, jobs,
                   miscount>>

\* The daemon starts a watcher where it makes it and stops it later, if at all
\* (daemon_serve.go:2364-2367): no Start follows a Stop.
Start ==
    /\ loop = "off"
    /\ ~stopped
    /\ loop' = "run"
    /\ Add(1)
    /\ UNCHANGED <<events, panics, timerVars, poolVars, merge, reparse, jobs,
                   miscount>>

Armed == {p \in Paths : timer[p] = "armed"}

\* Mutant: cancelled timers keep their place in the WaitGroup.
StopKeepsCounts ==
    /\ ~stopped
    /\ stop' = "waiting"
    /\ timer' = [p \in Paths |-> IF p \in Armed THEN "cancelled" ELSE timer[p]]
    /\ UNCHANGED <<wg, loopVars, stray, due, calling, poolVars, merge, reparse, jobs,
                   miscount>>

\* The critical section of Stop: close stopCh and the fsnotify watcher, cancel
\* the listed timers that have not fired.  Their entries stay in w.timers.  A
\* second call returns at once and changes nothing.
Stop ==
    /\ ~stopped
    /\ wg' = wg - Cardinality(Armed)
    /\ stop' = "waiting"
    /\ timer' = [p \in Paths |-> IF p \in Armed THEN "cancelled" ELSE timer[p]]
    /\ UNCHANGED <<loopVars, stray, due, calling, poolVars, merge, reparse, jobs,
                   miscount>>

\* wg.Wait finds the counter at 0 already.
WaitPasses ==
    /\ stop = "waiting"
    /\ wg = 0
    /\ stop' = "returned"
    /\ UNCHANGED <<wg, loopVars, timerVars, poolVars, merge, reparse, jobs,
                   miscount>>

-----------------------------------------------------------------------------
\* loop, handleEvent and its panics.

HandlesEvent == loop = "run" /\ events < MaxEvents /\ events' = events + 1

Listed == {p \in Paths : timer[p] # "none"}

\* debounce and debounceConfigReload find a timer for the path and Reset it.
\* One that has fired, or that Stop has cancelled, is armed again without a new
\* wg.Add: its callback runs Done once more than it was counted.
Rearm(p) ==
    /\ timer[p] # "none"
    /\ timer' = [timer EXCEPT ![p] = "armed"]
    /\ miscount' = IF timer[p] = "armed" THEN miscount ELSE miscount + 1
    /\ UNCHANGED <<waitVars, jobs>>

NewTimer(p) ==
    /\ timer[p] = "none"
    /\ p = ConfigPath \/ Cardinality(Listed) < BacklogThreshold
    /\ timer' = [timer EXCEPT ![p] = "armed"]
    /\ Add(1)
    /\ UNCHANGED <<jobs, miscount>>

\* Thundering herd protection: every listed timer, that of synapses.json
\* included, is cancelled, and one re-walk goroutine is started.  A goroutine
\* that finds stopCh closed does nothing; JobEnds stands for both.
FullRewalk(p) ==
    /\ timer[p] = "none"
    /\ p # ConfigPath /\ Cardinality(Listed) >= BacklogThreshold
    /\ timer' = [q \in Paths |-> "none"]
    /\ jobs' = jobs + 1
    /\ Add(1 - Cardinality(Armed))
    /\ UNCHANGED miscount

HandleWrite(p) ==
    /\ HandlesEvent
    /\ Rearm(p) \/ NewTimer(p) \/ FullRewalk(p)
    /\ UNCHANGED <<loop, panics, stray, due, calling, poolVars, merge, reparse>>

\* Remove or Rename: the loop waits for reparseMu, mutates the graph, unlocks
\* and lets persistAsync start its goroutine.
HandleRemove ==
    /\ HandlesEvent
    /\ loop' = "lock"
    /\ UNCHANGED <<waitVars, panics, timerVars, poolVars, merge, reparse, jobs,
                   miscount>>

RemoveLocks ==
    /\ loop = "lock" /\ reparse = "free"
    /\ loop' = "remove" /\ reparse' = "loop"
    /\ UNCHANGED <<waitVars, events, panics, timerVars, poolVars, merge, jobs,
                   miscount>>

RemoveUnlocks ==
    /\ loop = "remove"
    /\ loop' = "persist" /\ reparse' = "free"
    /\ UNCHANGED <<waitVars, events, panics, timerVars, poolVars, merge, jobs,
                   miscount>>

\* Store calls, then persistAsync.
RemoveEnds ==
    /\ loop = "persist"
    /\ loop' = "run"
    /\ TrackGo
    /\ UNCHANGED <<events, panics, timerVars, poolVars, merge, reparse, miscount>>

\* Mutant: an exhausted loop does not run its deferred Done.
LoopPanicsUncounted ==
    /\ loop \in {"run", "remove", "persist"}
    /\ panics < MaxPanics
    /\ panics' = panics + 1
    /\ reparse' = IF loop = "remove" THEN "lost" ELSE reparse
    /\ loop' = IF stopped \/ panics >= MaxRestarts THEN "gone" ELSE "backoff"
    /\ UNCHANGED <<waitVars, events, timerVars, poolVars, merge, jobs, miscount>>

\* A handler panics and loop recovers.  debounce unlocks w.mu in a defer; the
\* remove path does not unlock reparseMu.  The loop restarts MaxRestarts times.
LoopPanics ==
    /\ loop \in {"run", "remove", "persist"}
    /\ panics < MaxPanics
    /\ panics' = panics + 1
    /\ reparse' = IF loop = "remove" THEN "lost" ELSE reparse
    /\ IF stopped \/ panics >= MaxRestarts
       THEN loop' = "gone" /\ Add(-1)
       ELSE loop' = "backoff" /\ UNCHANGED waitVars
    /\ UNCHANGED <<events, timerVars, poolVars, merge, jobs, miscount>>

LoopRestarts ==
    /\ loop = "backoff"
    /\ loop' = "run"
    /\ UNCHANGED <<waitVars, events, panics, timerVars, poolVars, merge, reparse, jobs,
                   miscount>>

LoopLeaves ==
    /\ loop = "run" /\ stopped
    /\ loop' = "gone"
    /\ Add(-1)
    /\ UNCHANGED <<events, panics, timerVars, poolVars, merge, reparse, jobs,
                   miscount>>

-----------------------------------------------------------------------------
\* Timer callbacks.

TimerFires(p) ==
    /\ \/ /\ timer[p] = "armed"
          /\ timer' = [timer EXCEPT ![p] = "fired"]
          /\ UNCHANGED stray
       \/ /\ stray[p] > 0
          /\ stray' = [stray EXCEPT ![p] = @ - 1]
          /\ UNCHANGED timer
    /\ due' = [due EXCEPT ![p] = @ + 1]
    /\ UNCHANGED <<waitVars, loopVars, calling, poolVars, merge, reparse, jobs,
                   miscount>>

\* The callback deletes the path's entry, whichever timer is listed there.
CallbackRuns(p) ==
    /\ due[p] > 0
    /\ due' = [due EXCEPT ![p] = @ - 1]
    /\ stray' = [stray EXCEPT ![p] = IF timer[p] = "armed" THEN @ + 1 ELSE @]
    /\ timer' = [timer EXCEPT ![p] = "none"]
    /\ calling' = [calling EXCEPT ![p] = @ + 1]
    /\ UNCHANGED <<waitVars, loopVars, poolVars, merge, reparse, jobs, miscount>>

CallbackEnds(p) ==
    /\ calling[p] > 0
    /\ calling' = [calling EXCEPT ![p] = @ - 1]
    /\ Add(-1)
    /\ UNCHANGED <<loopVars, timer, stray, due, worker, parsed, merge, reparse, jobs, miscount>>

SendWork(p) ==
    /\ p # ConfigPath /\ work < WorkCap
    /\ work' = work + 1
    /\ CallbackEnds(p)

GiveUp(p) ==
    /\ p # ConfigPath /\ stopped
    /\ CallbackEnds(p)
    /\ UNCHANGED work

\* reloadConfig reads synapses.json as it is now.
Reload ==
    /\ CallbackEnds(ConfigPath)
    /\ UNCHANGED work

-----------------------------------------------------------------------------
\* Parse workers.

TakeWork(w) ==
    /\ worker[w] = "idle" /\ work > 0
    /\ work' = work - 1
    /\ worker' = [worker EXCEPT ![w] = "parse"]
    /\ UNCHANGED <<waitVars, loopVars, timerVars, parsed, merge, reparse, jobs,
                   miscount>>

Parses(w) ==
    /\ worker[w] = "parse"
    /\ worker' = [worker EXCEPT ![w] = "send"]
    /\ UNCHANGED <<waitVars, loopVars, timerVars, work, parsed, merge, reparse, jobs,
                   miscount>>

HandsOver(w) ==
    /\ worker[w] = "send" /\ parsed < ParseCap
    /\ parsed' = parsed + 1
    /\ worker' = [worker EXCEPT ![w] = "idle"]
    /\ UNCHANGED <<waitVars, loopVars, timerVars, work, merge, reparse, jobs,
                   miscount>>

\* stopCh is closed: leave with a result in hand, or after emptying workCh.
WorkerLeaves(w) ==
    /\ \/ worker[w] = "send" /\ stopped
       \/ worker[w] = "drain" /\ work = 0
    /\ worker' = [worker EXCEPT ![w] = "gone"]
    /\ Add(-1)
    /\ UNCHANGED <<loopVars, timerVars, work, parsed, merge, reparse, jobs,
                   miscount>>

WorkerDrains(w) ==
    /\ worker[w] = "idle" /\ stopped
    /\ worker' = [worker EXCEPT ![w] = "drain"]
    /\ UNCHANGED <<waitVars, loopVars, timerVars, work, parsed, merge, reparse, jobs,
                   miscount>>

\* A result that finds parseCh full during shutdown is dropped.
DrainsOne(w) ==
    /\ worker[w] = "drain" /\ work > 0
    /\ work' = work - 1
    /\ parsed' = IF parsed < ParseCap THEN parsed + 1 ELSE parsed
    /\ UNCHANGED <<waitVars, loopVars, timerVars, worker, merge, reparse, jobs,
                   miscount>>

-----------------------------------------------------------------------------
\* mergeLoop and applyBatch.

MergeTo(pc, next) ==
    /\ merge' = [pc |-> pc, next |-> next]
    /\ UNCHANGED <<loopVars, timerVars, work, worker, miscount>>

\* Mutant: a batch is only begun when the channel is over the threshold.
MergeTakesLate ==
    /\ merge.pc = "idle" /\ parsed > CoalesceThreshold
    /\ parsed' = parsed - 1
    /\ MergeTo("collect", "idle")
    /\ UNCHANGED <<waitVars, reparse, jobs>>

\* The first result of a batch; with enough others behind it, coalesce.
MergeTakes ==
    /\ merge.pc = "idle" /\ parsed > 0
    /\ parsed' = parsed - 1
    /\ MergeTo(IF parsed - 1 >= CoalesceThreshold THEN "coalesce" ELSE "collect", "idle")
    /\ UNCHANGED <<waitVars, reparse, jobs>>

MergeCollects ==
    /\ merge.pc \in {"coalesce", "collect"} /\ parsed > 0
    /\ parsed' = parsed - 1
    /\ MergeTo(merge.pc, merge.next)
    /\ UNCHANGED <<waitVars, reparse, jobs>>

\* The coalescing delay ends, or stopCh closes: apply what there is and leave,
\* without draining parseCh.
CoalesceEnds ==
    /\ merge.pc = "coalesce"
    /\ \/ MergeTo("collect", "idle")
       \/ stopped /\ MergeTo("snapshot", "gone")
    /\ UNCHANGED <<waitVars, parsed, reparse, jobs>>

CollectEnds ==
    /\ merge.pc = "collect" /\ parsed = 0
    /\ MergeTo("snapshot", "idle")
    /\ UNCHANGED <<waitVars, parsed, reparse, jobs>>

\* Phase 0 of applyBatch copies filePkg and pkgFiles under reparseMu and reads the
\* store without it.
SnapshotLocks ==
    /\ merge.pc = "snapshot" /\ reparse = "free"
    /\ reparse' = "merge"
    /\ MergeTo("copy", merge.next)
    /\ UNCHANGED <<waitVars, parsed, jobs>>

SnapshotUnlocks ==
    /\ merge.pc = "copy"
    /\ reparse' = "free"
    /\ MergeTo("lock", merge.next)
    /\ UNCHANGED <<waitVars, parsed, jobs>>

ApplyLocks ==
    /\ merge.pc = "lock" /\ reparse = "free"
    /\ reparse' = "merge"
    /\ MergeTo("apply", merge.next)
    /\ UNCHANGED <<waitVars, parsed, jobs>>

MayTrackGo == TrackGo \/ UNCHANGED <<waitVars, jobs>>

\* Mutant: an early return of applyBatch leaves reparseMu locked.
ApplyKeepsLock ==
    /\ merge.pc = "apply"
    /\ MayTrackGo
    /\ MergeTo("store", merge.next)
    /\ UNCHANGED <<parsed, reparse>>

\* Under reparseMu applyBatch starts index rebuilds, unless every result is
\* dropped or skipped.
ApplyUnlocks ==
    /\ merge.pc = "apply"
    /\ reparse' = "free"
    /\ MayTrackGo
    /\ MergeTo("store", merge.next)
    /\ UNCHANGED parsed

\* After the unlock it writes to the store itself and calls persistAsync.  A
\* batch applied on Stop's account is the last step of the loop: Done.
ApplyEnds ==
    /\ merge.pc = "store"
    /\ IF merge.next = "gone" THEN Add(-1) /\ UNCHANGED jobs ELSE MayTrackGo
    /\ MergeTo(merge.next, IF merge.next = "drain" THEN "drain" ELSE "idle")
    /\ UNCHANGED <<parsed, reparse>>

\* stopCh is closed: apply what is in parseCh one by one, then leave.
MergeStops ==
    /\ merge.pc = "idle" /\ stopped
    /\ MergeTo("drain", "drain")
    /\ UNCHANGED <<waitVars, parsed, reparse, jobs>>

MergeDrains ==
    /\ merge.pc = "drain" /\ parsed > 0
    /\ parsed' = parsed - 1
    /\ MergeTo("snapshot", "drain")
    /\ UNCHANGED <<waitVars, reparse, jobs>>

MergeLeaves ==
    /\ merge.pc = "drain" /\ parsed = 0
    /\ MergeTo("gone", "idle")
    /\ Add(-1)
    /\ UNCHANGED <<parsed, reparse, jobs>>

-----------------------------------------------------------------------------
Environment ==
    \/ Start \/ Stop \/ HandleRemove \/ LoopPanics
    \/ \E p \in Paths : HandleWrite(p)

LoopSteps == RemoveLocks \/ RemoveUnlocks \/ RemoveEnds \/ LoopRestarts \/ LoopLeaves
TimerSteps(p) == TimerFires(p) \/ CallbackRuns(p) \/ SendWork(p) \/ GiveUp(p)
WorkerSteps(w) ==
    TakeWork(w) \/ Parses(w) \/ HandsOver(w) \/ WorkerLeaves(w) \/ WorkerDrains(w) \/ DrainsOne(w)
MergeSteps ==
    \/ MergeTakes \/ MergeCollects \/ CoalesceEnds \/ CollectEnds
    \/ SnapshotLocks \/ SnapshotUnlocks \/ ApplyLocks \/ ApplyUnlocks
    \/ ApplyEnds \/ MergeStops \/ MergeDrains \/ MergeLeaves

\* A negative WaitGroup counter panics: nothing happens any more.
Next ==
    /\ wg >= 0
    /\ \/ Environment
       \/ LoopSteps
       \/ \E p \in Paths : TimerSteps(p)
       \/ Reload
       \/ \E w \in Workers : WorkerSteps(w)
       \/ MergeSteps
       \/ JobEnds
       \/ WaitPasses

Spec == Init /\ [][Next]_vars

\* Goroutines that can run do run and timers fire; nobody has to edit files, to
\* panic or to call Start or Stop.  sync.Mutex hands a lock to a waiter that has
\* starved and a channel serves blocked senders in order: hence SF where two
\* goroutines compete.
Fairness ==
    /\ SF_vars(wg >= 0 /\ LoopSteps)
    /\ \A p \in Paths : /\ WF_vars(wg >= 0 /\ TimerFires(p))
                        /\ WF_vars(wg >= 0 /\ CallbackRuns(p))
                        /\ SF_vars(wg >= 0 /\ (SendWork(p) \/ GiveUp(p)))
    /\ WF_vars(wg >= 0 /\ Reload)
    /\ \A w \in Workers : SF_vars(wg >= 0 /\ WorkerSteps(w))
    /\ SF_vars(wg >= 0 /\ MergeSteps)
    /\ WF_vars(wg >= 0 /\ JobEnds)
    /\ WF_vars(wg >= 0 /\ WaitPasses)

FairSpec == Spec /\ Fairness

-----------------------------------------------------------------------------
\* Types of the variables and capacities of the two channels.
TypeOK ==
    /\ wg \in Int
    /\ stop \in {"no", "waiting", "returned"}
    /\ loop \in {"off", "run", "lock", "remove", "persist", "backoff", "gone"}
    /\ events \in 0..MaxEvents /\ panics \in 0..MaxPanics
    /\ timer \in [Paths -> {"none", "armed", "fired", "cancelled"}]
    /\ stray \in [Paths -> Nat] /\ due \in [Paths -> Nat] /\ calling \in [Paths -> Nat]
    /\ work \in 0..WorkCap /\ parsed \in 0..ParseCap
    /\ worker \in [Workers -> {"idle", "parse", "send", "drain", "gone"}]
    /\ merge \in [pc: {"idle", "coalesce", "collect", "snapshot", "copy", "lock", "apply",
                       "store", "drain", "gone"},
                  next: {"idle", "drain", "gone"}]
    /\ reparse \in {"free", "loop", "merge", "lost"}
    /\ jobs \in Nat /\ miscount \in Nat

\* The sum of the counts that f has for the paths.
Total(f) == Cardinality(UNION {{p} \X (1..f[p]) : p \in Paths})

Alive == {w \in Workers : worker[w] # "gone"}
One(condition) == IF condition THEN 1 ELSE 0

\* What runs or will run on the watcher's behalf: armed timers, callbacks,
\* workers, the merge goroutine, the event loop and the jobs.
Running ==
    Cardinality(Armed) + Total(stray) + Total(due) + Total(calling)
      + Cardinality(Alive)
      + One(merge.pc # "gone")
      + One(loop \notin {"off", "gone"})
      + jobs

\* The WaitGroup counts exactly what runs, short of one for each timer that was
\* armed again after it fired or was cancelled: on every path through trackGo,
\* debounce, the herd protection, panics and shutdown.
WaitGroupCounts == wg + miscount = Running

\* Unless such a timer spoilt the count, nothing of the watcher runs or is
\* scheduled once Stop has returned, so nothing writes to the closed store.
StopDrains == stop = "returned" /\ miscount = 0 => Running = 0

\* With an exact count nobody adds to the WaitGroup when it stands at zero and Stop was
\* called, while Wait may be about to return: Add's own rule (watcher.go:678, 729-742,
\* 952-985).
NoAddFromZero == [][stopped /\ wg = 0 /\ miscount = 0 => wg' = 0]_vars

Backlog == work + parsed + Total(calling)

\* Who can take a step: nobody whose channel is full or empty, or whose mutex is held.
LoopMoves ==
    \/ loop \in {"remove", "persist", "backoff"}
    \/ loop = "run" /\ stopped
    \/ loop = "lock" /\ reparse = "free"
TimerMoves(p) ==
    \/ timer[p] = "armed" \/ stray[p] > 0 \/ due[p] > 0
    \/ calling[p] > 0 /\ (p = ConfigPath \/ stopped \/ work < WorkCap)
WorkerMoves(w) ==
    \/ worker[w] \in {"parse", "drain"}
    \/ worker[w] = "idle" /\ (stopped \/ work > 0)
    \/ worker[w] = "send" /\ (stopped \/ parsed < ParseCap)
MergeMoves ==
    \/ merge.pc \in {"coalesce", "collect", "copy", "apply", "store", "drain"}
    \/ merge.pc = "idle" /\ (stopped \/ parsed > 0)
    \/ merge.pc \in {"snapshot", "lock"} /\ reparse = "free"
SomebodyMoves ==
    \/ LoopMoves \/ MergeMoves \/ jobs > 0
    \/ \E p \in Paths : TimerMoves(p)
    \/ \E w \in Workers : WorkerMoves(w)

\* Work that Stop has not cut short: a callback, a result or a batch on its way, or a
\* removal that waits for reparseMu.
Unfinished == Backlog > 0 \/ merge.pc # "idle" \/ loop = "lock"

\* No deadlock over reparseMu and the two bounded channels, before Stop or while it
\* waits: somebody other than the user can take a step, unless a panic lost the mutex
\* (watcher.go:277-281, 858, 1231-1243).
NobodyStuck ==
    /\ reparse # "lost"
    /\ (stop = "no" /\ Unfinished) \/ (stop = "waiting" /\ wg > 0)
    => SomebodyMoves

\* Stop returns, whatever is queued, blocked or backing off when it is called,
\* unless a handler panicked while it held reparseMu.
StopReturns ==
    stop = "waiting" ~> (stop = "returned" \/ wg < 0 \/ reparse = "lost")

\* Callbacks, workers and the merge goroutine never wait for each other for
\* ever: with no more events the channels empty.
BacklogDrains ==
    Backlog > 0 ~> (Backlog = 0 \/ stopped \/ wg < 0 \/ reparse = "lost")

\* As Stop's comment has it: no goroutine that writes to the store is left.
StopWaitsForAll == stop = "returned" => jobs = 0 /\ merge.pc = "gone"
=============================================================================
