--------------------------- MODULE BrainScheduler ---------------------------
(***************************************************************************)
(* The deferred task queue of internal/brain: watcher and MCP goroutines   *)
(* Submit keyed tasks, one drain goroutine runs them in batches when the   *)
(* machine's health and memory allow it.                                   *)
(*                                                                         *)
(* The queue is a set of tasks; a task's slot is its position in q.tasks   *)
(* (the order of first insertion, which a refresh by key keeps).  A stamp  *)
(* numbers the submissions in the order of their enqueuedAt; time is a     *)
(* coarse clock that only the TTL tests read.  P0 calls bypass the queue   *)
(* and are not modelled; so is the fallback without a SystemPulse.         *)
(***************************************************************************)
EXTENDS Integers, FiniteSets

CONSTANTS
    Keys,         \* dedup keys
    Prio,         \* priority of a key's tasks: 1 (nl-classify) or 2 (ingest)
    Callers,      \* goroutines that call Submit
    QueueMax,     \* schedulerQueueMax
    TTL,          \* priority -> schedulerP1TTL, schedulerP2TTL
    GateAnswers,  \* whether EnsureModel can find room for a model: subset of BOOLEAN
    MaxStamp,     \* bound: submissions of a behaviour
    MaxTime       \* bound: last value of the clock

ASSUME SchedulerAssumption ==
    /\ Prio \in [Keys -> {1, 2}]
    /\ QueueMax \in Nat \ {0}
    /\ TTL \in [{1, 2} -> Nat]
    /\ GateAnswers \in SUBSET BOOLEAN
    /\ MaxStamp \in Nat
    /\ MaxTime \in Nat

VARIABLES
    now,      \* the clock
    health,   \* SystemPulse's current classification
    queue,    \* q.tasks
    signal,   \* drainCh holds a token
    done,     \* Stop was called
    caller,   \* goroutine -> the Submit call it is in
    stamps,   \* submissions so far
    drainer,  \* the drain goroutine: where it is, the health it read, its batch
    steady    \* history: Green, and every gate passed, since the queue was empty

vars == <<now, health, queue, signal, done, caller, stamps, drainer, steady>>

Healths == {"green", "yellow", "red"}
Task == [key: Keys, stamp: 1..MaxStamp, at: 0..MaxTime, slot: Nat \ {0}]
\* A Submit call: none, its task built but not queued, or queued but not signalled.
Call == [st: {"built", "added"}, task: Task] \cup {[st |-> "idle"]}
DrainerPcs == {"wait", "gate", "drain", "run", "recheck", "exited"}
Drainer == [pc: DrainerPcs, health: Healths, todo: SUBSET Task,
            ran: BOOLEAN, piggyback: BOOLEAN]

Prio1(t) == Prio[t.key] = 1
Expired(t) == now - t.at > TTL[Prio[t.key]]

\* The order in which a batch runs: by priority, then by time of submission.
Before(t, u) == \/ Prio[t.key] < Prio[u.key]
                \/ Prio[t.key] = Prio[u.key] /\ t.stamp < u.stamp

Init ==
    /\ now = 0
    /\ health \in Healths
    /\ queue = {}
    /\ signal = FALSE
    /\ done = FALSE
    /\ caller = [c \in Callers |-> [st |-> "idle"]]
    /\ stamps = 0
    /\ drainer = [pc |-> "wait", health |-> "green", todo |-> {}, ran |-> FALSE,
                  piggyback |-> FALSE]
    /\ steady = TRUE

-----------------------------------------------------------------------------
\* The environment: time, and the samples of SystemPulse.

Tick ==
    /\ now < MaxTime
    /\ now' = now + 1
    /\ UNCHANGED <<health, queue, signal, done, caller, stamps, drainer, steady>>

Sample ==
    /\ health' \in Healths \ {health}
    /\ steady' = FALSE
    /\ UNCHANGED <<now, queue, signal, done, caller, stamps, drainer>>

-----------------------------------------------------------------------------
\* Submit.

\* Check done, then build the task with the time of the call.
SubmitBegins(c, k) ==
    /\ caller[c].st = "idle"
    /\ ~done
    /\ stamps < MaxStamp
    /\ now + TTL[Prio[k]] < MaxTime   \* bound: the clock outlives every task
    /\ stamps' = stamps + 1
    /\ caller' = [caller EXCEPT ![c] =
          [st |-> "built", task |-> [key |-> k, stamp |-> stamps + 1, at |-> now, slot |-> 1]]]
    /\ UNCHANGED <<now, health, queue, signal, done, drainer, steady>>

SameKey(t) == {u \in queue : u.key = t.key}
Full == Cardinality(queue) >= QueueMax
Evictable == {u \in queue : Prio[u.key] = 2}

\* A slot after all the slots in use.
LastSlot(s) == \A u \in queue : u.slot < s

\* add: the slot of an entry with the same key goes to the new task.
Refresh(t) ==
    \E u \in SameKey(t) : queue' = (queue \ {u}) \cup {[t EXCEPT !.slot = u.slot]}

\* Mutant: a full queue makes room at its front whatever the priority there.
RoomAtFront(evicted) ==
    IF ~Full THEN evicted = {}
    ELSE \E u \in queue : /\ \A v \in queue : u.slot <= v.slot
                          /\ evicted = {u}

\* add: a full queue gives up the P2 task in the first slot, if it has one.
Room(evicted) ==
    IF ~Full THEN evicted = {}
    ELSE \E u \in Evictable : /\ \A v \in Evictable : u.slot <= v.slot
                              /\ evicted = {u}

\* Mutant: add forgets the bound of the queue.
InsertUnbounded(t) ==
    /\ SameKey(t) = {}
    /\ \E s \in 1..(Cardinality(queue) + MaxStamp) :
          /\ LastSlot(s)
          /\ \A r \in 1..(s - 1) : ~LastSlot(r)
          /\ queue' = queue \cup {[t EXCEPT !.slot = s]}

\* add: a new key takes the slot after the last one.
Insert(t) ==
    /\ SameKey(t) = {}
    /\ \E evicted \in SUBSET queue, s \in 1..(Cardinality(queue) + MaxStamp) :
          /\ Room(evicted)
          /\ LastSlot(s)
          /\ \A r \in 1..(s - 1) : ~LastSlot(r)
          /\ queue' = (queue \ evicted) \cup {[t EXCEPT !.slot = s]}

\* The queue takes the task; it has not looked at the health yet.
SubmitAdds(c) ==
    /\ caller[c].st = "built"
    /\ Refresh(caller[c].task) \/ Insert(caller[c].task)
    /\ caller' = [caller EXCEPT ![c] = [st |-> "added", task |-> caller[c].task]]
    /\ UNCHANGED <<now, health, signal, done, stamps, drainer, steady>>

\* The queue is full of P1 tasks and has no task with this key.
SubmitDropped(c) ==
    /\ caller[c].st = "built"
    /\ SameKey(caller[c].task) = {}
    /\ Full /\ Evictable = {}
    /\ caller' = [caller EXCEPT ![c] = [st |-> "idle"]]
    /\ UNCHANGED <<now, health, queue, signal, done, stamps, drainer, steady>>

\* Mutant: the condition of the token is inverted.
SubmitSignalsPressed(c) ==
    /\ caller[c].st = "added"
    /\ signal' = (signal \/ health # "green")
    /\ caller' = [caller EXCEPT ![c] = [st |-> "idle"]]
    /\ UNCHANGED <<now, health, queue, done, stamps, drainer, steady>>

\* A Green machine wakes the drain goroutine at once.
SubmitSignals(c) ==
    /\ caller[c].st = "added"
    /\ signal' = (signal \/ health = "green")
    /\ caller' = [caller EXCEPT ![c] = [st |-> "idle"]]
    /\ UNCHANGED <<now, health, queue, done, stamps, drainer, steady>>

-----------------------------------------------------------------------------
\* drainLoop and runEligible.

\* A token or the ticker wakes the drain goroutine, which reads the health.
Wakes ==
    /\ drainer.pc = "wait"
    /\ signal' \in {signal, FALSE}
    /\ drainer' = [pc |-> "gate", health |-> health, todo |-> {}, ran |-> FALSE,
                   piggyback |-> FALSE]
    /\ UNCHANGED <<now, health, queue, done, caller, stamps, steady>>

\* EnsureModel, asked unless the health read is Red or nothing is queued.
\* A refusal ends the cycle: nothing is drained, nothing expires.
Gate ==
    /\ drainer.pc = "gate"
    /\ \E fits \in IF drainer.health # "red" /\ queue # {} THEN GateAnswers ELSE {TRUE} :
          /\ drainer' = [drainer EXCEPT !.pc = IF fits THEN "drain" ELSE "wait"]
          /\ steady' = (steady /\ fits)
    /\ UNCHANGED <<now, health, queue, signal, done, caller, stamps>>

\* Mutant: nothing is eligible under Yellow, and expired tasks wait for a batch.
DrainSkipsYellow ==
    /\ drainer.pc = "drain"
    /\ LET run == {t \in queue : drainer.health = "green" /\ ~Expired(t)} IN
          /\ queue' = IF run = {} THEN queue ELSE {}
          /\ drainer' = [drainer EXCEPT !.pc = "run", !.todo = run, !.ran = run # {}]
          /\ steady' = steady
    /\ UNCHANGED <<now, health, signal, done, caller, stamps>>

\* What drain(health) hands out; the piggyback drains as if Green.
Eligible(t) ==
    \/ drainer.health = "green"
    \/ drainer.piggyback
    \/ drainer.health = "yellow" /\ Prio1(t)

\* Mutant: the batch is handed out and stays in the queue.
DrainKeepsBatch ==
    /\ drainer.pc = "drain"
    /\ LET alive == {t \in queue : ~Expired(t)}
           run == {t \in alive : Eligible(t)} IN
          /\ queue' = alive
          /\ drainer' = [drainer EXCEPT !.pc = "run", !.todo = run, !.ran = run # {}]
          /\ steady' = steady
    /\ UNCHANGED <<now, health, signal, done, caller, stamps>>

\* drain: expired tasks go, eligible ones become the batch, the others stay.
Drain ==
    /\ drainer.pc = "drain"
    /\ LET alive == {t \in queue : ~Expired(t)}
           run == {t \in alive : Eligible(t)} IN
          /\ queue' = alive \ run
          /\ drainer' = [drainer EXCEPT !.pc = "run", !.todo = run,
                                        !.ran = run # {}]
          /\ steady' = IF alive = run THEN health = "green" ELSE steady
    /\ UNCHANGED <<now, health, signal, done, caller, stamps>>

\* One task of the batch runs, to its end or to a recovered panic.
Runs(t) ==
    /\ drainer.pc = "run"
    /\ t \in drainer.todo
    /\ \A u \in drainer.todo \ {t} : Before(t, u)
    /\ drainer' = [drainer EXCEPT !.todo = @ \ {t}]
    /\ UNCHANGED <<now, health, queue, signal, done, caller, stamps, steady>>

\* After a batch under Yellow, the model is warm: drain once more as if Green.
BatchDone ==
    /\ drainer.pc = "run"
    /\ drainer.todo = {}
    /\ LET again == /\ drainer.health = "yellow"
                    /\ ~drainer.piggyback
                    /\ drainer.ran
                    /\ queue # {} IN
          drainer' = [drainer EXCEPT !.pc = IF again THEN "drain" ELSE "recheck",
                                     !.piggyback = @ \/ again]
    /\ UNCHANGED <<now, health, queue, signal, done, caller, stamps, steady>>

\* Tasks that arrived meanwhile wake the goroutine again, if it had read Green.
Recheck ==
    /\ drainer.pc = "recheck"
    /\ signal' = (signal \/ (drainer.health = "green" /\ queue # {}))
    /\ drainer' = [drainer EXCEPT !.pc = "wait"]
    /\ UNCHANGED <<now, health, queue, done, caller, stamps, steady>>

Stop ==
    /\ ~done
    /\ done' = TRUE
    /\ UNCHANGED <<now, health, queue, signal, caller, stamps, drainer, steady>>

\* Mutant: done is only looked at when a token wakes the goroutine.
ExitsOnToken ==
    /\ done
    /\ signal
    /\ drainer.pc = "wait"
    /\ drainer' = [drainer EXCEPT !.pc = "exited"]
    /\ UNCHANGED <<now, health, queue, signal, done, caller, stamps, steady>>

Exits ==
    /\ done
    /\ drainer.pc = "wait"
    /\ drainer' = [drainer EXCEPT !.pc = "exited"]
    /\ UNCHANGED <<now, health, queue, signal, done, caller, stamps, steady>>

-----------------------------------------------------------------------------
Next ==
    \/ Tick \/ Sample \/ Stop
    \/ \E c \in Callers : \/ \E k \in Keys : SubmitBegins(c, k)
                          \/ SubmitAdds(c) \/ SubmitDropped(c) \/ SubmitSignals(c)
    \/ Wakes \/ Gate \/ Drain \/ BatchDone \/ Recheck \/ Exits
    \/ \E t \in drainer.todo : Runs(t)

Spec == Init /\ [][Next]_vars

\* Time passes, a started Submit call finishes, the ticker wakes the drain
\* goroutine every 10 s, tasks end.  select picks among its ready cases at
\* random, so a closed done is not passed over for ever: hence SF(Exits).
Fairness ==
    /\ WF_vars(Tick)
    /\ \A c \in Callers : /\ WF_vars(SubmitAdds(c)) /\ WF_vars(SubmitDropped(c))
                          /\ WF_vars(SubmitSignals(c))
    /\ WF_vars(Wakes) /\ WF_vars(Gate) /\ WF_vars(Drain) /\ WF_vars(BatchDone)
    /\ WF_vars(Recheck) /\ SF_vars(Exits)
    /\ WF_vars(\E t \in drainer.todo : Runs(t))

FairSpec == Spec /\ Fairness

-----------------------------------------------------------------------------
TypeOK ==
    /\ now \in 0..MaxTime
    /\ health \in Healths
    /\ queue \in SUBSET Task
    /\ signal \in BOOLEAN
    /\ done \in BOOLEAN
    /\ caller \in [Callers -> Call]
    /\ stamps \in 0..MaxStamp
    /\ drainer \in Drainer
    /\ steady \in BOOLEAN

OneTaskPerKey == \A t, u \in queue : t.key = u.key => t = u
OneTaskPerSlot == \A t, u \in queue : t.slot = u.slot => t = u

\* The queue invariants of the package comment (scheduler.go:21-22): never more
\* than QueueMax tasks, and never two with the same key, with any number of
\* goroutines in Submit while a batch is drained; and the slots are a sequence's.
QueueInvariant ==
    /\ IsFiniteSet(queue) /\ Cardinality(queue) <= QueueMax
    /\ OneTaskPerKey
    /\ OneTaskPerSlot

\* No wakeup is lost: as long as the machine is Green and no gate refused, a
\* queued task never has to wait for the 10 s ticker.  A token is in drainCh, or
\* a Submit call is about to put one there, or the drain goroutine has not yet
\* looked at the queue for the last time before it waits.
NoWakeupLost ==
    (queue # {} /\ steady /\ health = "green" /\ drainer.pc # "exited") =>
        \/ signal
        \/ \E c \in Callers : caller[c].st = "added"
        \/ drainer.pc \notin {"wait", "exited"}

\* A waiting P1 task leaves the queue only to run, because it expired, or in
\* favour of a task with its own key; never to make room for another key.
P1NeverEvicted ==
    [][\A t \in queue \ queue' :
          Prio1(t) => \/ t \in drainer'.todo
                      \/ Expired(t)
                      \/ \E u \in queue' : u.key = t.key]_vars

\* Every queued task leaves the queue in the end (it runs, expires or is
\* replaced), whatever the health, unless the scheduler stops or the memory
\* gate refuses every cycle from some point on.
EveryTaskLeaves ==
    []<>(drainer.pc = "drain") =>
        \A s \in 1..MaxStamp :
            (\E t \in queue : t.stamp = s) ~> (done \/ ~\E t \in queue : t.stamp = s)

\* What waits, what runs and what was submitted, as WorkSet draws it: a Submit call
\* takes effect when the queue takes or drops its task.
Piece(t) == [key |-> t.key, id |-> t.stamp]
Pieces(tasks) == {Piece(t) : t \in tasks}
InSubmit == {caller[c].task.stamp : c \in {d \in Callers : caller[d].st = "built"}}
Work == INSTANCE WorkSet WITH
    Capacity <- QueueMax, Ids <- 1..MaxStamp,
    waiting <- Pieces(queue), running <- Pieces(drainer.todo),
    offered <- (1..stamps) \ InSubmit

\* With any number of goroutines in Submit, queue and batch are one WorkSet: a task
\* runs once at most, never waits or runs twice, never returns after it left, only
\* P2 tasks make room, and a batch runs in the order drain gave it
\* (scheduler.go:106-138, 151-186, 417-420).
QueueIsWorkSet == Work!Spec

\* Stop, which waits for the drain goroutine, returns.
StopReturns == done ~> drainer.pc = "exited"
=============================================================================
