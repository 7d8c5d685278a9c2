------------------------- MODULE BrainSchedulerProofs -------------------------
(***************************************************************************)
(* For any keys, priorities, callers, capacity, lifetimes and bounds: the  *)
(* queue of BrainScheduler keeps the invariants of its package comment,    *)
(* never gives up a P1 task to make room, and loses no wakeup.             *)
(***************************************************************************)
EXTENDS BrainScheduler, FiniteSetTheorems, TLAPS

\* What is inductive: the types, and the queue's own invariants.
Inv == TypeOK /\ QueueInvariant

\* The queue after a refresh: as many tasks as before, with the same keys and
\* the same slots (taskQueue.add, the loop over q.tasks).
LEMMA RefreshKeepsQueue ==
  ASSUME Inv, NEW t \in Task, Refresh(t)
  PROVE  queue' \in SUBSET Task /\ QueueInvariant'
<1>1. PICK u \in SameKey(t) : queue' = (queue \ {u}) \cup {[t EXCEPT !.slot = u.slot]}
  BY DEF Refresh
<1> DEFINE new == [t EXCEPT !.slot = u.slot]
<1>2. u \in queue /\ u.key = t.key /\ u \in Task
  BY <1>1 DEF SameKey, Inv, TypeOK
<1>3. new \in Task /\ new.key = u.key /\ new.slot = u.slot
  BY <1>2 DEF Task
<1>4. queue' \in SUBSET Task
  BY <1>1, <1>3 DEF Inv, TypeOK
<1>5. IsFiniteSet(queue') /\ Cardinality(queue') <= QueueMax
  <2>1. /\ IsFiniteSet(queue \ {u})
        /\ Cardinality(queue \ {u}) = Cardinality(queue) - 1
    BY <1>2, FS_RemoveElement DEF Inv, QueueInvariant
  <2>2. /\ IsFiniteSet(queue')
        /\ \/ Cardinality(queue') = Cardinality(queue \ {u})
           \/ Cardinality(queue') = Cardinality(queue \ {u}) + 1
    BY <1>1, <2>1, FS_AddElement
  <2>3. Cardinality(queue) \in Nat /\ Cardinality(queue) <= QueueMax
    BY FS_CardinalityType DEF Inv, QueueInvariant
  <2> QED BY <2>1, <2>2, <2>3, SchedulerAssumption
<1>6. \A v \in queue \ {u} : v.key # new.key /\ v.slot # new.slot
  BY <1>2, <1>3 DEF Inv, QueueInvariant, OneTaskPerKey, OneTaskPerSlot
<1>7. OneTaskPerKey'
  BY <1>1, <1>6 DEF Inv, QueueInvariant, OneTaskPerKey
<1>8. OneTaskPerSlot'
  BY <1>1, <1>6 DEF Inv, QueueInvariant, OneTaskPerSlot
<1> QED BY <1>4, <1>5, <1>7, <1>8 DEF QueueInvariant

\* The queue after a new key came in: at most one task made room for it, and the
\* slot it takes is nobody's (taskQueue.add, eviction and append).
LEMMA InsertKeepsQueue ==
  ASSUME Inv, NEW t \in Task, Insert(t)
  PROVE  queue' \in SUBSET Task /\ QueueInvariant'
<1>1. PICK evicted \in SUBSET queue, s \in 1..(Cardinality(queue) + MaxStamp) :
         /\ Room(evicted)
         /\ LastSlot(s)
         /\ queue' = (queue \ evicted) \cup {[t EXCEPT !.slot = s]}
  BY DEF Insert
<1> DEFINE new == [t EXCEPT !.slot = s]
<1>2. Cardinality(queue) \in Nat /\ Cardinality(queue) <= QueueMax
  BY FS_CardinalityType DEF Inv, QueueInvariant
<1>3. s \in Nat \ {0}
  BY <1>1, <1>2, SchedulerAssumption
<1>4. new \in Task /\ new.key = t.key /\ new.slot = s
  BY <1>3 DEF Task
<1>5. queue' \in SUBSET Task
  BY <1>1, <1>4 DEF Inv, TypeOK
<1>6. /\ IsFiniteSet(queue \ evicted)
      /\ Cardinality(queue \ evicted) \in Nat
      /\ Cardinality(queue \ evicted) + 1 <= QueueMax
  <2>1. CASE Full
    <3>1. PICK u \in queue : evicted = {u}
      BY <1>1, <2>1 DEF Room, Evictable
    <3>2. /\ IsFiniteSet(queue \ {u})
          /\ Cardinality(queue \ {u}) = Cardinality(queue) - 1
      BY <3>1, FS_RemoveElement DEF Inv, QueueInvariant
    <3>3. Cardinality(queue \ {u}) \in Nat
      BY <3>2, FS_CardinalityType
    <3> QED BY <3>1, <3>2, <3>3, <1>2, SchedulerAssumption
  <2>2. CASE ~Full
    <3>1. evicted = {} /\ Cardinality(queue) < QueueMax
      BY <1>1, <1>2, <2>2, SchedulerAssumption DEF Room, Full
    <3>2. queue \ evicted = queue
      BY <3>1
    <3> QED BY <3>1, <3>2, <1>2, SchedulerAssumption DEF Inv, QueueInvariant
  <2> QED BY <2>1, <2>2
<1>7. IsFiniteSet(queue') /\ Cardinality(queue') <= QueueMax
  <2>1. /\ IsFiniteSet(queue')
        /\ \/ Cardinality(queue') = Cardinality(queue \ evicted)
           \/ Cardinality(queue') = Cardinality(queue \ evicted) + 1
    BY <1>1, <1>6, FS_AddElement
  <2> QED BY <2>1, <1>6, SchedulerAssumption
<1>8. OneTaskPerKey'
  <2>1. \A u \in queue : u.key # t.key
    BY DEF Insert, SameKey
  <2> QED BY <1>1, <1>4, <2>1 DEF Inv, QueueInvariant, OneTaskPerKey
<1>9. OneTaskPerSlot'
  <2>1. \A u \in queue : u.slot \in Nat /\ u.slot < s
    BY <1>1 DEF LastSlot, Inv, TypeOK, Task
  <2>2. \A u \in queue : u.slot # s
    BY <2>1, <1>3
  <2> QED BY <1>1, <1>4, <2>2 DEF Inv, QueueInvariant, OneTaskPerSlot
<1> QED BY <1>5, <1>7, <1>8, <1>9 DEF QueueInvariant

\* A queue that lost tasks is still one (drain).
LEMMA SmallerQueue ==
  ASSUME Inv, queue' \subseteq queue
  PROVE  queue' \in SUBSET Task /\ QueueInvariant'
<1>1. IsFiniteSet(queue') /\ Cardinality(queue') <= Cardinality(queue)
  BY FS_Subset DEF Inv, QueueInvariant
<1>2. Cardinality(queue) \in Nat /\ Cardinality(queue') \in Nat /\ Cardinality(queue) <= QueueMax
  BY <1>1, FS_CardinalityType DEF Inv, QueueInvariant
<1>3. OneTaskPerKey' /\ OneTaskPerSlot'
  BY DEF Inv, QueueInvariant, OneTaskPerKey, OneTaskPerSlot
<1> QED BY <1>1, <1>2, <1>3, SchedulerAssumption DEF QueueInvariant, Inv, TypeOK

\* Types and queue invariants hold in every reachable state, whatever the
\* interleaving of Submit calls with the drain goroutine.
THEOREM InvHolds == Spec => []Inv
<1> USE SchedulerAssumption
<1>1. Init => Inv
  <2> SUFFICES ASSUME Init PROVE Inv
    OBVIOUS
  <2>1. QueueInvariant
    BY FS_EmptySet DEF Init, QueueInvariant, OneTaskPerKey, OneTaskPerSlot
  <2>2. drainer \in Drainer
    BY DEF Init, Drainer, DrainerPcs, Healths
  <2>3. caller \in [Callers -> Call]
    <3>1. [st |-> "idle"] \in Call
      BY DEF Call
    <3> QED BY <3>1 DEF Init
  <2>4. now \in 0..MaxTime /\ stamps \in 0..MaxStamp
    BY DEF Init
  <2>5. /\ health \in Healths /\ queue \in SUBSET Task
        /\ signal \in BOOLEAN /\ done \in BOOLEAN /\ steady \in BOOLEAN
    BY Zenon DEF Init
  <2>6. TypeOK
    BY <2>2, <2>3, <2>4, <2>5 DEF TypeOK
  <2> QED BY <2>1, <2>6 DEF Inv
<1>2. Inv /\ [Next]_vars => Inv'
  <2> SUFFICES ASSUME Inv, [Next]_vars PROVE Inv'
    OBVIOUS
  <2>0. TypeOK /\ QueueInvariant
    BY DEF Inv
  <2>same. ASSUME UNCHANGED queue PROVE QueueInvariant'
    BY <2>0, <2>same DEF QueueInvariant, OneTaskPerKey, OneTaskPerSlot
  <2>1. CASE Tick
    BY <2>0, <2>1, <2>same DEF Tick, TypeOK, Inv
  <2>2. CASE Sample
    BY <2>0, <2>2, <2>same DEF Sample, TypeOK, Inv
  <2>3. CASE Stop
    BY <2>0, <2>3, <2>same DEF Stop, TypeOK, Inv
  <2>4. ASSUME NEW c \in Callers, NEW k \in Keys, SubmitBegins(c, k) PROVE Inv'
    <3> DEFINE new == [key |-> k, stamp |-> stamps + 1, at |-> now, slot |-> 1]
    <3>1. stamps + 1 \in 1..MaxStamp /\ now \in 0..MaxTime
      BY <2>0, <2>4 DEF TypeOK, SubmitBegins
    <3>2. new \in Task
      BY <3>1 DEF Task
    <3>3. [st |-> "built", task |-> new] \in Call
      BY <3>2 DEF Call
    <3>4. caller' \in [Callers -> Call]
      BY <2>0, <2>4, <3>3 DEF TypeOK, SubmitBegins
    <3>5. TypeOK'
      BY <2>0, <2>4, <3>1, <3>4 DEF TypeOK, SubmitBegins
    <3> QED BY <2>4, <2>same, <3>5 DEF Inv, SubmitBegins
  <2>5. ASSUME NEW c \in Callers, SubmitAdds(c) PROVE Inv'
    <3>1. caller[c].task \in Task
      BY <2>0, <2>5 DEF TypeOK, SubmitAdds, Call
    <3>2. queue' \in SUBSET Task /\ QueueInvariant'
      BY <2>5, <3>1, RefreshKeepsQueue, InsertKeepsQueue DEF SubmitAdds
    <3>3. [st |-> "added", task |-> caller[c].task] \in Call
      BY <3>1 DEF Call
    <3>4. caller' \in [Callers -> Call]
      BY <2>0, <2>5, <3>3 DEF TypeOK, SubmitAdds
    <3>5. TypeOK'
      BY <2>0, <2>5, <3>2, <3>4 DEF TypeOK, SubmitAdds
    <3> QED BY <3>2, <3>5 DEF Inv
  <2>6. ASSUME NEW c \in Callers, SubmitDropped(c) \/ SubmitSignals(c) PROVE Inv'
    <3>1. [st |-> "idle"] \in Call
      BY DEF Call
    <3>2. caller' \in [Callers -> Call] /\ signal' \in BOOLEAN
      BY <2>0, <2>6, <3>1 DEF TypeOK, SubmitDropped, SubmitSignals
    <3>3. TypeOK'
      BY <2>0, <2>6, <3>2 DEF TypeOK, SubmitDropped, SubmitSignals
    <3> QED BY <2>6, <2>same, <3>3 DEF Inv, SubmitDropped, SubmitSignals
  <2>7. CASE Wakes
    <3>1. drainer' \in Drainer /\ signal' \in BOOLEAN
      BY <2>0, <2>7 DEF TypeOK, Wakes, Drainer, DrainerPcs
    <3> QED BY <2>0, <2>7, <2>same, <3>1 DEF TypeOK, Wakes, Inv
  <2>8. CASE Gate
    <3>1. drainer' \in Drainer /\ steady' \in BOOLEAN
      BY <2>0, <2>8 DEF TypeOK, Gate, Drainer, DrainerPcs
    <3> QED BY <2>0, <2>8, <2>same, <3>1 DEF TypeOK, Gate, Inv
  <2>9. CASE Drain
    <3> DEFINE alive == {t \in queue : ~Expired(t)}
               run == {t \in alive : Eligible(t)}
    <3>1. /\ queue' = alive \ run
          /\ drainer' = [drainer EXCEPT !.pc = "run", !.todo = run, !.ran = run # {}]
          /\ steady' = IF alive = run THEN health = "green" ELSE steady
          /\ UNCHANGED <<now, health, signal, done, caller, stamps>>
      BY <2>9 DEF Drain
    <3>2. run \in SUBSET Task /\ queue' \subseteq queue
      BY <2>0, <3>1 DEF TypeOK
    <3>3. queue' \in SUBSET Task /\ QueueInvariant'
      BY <3>2, SmallerQueue
    <3> HIDE DEF alive, run
    <3>4. drainer' \in Drainer
      BY <2>0, <3>1, <3>2 DEF TypeOK, Drainer, DrainerPcs
    <3>5. steady' \in BOOLEAN
      BY <2>0, <3>1 DEF TypeOK
    <3> QED BY <2>0, <3>1, <3>3, <3>4, <3>5 DEF TypeOK, Inv
  <2>10. ASSUME NEW t \in drainer.todo, Runs(t) PROVE Inv'
    <3>1. drainer' \in Drainer
      BY <2>0, <2>10 DEF TypeOK, Runs, Drainer
    <3> QED BY <2>0, <2>10, <2>same, <3>1 DEF TypeOK, Runs, Inv
  <2>11. CASE BatchDone
    <3>1. drainer' \in Drainer
      BY <2>0, <2>11 DEF TypeOK, BatchDone, Drainer, DrainerPcs
    <3> QED BY <2>0, <2>11, <2>same, <3>1 DEF TypeOK, BatchDone, Inv
  <2>12. CASE Recheck
    <3>1. drainer' \in Drainer /\ signal' \in BOOLEAN
      BY <2>0, <2>12 DEF TypeOK, Recheck, Drainer, DrainerPcs
    <3> QED BY <2>0, <2>12, <2>same, <3>1 DEF TypeOK, Recheck, Inv
  <2>13. CASE Exits
    <3>1. drainer' \in Drainer
      BY <2>0, <2>13 DEF TypeOK, Exits, Drainer, DrainerPcs
    <3> QED BY <2>0, <2>13, <2>same, <3>1 DEF TypeOK, Exits, Inv
  <2>14. CASE UNCHANGED vars
    BY <2>0, <2>14, <2>same DEF vars, TypeOK, Inv
  <2> QED BY <2>1, <2>2, <2>3, <2>4, <2>5, <2>6, <2>7, <2>8, <2>9, <2>10, <2>11, <2>12,
             <2>13, <2>14 DEF Next
<1> QED BY <1>1, <1>2, PTL DEF Spec

\* Every reachable state of the scheduler has the declared types.
THEOREM TypeCorrect == Spec => []TypeOK
<1>1. Inv => TypeOK
  BY DEF Inv
<1> QED BY <1>1, InvHolds, PTL

\* The queue never holds more than QueueMax tasks, nor two with one key or slot,
\* with any number of goroutines in Submit while batches are drained and run
\* (the queue invariants of scheduler.go:21-22).
THEOREM QueueIsSound == Spec => []QueueInvariant
<1>1. Inv => QueueInvariant
  BY DEF Inv
<1> QED BY <1>1, InvHolds, PTL

\* A P1 task leaves the queue to run, because it expired, or for a newer task of
\* its key, and for no other reason: only P2 tasks make room (scheduler.go:119-131).
THEOREM P1Kept == Spec => P1NeverEvicted
<1> DEFINE Kept == \A t \in queue \ queue' :
                      Prio1(t) => \/ t \in drainer'.todo
                                  \/ Expired(t)
                                  \/ \E u \in queue' : u.key = t.key
<1>1. Inv /\ [Next]_vars => [Kept]_vars
  <2> SUFFICES ASSUME Inv, Next PROVE Kept
    OBVIOUS
  <2>1. ASSUME UNCHANGED queue PROVE Kept
    BY <2>1
  <2>2. ASSUME NEW c \in Callers, SubmitAdds(c) PROVE Kept
    <3> DEFINE x == caller[c].task
    <3>0. x \in Task
      BY <2>2 DEF Inv, TypeOK, SubmitAdds, Call
    <3>1. CASE Refresh(x)
      <4>1. PICK u \in SameKey(x) : queue' = (queue \ {u}) \cup {[x EXCEPT !.slot = u.slot]}
        BY <3>1 DEF Refresh
      <4>2. [x EXCEPT !.slot = u.slot].key = x.key /\ u.key = x.key
        BY <3>0, <4>1 DEF Task, SameKey
      <4> QED BY <4>1, <4>2
    <3>2. CASE Insert(x)
      <4>1. PICK evicted \in SUBSET queue, s \in 1..(Cardinality(queue) + MaxStamp) :
               /\ Room(evicted)
               /\ queue' = (queue \ evicted) \cup {[x EXCEPT !.slot = s]}
        BY <3>2 DEF Insert
      <4>2. \A u \in evicted : Prio[u.key] = 2
        BY <4>1 DEF Room, Evictable
      <4>3. \A u \in queue \ queue' : ~Prio1(u)
        BY <4>1, <4>2 DEF Prio1
      <4> QED BY <4>3
    <3> QED BY <2>2, <3>1, <3>2 DEF SubmitAdds
  <2>3. CASE Drain
    BY <2>3 DEF Drain
  <2> QED BY <2>1, <2>2, <2>3 DEF Next, Tick, Sample, Stop, SubmitBegins, SubmitDropped,
             SubmitSignals, Wakes, Gate, Runs, BatchDone, Recheck, Exits
<1> QED BY <1>1, InvHolds, PTL DEF Spec, P1NeverEvicted

\* A cycle that started on a Green machine which stayed so reads Green, and a second
\* drain of a cycle takes everything.
GreenCycle ==
  steady /\ health = "green" =>
    /\ drainer.pc = "gate" => drainer.health = "green"
    /\ drainer.pc = "drain" => drainer.health = "green" \/ drainer.piggyback

\* What NoWakeupLost rests on: a drain goroutine that has drained does not count.
WakeupDue ==
  queue # {} /\ steady /\ health = "green" /\ drainer.pc # "exited" =>
    \/ signal
    \/ \E c \in Callers : caller[c].st = "added"
    \/ drainer.pc \in {"gate", "drain"}

\* On a Green machine with a gate that lets every cycle pass, a queued task always has
\* a token, a Submit call about to give one, or a drain goroutine that will still look
\* at the queue: it never waits for the ticker (scheduler.go:308-321, 431-441).
THEOREM WakeupsKept == Spec => []NoWakeupLost
<1> DEFINE Wakeups == GreenCycle /\ WakeupDue
<1>1. Init => Wakeups
  BY DEF Init, GreenCycle, WakeupDue
<1>2. Inv /\ Wakeups /\ [Next]_vars => Wakeups'
  <2> SUFFICES ASSUME Inv, Wakeups, [Next]_vars PROVE Wakeups'
    OBVIOUS
  <2>0. /\ TypeOK /\ GreenCycle /\ WakeupDue
        /\ drainer = [pc |-> drainer.pc, health |-> drainer.health, todo |-> drainer.todo,
                      ran |-> drainer.ran, piggyback |-> drainer.piggyback]
    BY DEF Inv, TypeOK, Drainer
  <2>1. CASE Tick \/ Stop
    BY <2>0, <2>1 DEF Tick, Stop, GreenCycle, WakeupDue
  <2>2. CASE Sample
    BY <2>2 DEF Sample, GreenCycle, WakeupDue
  <2>3. ASSUME NEW c \in Callers, NEW k \in Keys, SubmitBegins(c, k) PROVE Wakeups'
    <3>1. \A d \in Callers : caller[d].st = "added" => caller'[d].st = "added"
      BY <2>0, <2>3 DEF SubmitBegins, TypeOK
    <3> QED BY <2>0, <2>3, <3>1 DEF SubmitBegins, GreenCycle, WakeupDue
  <2>4. ASSUME NEW c \in Callers, SubmitAdds(c) PROVE Wakeups'
    <3>1. caller'[c].st = "added"
      BY <2>0, <2>4 DEF SubmitAdds, TypeOK
    <3> QED BY <2>0, <2>4, <3>1 DEF SubmitAdds, GreenCycle, WakeupDue
  <2>5. ASSUME NEW c \in Callers, SubmitDropped(c) PROVE Wakeups'
    <3>1. \A d \in Callers : caller[d].st = "added" => caller'[d].st = "added"
      BY <2>0, <2>5 DEF SubmitDropped, TypeOK
    <3> QED BY <2>0, <2>5, <3>1 DEF SubmitDropped, GreenCycle, WakeupDue
  <2>6. ASSUME NEW c \in Callers, SubmitSignals(c) PROVE Wakeups'
    BY <2>0, <2>6 DEF SubmitSignals, GreenCycle, WakeupDue
  <2>7. CASE Wakes
    BY <2>0, <2>7 DEF Wakes, GreenCycle, WakeupDue
  <2>8. CASE Gate
    BY <2>0, <2>8 DEF Gate, GreenCycle, WakeupDue
  <2>9. CASE Drain
    <3> DEFINE alive == {t \in queue : ~Expired(t)}
               run == {t \in alive : Eligible(t)}
    <3>1. /\ queue' = alive \ run
          /\ drainer'.pc = "run"
          /\ steady' = IF alive = run THEN health = "green" ELSE steady
          /\ UNCHANGED <<health, signal, caller>>
          /\ drainer.pc = "drain"
      BY <2>0, <2>9 DEF Drain
    <3>2. GreenCycle'
      BY <3>1 DEF GreenCycle
    <3>3. CASE alive = run
      BY <3>1, <3>2, <3>3 DEF WakeupDue
    <3>4. CASE alive # run
      <4>1. ~(drainer.health = "green" \/ drainer.piggyback)
        BY <3>4 DEF Eligible
      <4>2. ~(steady /\ health = "green")
        BY <2>0, <3>1, <4>1 DEF GreenCycle
      <4>3. steady' = steady /\ health' = health
        BY <3>1, <3>4
      <4> QED BY <3>2, <4>2, <4>3 DEF WakeupDue
    <3> QED BY <3>3, <3>4
  <2>10. ASSUME NEW t \in drainer.todo, Runs(t) PROVE Wakeups'
    BY <2>0, <2>10 DEF Runs, GreenCycle, WakeupDue
  <2>11. CASE BatchDone
    BY <2>0, <2>11 DEF BatchDone, GreenCycle, WakeupDue
  <2>12. CASE Recheck
    BY <2>0, <2>12 DEF Recheck, GreenCycle, WakeupDue
  <2>13. CASE Exits
    BY <2>0, <2>13 DEF Exits, GreenCycle, WakeupDue
  <2>14. CASE UNCHANGED vars
    BY <2>0, <2>14 DEF vars, GreenCycle, WakeupDue
  <2> QED BY <2>1, <2>2, <2>3, <2>4, <2>5, <2>6, <2>7, <2>8, <2>9, <2>10, <2>11, <2>12,
             <2>13, <2>14 DEF Next
<1>3. Inv /\ Wakeups => NoWakeupLost
  BY DEF WakeupDue, NoWakeupLost
<1> QED BY <1>1, <1>2, <1>3, InvHolds, PTL DEF Spec

-----------------------------------------------------------------------------
\* Queue and batch implement WorkSet.

LEMMA SameCardinality == \A S : Work!Cardinality(S) = Cardinality(S)
BY DEF Work!Cardinality, Cardinality

\* Tasks with different keys are different pieces of work.
LEMMA OnePieceEach ==
    ASSUME NEW T, IsFiniteSet(T), \A t, u \in T : t.key = u.key => t = u
    PROVE  Cardinality(Pieces(T)) = Cardinality(T)
<1> DEFINE f == [t \in T |-> Piece(t)]
<1>1. \A t, u \in T : Piece(t) = Piece(u) => t = u
  BY DEF Piece
<1>2. f \in Injection(T, Pieces(T))
  BY <1>1 DEF Injection, IsInjective, Pieces
<1>3. f \in Surjection(T, Pieces(T))
  BY DEF Surjection, Pieces
<1>4. ExistsBijection(T, Pieces(T))
  BY <1>2, <1>3 DEF ExistsBijection, Bijection
<1> QED BY <1>4, FS_Bijection

\* Nothing is in a batch before it was drained or when the drain goroutine waits, and
\* a batch has one task for each key, as the queue had.
BatchApart ==
    /\ drainer.pc # "run" => drainer.todo = {}
    /\ \A t, u \in drainer.todo : t.key = u.key => t = u

\* No two Submit calls have the same number.
Built(c) == caller[c].st = "built"
CallsApart ==
    /\ \A c \in Callers : Built(c) => caller[c].task.stamp \in 1..stamps
    /\ \A c, d \in Callers :
          Built(c) /\ Built(d) /\ caller[c].task.stamp = caller[d].task.stamp => c = d

LEMMA BatchStaysApart ==
    ASSUME Inv, BatchApart, [Next]_vars
    PROVE  BatchApart'
<1>0. /\ drainer = [pc |-> drainer.pc, health |-> drainer.health, todo |-> drainer.todo,
                    ran |-> drainer.ran, piggyback |-> drainer.piggyback]
      /\ OneTaskPerKey
  BY DEF Inv, TypeOK, Drainer, QueueInvariant
<1>1. ASSUME UNCHANGED drainer PROVE BatchApart'
  <2>1. drainer'.pc = drainer.pc /\ drainer'.todo = drainer.todo
    BY <1>1
  <2> QED BY <1>0, <2>1 DEF BatchApart
<1>2. CASE Wakes \/ Gate \/ Recheck \/ Exits
  <2>1. drainer.todo = {} /\ drainer'.todo = drainer.todo
    <3>1. CASE Wakes
      BY <3>1 DEF Wakes, BatchApart
    <3>2. CASE Gate
      BY <1>0, <3>2 DEF Gate, BatchApart
    <3>3. CASE Recheck
      BY <1>0, <3>3 DEF Recheck, BatchApart
    <3>4. CASE Exits
      BY <1>0, <3>4 DEF Exits, BatchApart
    <3> QED BY <1>2, <3>1, <3>2, <3>3, <3>4
  <2> QED BY <2>1 DEF BatchApart
<1>3. CASE Drain
  <2> DEFINE alive == {t \in queue : ~Expired(t)}
             run == {t \in alive : Eligible(t)}
  <2>1. drainer'.pc = "run" /\ drainer'.todo = run
    BY <1>0, <1>3 DEF Drain
  <2> QED BY <1>0, <2>1 DEF BatchApart, OneTaskPerKey
<1>4. ASSUME NEW t \in drainer.todo, Runs(t) PROVE BatchApart'
  BY <1>0, <1>4 DEF Runs, BatchApart
<1>5. CASE BatchDone
  BY <1>0, <1>5 DEF BatchDone, BatchApart
<1> QED BY <1>1, <1>2, <1>3, <1>4, <1>5 DEF Next, Tick, Sample, Stop, SubmitBegins,
           SubmitAdds, SubmitDropped, SubmitSignals, vars

LEMMA CallsStayApart ==
    ASSUME Inv, CallsApart, [Next]_vars
    PROVE  CallsApart'
<1>0. /\ caller \in [Callers -> Call]
      /\ stamps \in 0..MaxStamp
  BY DEF Inv, TypeOK
<1>1. ASSUME UNCHANGED <<caller, stamps>> PROVE CallsApart'
  BY <1>1 DEF CallsApart, Built
<1>2. ASSUME NEW c \in Callers, NEW k \in Keys, SubmitBegins(c, k) PROVE CallsApart'
  <2>1. /\ stamps' = stamps + 1
        /\ stamps + 1 \notin 1..stamps /\ stamps + 1 \in 1..(stamps + 1)
        /\ \A n \in 1..stamps : n \in 1..(stamps + 1)
    BY <1>0, <1>2, SchedulerAssumption DEF SubmitBegins
  <2>2. /\ caller'[c].task.stamp = stamps + 1
        /\ \A d \in Callers : d # c => caller'[d] = caller[d]
    BY <1>0, <1>2 DEF SubmitBegins
  <2> QED BY <2>1, <2>2 DEF CallsApart, Built
<1>3. ASSUME NEW c \in Callers, SubmitAdds(c) \/ SubmitDropped(c) \/ SubmitSignals(c)
      PROVE  CallsApart'
  <2>1. /\ stamps' = stamps
        /\ ~Built(c)'
        /\ \A d \in Callers : d # c => caller'[d] = caller[d]
    BY <1>0, <1>3 DEF SubmitAdds, SubmitDropped, SubmitSignals, Built
  <2> QED BY <2>1 DEF CallsApart, Built
<1> QED BY <1>1, <1>2, <1>3 DEF Next, Tick, Sample, Stop, Wakes, Gate, Drain, BatchDone,
           Recheck, Exits, Runs, vars

LEMMA AlwaysApart == Spec => [](BatchApart /\ CallsApart)
<1>1. Init => BatchApart /\ CallsApart
  BY DEF Init, BatchApart, CallsApart, Built
<1> QED BY <1>1, InvHolds, BatchStaysApart, CallsStayApart, PTL DEF Spec

\* What has been taken or dropped of the submissions when a call ends its first half.
LEMMA SubmissionCounts ==
    ASSUME Inv, CallsApart, NEW c \in Callers, Built(c), ~Built(c)',
           \A d \in Callers : d # c => caller'[d] = caller[d], stamps' = stamps
    PROVE  LET id == caller[c].task.stamp
               offered == (1..stamps) \ InSubmit
           IN  /\ id \in 1..MaxStamp /\ id \notin offered
               /\ ((1..stamps) \ InSubmit)' = offered \cup {id}
<1> DEFINE id == caller[c].task.stamp
<1>1. id \in InSubmit /\ id \in 1..stamps
  BY DEF InSubmit, Built, CallsApart
<1>2. id \in 1..MaxStamp
  BY <1>1, SchedulerAssumption DEF Inv, TypeOK
<1>3. \A n : n \in InSubmit' <=> n \in InSubmit /\ n # id
  <2>1. ASSUME NEW n \in InSubmit' PROVE n \in InSubmit /\ n # id
    <3>1. PICK d \in Callers : Built(d)' /\ n = caller'[d].task.stamp
      BY <2>1 DEF InSubmit, Built
    <3>2. d # c /\ caller'[d] = caller[d]
      BY <3>1
    <3>3. Built(d) /\ n = caller[d].task.stamp
      BY <3>1, <3>2 DEF Built
    <3> QED BY <3>2, <3>3 DEF InSubmit, Built, CallsApart
  <2>2. ASSUME NEW n \in InSubmit, n # id PROVE n \in InSubmit'
    <3>1. PICK d \in Callers : Built(d) /\ n = caller[d].task.stamp
      BY DEF InSubmit, Built
    <3>2. caller'[d] = caller[d]
      BY <2>2, <3>1
    <3> QED BY <3>1, <3>2 DEF InSubmit, Built
  <2> QED BY <2>1, <2>2
<1> QED BY <1>1, <1>2, <1>3

\* add takes the task as WorkSet takes the piece of work.
LEMMA AddTakes ==
    ASSUME Inv, NEW t \in Task, Refresh(t) \/ Insert(t)
    PROVE  Work!Take(t.key, t.stamp)
<1> DEFINE piece == [key |-> t.key, id |-> t.stamp]
           same == {w \in Pieces(queue) : w.key = t.key}
<1>1. Cardinality(Pieces(queue)) = Cardinality(queue)
  BY OnePieceEach DEF Inv, QueueInvariant, OneTaskPerKey
<1>2. Cardinality(queue) \in Nat
  BY FS_CardinalityType DEF Inv, QueueInvariant
<1>3. Work!HasRoom <=> ~Full
  BY <1>1, <1>2, SameCardinality, SchedulerAssumption DEF Work!HasRoom, Full
<1>4. \A u \in queue : u \in Task
  BY DEF Inv, TypeOK
<1>5. ASSUME NEW s, NEW gone \in SUBSET queue,
             queue' = (queue \ gone) \cup {[t EXCEPT !.slot = s]}
      PROVE  Pieces(queue)' = (Pieces(queue) \ Pieces(gone)) \cup {piece}
  <2>1. Piece([t EXCEPT !.slot = s]) = piece
    BY DEF Piece, Task
  <2>2. \A u, v \in queue : Piece(u) = Piece(v) => u = v
    BY DEF Piece, Inv, QueueInvariant, OneTaskPerKey
  <2>3. Pieces(queue') = (Pieces(queue) \ Pieces(gone)) \cup {piece}
    BY <1>5, <2>1, <2>2 DEF Pieces
  <2> QED BY <2>3 DEF Pieces, Piece
<1>6. CASE Refresh(t)
  <2>1. PICK u \in SameKey(t) : queue' = (queue \ {u}) \cup {[t EXCEPT !.slot = u.slot]}
    BY <1>6 DEF Refresh
  <2>2. u \in queue /\ u.key = t.key
    BY <2>1 DEF SameKey
  <2>3. Pieces({u}) = same /\ same # {}
    <3>1. \A v \in queue : v.key = t.key <=> v = u
      BY <2>2 DEF Inv, QueueInvariant, OneTaskPerKey
    <3>2. \A v : Piece(v).key = v.key
      BY DEF Piece
    <3>3. same = {Piece(u)}
      BY <3>1, <3>2, <2>2 DEF Pieces
    <3> QED BY <3>3 DEF Pieces
  <2>4. Pieces(queue)' = (Pieces(queue) \ same) \cup {piece}
    <3>1. {u} \in SUBSET queue
      BY <2>2
    <3>2. Pieces(queue)' = (Pieces(queue) \ Pieces({u})) \cup {piece}
      BY <1>5, <2>1, <3>1
    <3> QED BY <2>3, <3>2
  <2> QED BY <2>3, <2>4 DEF Work!Take, Work!Same, Work!Replace
<1>7. CASE Insert(t)
  <2>1. PICK evicted \in SUBSET queue, s \in 1..(Cardinality(queue) + MaxStamp) :
           /\ Room(evicted)
           /\ queue' = (queue \ evicted) \cup {[t EXCEPT !.slot = s]}
    BY <1>7 DEF Insert
  <2>2. same = {}
    BY <1>7 DEF Insert, SameKey, Pieces, Piece
  <2>3. Pieces(queue)' = (Pieces(queue) \ Pieces(evicted)) \cup {piece}
    BY <1>5, <2>1
  <2>4. CASE Full
    <3>1. PICK u \in Evictable : evicted = {u}
      BY <2>1, <2>4 DEF Room
    <3>2. Piece(u) \in Pieces(queue) /\ Prio[Piece(u).key] = 2 /\ Pieces(evicted) = {Piece(u)}
      BY <3>1 DEF Evictable, Pieces, Piece
    <3> QED BY <1>3, <2>2, <2>3, <2>4, <3>2 DEF Work!Take, Work!Same, Work!Replace
  <2>5. CASE ~Full
    <3>1. Pieces(evicted) = {}
      BY <2>1, <2>5 DEF Room, Pieces
    <3> QED BY <1>3, <2>2, <2>3, <2>5, <3>1 DEF Work!Take, Work!Same, Work!Replace
  <2> QED BY <2>4, <2>5
<1> QED BY <1>6, <1>7

\* A task that is dropped is turned away: the queue is full of urgent work.
LEMMA DropTurnsAway ==
    ASSUME Inv, NEW t \in Task, SameKey(t) = {}, Full, Evictable = {}, UNCHANGED queue
    PROVE  Work!TurnAway(t.key)
<1>1. Cardinality(Pieces(queue)) = Cardinality(queue)
  BY OnePieceEach DEF Inv, QueueInvariant, OneTaskPerKey
<1>2. Cardinality(queue) \in Nat
  BY FS_CardinalityType DEF Inv, QueueInvariant
<1>3. ~Work!HasRoom
  BY <1>1, <1>2, SameCardinality, SchedulerAssumption DEF Work!HasRoom, Full
<1>4. Work!Same(t.key) = {}
  BY DEF Work!Same, SameKey, Pieces, Piece
<1>5. \A u \in queue : u.key \in Keys /\ Prio[u.key] # 2
  BY DEF Inv, TypeOK, Task, Evictable
<1>6. \A w \in Pieces(queue) : Prio[w.key] = 1
  BY <1>5, SchedulerAssumption DEF Pieces, Piece
<1>7. Pieces(queue)' = Pieces(queue)
  BY DEF Pieces, Piece
<1> QED BY <1>3, <1>4, <1>6, <1>7 DEF Work!TurnAway

\* What waits, what runs and what was submitted, under the mapping.
Waiting == Pieces(queue)
Active == Pieces(drainer.todo)
Submitted == (1..stamps) \ InSubmit

\* Every step of the scheduler is a step of WorkSet or changes none of the three.
LEMMA StepIsWork ==
    ASSUME Inv, BatchApart, CallsApart, [Next]_vars
    PROVE  Work!Next \/ UNCHANGED <<Waiting, Active, Submitted>>
<1> DEFINE Stutters == UNCHANGED <<Pieces(queue), Pieces(drainer.todo), (1..stamps) \ InSubmit>>
<1> SUFFICES Work!Next \/ Stutters
  BY DEF Waiting, Active, Submitted
<1>0. /\ drainer = [pc |-> drainer.pc, health |-> drainer.health, todo |-> drainer.todo,
                    ran |-> drainer.ran, piggyback |-> drainer.piggyback]
      /\ caller \in [Callers -> Call] /\ stamps \in 0..MaxStamp
  BY DEF Inv, TypeOK, Drainer
<1>1. ASSUME UNCHANGED queue PROVE Pieces(queue)' = Pieces(queue)
  BY <1>1 DEF Pieces, Piece
<1>2. ASSUME drainer'.todo = drainer.todo
      PROVE  Pieces(drainer.todo)' = Pieces(drainer.todo)
  BY <1>2 DEF Pieces, Piece
<1>3. ASSUME UNCHANGED <<caller, stamps>>
      PROVE  ((1..stamps) \ InSubmit)' = (1..stamps) \ InSubmit
  BY <1>3 DEF InSubmit
<1>4. CASE UNCHANGED vars \/ Tick \/ Sample \/ Stop
  <2>1. UNCHANGED <<queue, drainer, caller, stamps>>
    BY <1>4 DEF vars, Tick, Sample, Stop
  <2> QED BY <1>1, <1>2, <1>3, <2>1
<1>5. CASE Wakes \/ Gate \/ BatchDone \/ Recheck \/ Exits
  <2>1. drainer'.todo = drainer.todo
    <3>1. CASE Wakes
      BY <3>1 DEF Wakes, BatchApart
    <3>2. CASE Gate
      BY <1>0, <3>2 DEF Gate
    <3>3. CASE BatchDone
      BY <1>0, <3>3 DEF BatchDone
    <3>4. CASE Recheck \/ Exits
      BY <1>0, <3>4 DEF Recheck, Exits
    <3> QED BY <1>5, <3>1, <3>2, <3>3, <3>4
  <2>2. UNCHANGED <<queue, caller, stamps>>
    BY <1>5 DEF Wakes, Gate, BatchDone, Recheck, Exits
  <2> QED BY <1>1, <1>2, <1>3, <2>1, <2>2
<1>6. ASSUME NEW c \in Callers, NEW k \in Keys, SubmitBegins(c, k) PROVE Stutters
  <2>1. stamps' = stamps + 1 /\ UNCHANGED <<queue, drainer>>
    BY <1>6 DEF SubmitBegins
  <2>2. InSubmit' = InSubmit \cup {stamps + 1}
    <3>1. /\ ~Built(c) /\ Built(c)' /\ caller'[c].task.stamp = stamps + 1
          /\ \A d \in Callers : d # c => caller'[d] = caller[d]
      BY <1>0, <1>6 DEF SubmitBegins, Built
    <3>2. \A n : n \in InSubmit <=> \E d \in Callers : Built(d) /\ n = caller[d].task.stamp
      BY DEF InSubmit, Built
    <3>3. \A n : n \in InSubmit'
                   <=> \E d \in Callers : Built(d)' /\ n = caller'[d].task.stamp
      BY DEF InSubmit, Built
    <3>4. \A d \in Callers : d # c => (Built(d)' <=> Built(d))
      BY <3>1 DEF Built
    <3> QED BY <3>1, <3>2, <3>3, <3>4
  <2>3. (1..(stamps + 1)) \ {stamps + 1} = 1..stamps
    BY <1>0, SchedulerAssumption
  <2>4. ((1..stamps) \ InSubmit)' = (1..stamps) \ InSubmit
    BY <2>1, <2>2, <2>3
  <2> QED BY <1>1, <1>2, <2>1, <2>4
<1>7. ASSUME NEW c \in Callers, SubmitAdds(c) \/ SubmitDropped(c) PROVE Work!Next
  <2> DEFINE t == caller[c].task
  <2>1. /\ Built(c) /\ ~Built(c)'
        /\ stamps' = stamps /\ UNCHANGED drainer
        /\ \A d \in Callers : d # c => caller'[d] = caller[d]
    BY <1>0, <1>7 DEF SubmitAdds, SubmitDropped, Built
  <2>2. t \in Task
    BY <1>0, <2>1 DEF Built, Call
  <2>3. t.key \in Keys
    BY <2>2 DEF Task
  <2>4. /\ t.stamp \in 1..MaxStamp /\ t.stamp \notin (1..stamps) \ InSubmit
        /\ ((1..stamps) \ InSubmit)' = ((1..stamps) \ InSubmit) \cup {t.stamp}
    BY <2>1, SubmissionCounts
  <2>5. CASE SubmitAdds(c)
    <3>1. Refresh(t) \/ Insert(t)
      BY <2>5 DEF SubmitAdds
    <3> HIDE DEF t
    <3>2. Work!Take(t.key, t.stamp)
      BY <2>2, <3>1, AddTakes
    <3> QED BY <1>2, <2>1, <2>3, <2>4, <3>2 DEF Work!Next, Work!Offer
  <2>6. CASE SubmitDropped(c)
    <3>1. SameKey(t) = {} /\ Full /\ Evictable = {} /\ UNCHANGED queue
      BY <2>6 DEF SubmitDropped
    <3> HIDE DEF t
    <3>2. Work!TurnAway(t.key)
      BY <2>2, <3>1, DropTurnsAway
    <3> QED BY <1>2, <2>1, <2>3, <2>4, <3>2 DEF Work!Next, Work!Offer
  <2> QED BY <1>7, <2>5, <2>6
<1>8. ASSUME NEW c \in Callers, SubmitSignals(c) PROVE Stutters
  <2>1. /\ ~Built(c) /\ ~Built(c)'
        /\ UNCHANGED <<queue, drainer, stamps>>
        /\ \A d \in Callers : d # c => caller'[d] = caller[d]
    BY <1>0, <1>8 DEF SubmitSignals, Built
  <2>2. InSubmit' = InSubmit
    <3>1. \A n : n \in InSubmit <=> \E d \in Callers : Built(d) /\ n = caller[d].task.stamp
      BY DEF InSubmit, Built
    <3>2. \A n : n \in InSubmit'
                   <=> \E d \in Callers : Built(d)' /\ n = caller'[d].task.stamp
      BY DEF InSubmit, Built
    <3>3. \A d \in Callers : d # c => (Built(d)' <=> Built(d))
      BY <2>1 DEF Built
    <3> QED BY <2>1, <3>1, <3>2, <3>3
  <2> QED BY <1>1, <1>2, <2>1, <2>2
<1>9. CASE Drain
  <2> DEFINE alive == {t \in queue : ~Expired(t)}
             run == {t \in alive : Eligible(t)}
  <2>1. /\ drainer.todo = {} /\ drainer'.todo = run /\ queue' = alive \ run
        /\ UNCHANGED <<caller, stamps>>
    BY <1>0, <1>9 DEF Drain, BatchApart
  <2>2. run \subseteq queue /\ alive \ run \subseteq queue \ run
    OBVIOUS
  <2> HIDE DEF alive, run
  <2>3. \A t, u \in queue : Piece(t) = Piece(u) => t = u
    BY DEF Piece, Inv, QueueInvariant, OneTaskPerKey
  <2>4. /\ Pieces(drainer.todo) = {}
        /\ Pieces(run) \subseteq Pieces(queue)
        /\ Pieces(alive \ run) \subseteq Pieces(queue) \ Pieces(run)
    BY <2>1, <2>2, <2>3 DEF Pieces
  <2>5. Pieces(drainer.todo)' = Pieces(run) /\ Pieces(queue)' = Pieces(alive \ run)
    BY <2>1 DEF Pieces, Piece
  <2>6. Work!Hand
    BY <1>3, <2>1, <2>4, <2>5 DEF Work!Hand
  <2> QED BY <2>6 DEF Work!Next
<1>10. ASSUME NEW t \in drainer.todo, Runs(t) PROVE Work!Next
  <2>1. /\ drainer'.todo = drainer.todo \ {t}
        /\ \A u \in drainer.todo \ {t} : Before(t, u)
        /\ UNCHANGED <<queue, caller, stamps>>
    BY <1>0, <1>10 DEF Runs
  <2>2. \A u, v \in drainer.todo : Piece(u) = Piece(v) => u = v
    BY DEF Piece, BatchApart
  <2>3. Pieces(drainer.todo \ {t}) = Pieces(drainer.todo) \ {Piece(t)}
    BY <2>2 DEF Pieces
  <2>4. Pieces(drainer.todo)' = Pieces(drainer.todo) \ {Piece(t)}
    BY <2>1, <2>3 DEF Pieces, Piece
  <2>5. \A u \in drainer.todo \ {t} : Work!Ahead(Piece(t), Piece(u))
    BY <2>1 DEF Before, Work!Ahead, Piece
  <2>6. \A w \in Pieces(drainer.todo) \ {Piece(t)} : Work!Ahead(Piece(t), w)
    BY <2>5 DEF Pieces
  <2>7. Piece(t) \in Pieces(drainer.todo)
    BY DEF Pieces
  <2>8. Work!Finish
    BY <1>1, <1>3, <2>1, <2>4, <2>6, <2>7 DEF Work!Finish
  <2> QED BY <2>8 DEF Work!Next
<1> HIDE DEF Stutters
<1> QED BY <1>4, <1>5, <1>6, <1>7, <1>8, <1>9, <1>10 DEF Next

\* The scheduler's queue and batch, with any number of goroutines in Submit, are a
\* WorkSet: what waits is one task for each key, a task is never in the queue and
\* in the batch, nor in either again, and a batch runs by priority and time
\* (scheduler.go:106-138, 151-186, 417-420).
THEOREM SchedulerIsWorkSet == Spec => QueueIsWorkSet
<1>1. Init => Work!Init
  BY DEF Init, Work!Init, Pieces
<1>2. ASSUME Inv, BatchApart, CallsApart, [Next]_vars
      PROVE  [Work!Next]_<<Pieces(queue), Pieces(drainer.todo), (1..stamps) \ InSubmit>>
  BY <1>2, StepIsWork DEF Waiting, Active, Submitted
<1> QED BY <1>1, <1>2, InvHolds, AlwaysApart, PTL DEF Spec, QueueIsWorkSet, Work!Spec

\* What waits and what runs was submitted, and neither holds a submission of the other.
Once ==
    /\ \A w \in Waiting \cup Active : w.id \in Submitted
    /\ \A v, w \in Waiting : v.id = w.id => v = w
    /\ \A v \in Waiting, w \in Active : v.id # w.id

\* A submission that has left the queue does not wait again, one that waits nowhere does
\* not run, and one that ended does not run again.
Goes ==
    /\ \A w \in Waiting' : w.id \in Submitted => w \in Waiting
    /\ \A w \in Active' : w \in Waiting \cup Active

LEMMA WorkGoes ==
    ASSUME Once, Work!Next \/ UNCHANGED <<Waiting, Active, Submitted>>
    PROVE  Once' /\ Goes
<1>1. CASE UNCHANGED <<Waiting, Active, Submitted>>
  BY <1>1 DEF Once, Goes
<1>2. ASSUME NEW k \in Keys, NEW id \in 1..MaxStamp, Work!Offer(k, id) PROVE Once' /\ Goes
  <2> DEFINE new == [key |-> k, id |-> id]
  <2>1. /\ id \notin Submitted /\ Submitted' = Submitted \cup {id}
        /\ Active' = Active
        /\ Work!Take(k, id) \/ Work!TurnAway(k)
    BY <1>2 DEF Work!Offer, Waiting, Active, Submitted
  <2>2. \/ Waiting' = Waiting
        \/ \E gone : Waiting' = (Waiting \ gone) \cup {new}
    BY <2>1 DEF Work!Take, Work!TurnAway, Work!Replace, Waiting
  <2>3. \A w \in Waiting' : w \in Waiting \/ w = new
    BY <2>2
  <2> QED BY <2>1, <2>3 DEF Once, Goes
<1>3. CASE Work!Hand
  <2>1. /\ Active = {} /\ Active' \subseteq Waiting
        /\ Waiting' \subseteq Waiting \ Active' /\ Submitted' = Submitted
    BY <1>3 DEF Work!Hand, Waiting, Active, Submitted
  <2> QED BY <2>1 DEF Once, Goes
<1>4. CASE Work!Finish
  <2>1. Active' \subseteq Active /\ Waiting' = Waiting /\ Submitted' = Submitted
    BY <1>4 DEF Work!Finish, Waiting, Active, Submitted
  <2> QED BY <2>1 DEF Once, Goes
<1> QED BY <1>1, <1>2, <1>3, <1>4 DEF Work!Next

\* Every submission runs once at most: it is in the queue or in the batch, never in
\* both, and no step brings one back that the queue has taken or dropped before
\* (scheduler.go:106-138, 151-186).
THEOREM RunsOnce == Spec => []Once /\ [][Goes]_vars
<1>1. Init => Once
  BY DEF Init, Once, Waiting, Active, Pieces
<1>2. ASSUME Inv, BatchApart, CallsApart, Once, [Next]_vars
      PROVE  Once' /\ [Goes]_vars
  BY <1>2, StepIsWork, WorkGoes
<1> QED BY <1>1, <1>2, InvHolds, AlwaysApart, PTL DEF Spec
=============================================================================
