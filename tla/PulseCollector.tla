---------------------------- MODULE PulseCollector ----------------------------
(***************************************************************************)
(* The event buffer of internal/pulse/collector: tool handlers enqueue,    *)
(* the flush loop writes what it finds at every tick, an enqueue that      *)
(* finds the ring four fifths full starts one early flush in a goroutine   *)
(* of its own, and Stop flushes a last time.                               *)
(*                                                                         *)
(* An event is its number in the order of the ring's lock.  A transaction  *)
(* holds the store's mutex from BeginBatch to the commit, so a batch that  *)
(* is written in one is one step; the fallback writes event by event.      *)
(***************************************************************************)
EXTENDS Integers, Sequences, FiniteSets

CONSTANTS
    Cap,         \* capacity of the ring (1000)
    MaxEvents    \* bound: events of a behaviour

ASSUME CollectorAssumption ==
    /\ Cap \in Nat \ {0}
    /\ MaxEvents \in Nat

VARIABLES
    ring, head, tail, count,  \* the ring buffer
    enqueued,       \* events enqueued so far
    early,          \* earlyFlushRunning
    writer,         \* the flush loop and the early flush: where each is, its batch
    leaving,        \* early flushes that cleared the flag and have not called Done
    wg,             \* the WaitGroup
    stop,           \* Stop: not called, stopCh closed, returned
    beforeStop,     \* history: events enqueued before Stop was called
    drained,        \* history: the batch drained last
    rows,           \* event -> its rows in the store
    dropped,        \* events overwritten in the ring
    failed          \* events the store refused or rolled back

ringVars == <<ring, head, tail, count>>
hist == <<beforeStop, drained>>
fate == <<rows, dropped, failed>>
vars == <<ringVars, enqueued, early, writer, leaving, wg, stop, hist, fate>>

Events == 1..MaxEvents
Slots == 0..(Cap - 1)
NoEvent == 0
SetOf(s) == {s[i] : i \in DOMAIN s}

Writers == {"loop", "early"}
WriterPcs == {"off", "wait", "tx", "notx"}
Writer == [pc: WriterPcs, batch: Seq(Events), final: BOOLEAN]
Idle(pc) == [pc |-> pc, batch |-> <<>>, final |-> FALSE]

Init ==
    /\ ring = [i \in Slots |-> NoEvent]
    /\ head = 0 /\ tail = 0 /\ count = 0
    /\ enqueued = 0
    /\ early = FALSE
    /\ writer = [w \in Writers |-> Idle(IF w = "loop" THEN "wait" ELSE "off")]
    /\ leaving = 0
    /\ wg = 1
    /\ stop = "no"
    /\ beforeStop = 0
    /\ drained = <<>>
    /\ rows = [e \in Events |-> 0]
    /\ dropped = {} /\ failed = {}

-----------------------------------------------------------------------------
\* The ring.

\* drainLocked: the slots from head up to tail, around the end if need be.
Drained(r, h, t, n) ==
    IF n = 0 THEN <<>>
    ELSE IF h < t THEN [i \in 1..(t - h) |-> r[h + i - 1]]
    ELSE [i \in 1..(Cap - h + t) |-> IF i <= Cap - h THEN r[h + i - 1] ELSE r[i - 1 - (Cap - h)]]

\* Mutant: the count of a full ring goes on growing.
NextCountUnchecked == count + 1

\* Mutant: the head stays where it is when the oldest event is overwritten.
NextHeadKept == head

\* The head after an enqueue: a full ring gives up its oldest event.
NextHead == IF count = Cap THEN (head + 1) % Cap ELSE head
NextCount == IF count = Cap THEN count ELSE count + 1

\* The events the ring holds, oldest first.
Contents == Drained(ring, head, tail, count)

Reset == head' = 0 /\ tail' = 0 /\ count' = 0

-----------------------------------------------------------------------------
\* enqueue.

Stored(e) == [ring EXCEPT ![tail] = e]

\* The new event goes to the tail; the one it may push out is counted.
Store(e) ==
    /\ enqueued' = e
    /\ ring' = Stored(e)
    /\ dropped' = IF count = Cap THEN dropped \cup {ring[head]} ELSE dropped

\* The ring is at four fifths of its capacity and no early flush is running.
EarlyFlush == NextCount >= (Cap * 80) \div 100 /\ ~early

Enqueue ==
    LET e == enqueued + 1
    IN /\ enqueued < MaxEvents
       /\ ~EarlyFlush
       /\ Store(e)
       /\ head' = NextHead
       /\ tail' = (tail + 1) % Cap
       /\ count' = NextCount
       /\ UNCHANGED <<early, writer, leaving, wg, stop, hist, rows, failed>>

\* Drain in the same critical section and write in a goroutine.
EnqueueAndFlush ==
    LET e == enqueued + 1
        batch == Drained(Stored(e), NextHead, (tail + 1) % Cap, NextCount)
    IN /\ enqueued < MaxEvents
       /\ EarlyFlush
       /\ Store(e)
       /\ Reset
       /\ early' = TRUE
       /\ wg' = wg + 1
       /\ writer' = [writer EXCEPT !["early"] = [pc |-> "tx", batch |-> batch, final |-> FALSE]]
       /\ drained' = batch
       /\ UNCHANGED <<leaving, stop, beforeStop, rows, failed>>

-----------------------------------------------------------------------------
\* writeBatch, by the flush loop or by an early flush.

\* The flush loop waits for the next tick; after the final flush it is gone.  An
\* early flush clears its flag.
AfterWrite(w) ==
    \/ /\ w = "loop"
       /\ writer' = [writer EXCEPT !["loop"] = Idle(IF @.final THEN "off" ELSE "wait")]
       /\ wg' = IF writer["loop"].final THEN wg - 1 ELSE wg
       /\ UNCHANGED <<early, leaving>>
    \/ /\ w = "early"
       /\ writer' = [writer EXCEPT !["early"] = Idle("off")]
       /\ early' = FALSE
       /\ leaving' = leaving + 1
       /\ UNCHANGED wg

\* One more row for each of the events.
Saved(events) == [e \in Events |-> IF e \in events THEN rows[e] + 1 ELSE rows[e]]

\* The transaction commits; events that fail on their own are skipped.
Commits(w, bad) ==
    LET batch == writer[w].batch
    IN /\ writer[w].pc = "tx"
       /\ bad \subseteq SetOf(batch)
       /\ rows' = Saved(SetOf(batch) \ bad)
       /\ failed' = failed \cup bad
       /\ AfterWrite(w)
       /\ UNCHANGED <<ringVars, enqueued, stop, hist, dropped>>

\* A fatal error or a panic rolls the whole batch back: none of its events is stored,
\* whether writeErrors counts it or not.
Aborts(w) ==
    /\ writer[w].pc = "tx"
    /\ failed' = failed \cup SetOf(writer[w].batch)
    /\ AfterWrite(w)
    /\ UNCHANGED <<ringVars, enqueued, stop, hist, rows, dropped>>

\* The transaction does not begin, or its commit fails: write without one.
FallsBack(w) ==
    /\ writer[w].pc = "tx"
    /\ writer' = [writer EXCEPT ![w].pc = "notx"]
    /\ UNCHANGED <<ringVars, enqueued, early, leaving, wg, stop, hist, fate>>

\* Mutant: the fallback stops at the first event the store refuses.
WritesUntilRefused(w) ==
    LET batch == writer[w].batch
    IN /\ writer[w].pc = "notx"
       /\ \/ rows' = Saved({batch[1]}) /\ UNCHANGED failed
          \/ failed' = failed \cup {batch[1]} /\ UNCHANGED rows
       /\ \/ /\ Len(batch) > 1 /\ failed' = failed
             /\ writer' = [writer EXCEPT ![w].batch = Tail(batch)]
             /\ UNCHANGED <<early, leaving, wg>>
          \/ /\ Len(batch) = 1 \/ failed' # failed
             /\ AfterWrite(w)
       /\ UNCHANGED <<ringVars, enqueued, stop, hist, dropped>>

\* writeBatchNoTx: one event after the other, whatever becomes of each.
WritesOne(w) ==
    LET batch == writer[w].batch
    IN /\ writer[w].pc = "notx"
       /\ \/ rows' = Saved({batch[1]}) /\ UNCHANGED failed
          \/ failed' = failed \cup {batch[1]} /\ UNCHANGED rows
       /\ \/ /\ Len(batch) > 1
             /\ writer' = [writer EXCEPT ![w].batch = Tail(batch)]
             /\ UNCHANGED <<early, leaving, wg>>
          \/ /\ Len(batch) = 1
             /\ AfterWrite(w)
       /\ UNCHANGED <<ringVars, enqueued, stop, hist, dropped>>

\* Mutant: an early flush does not call Done.
NeverDone ==
    /\ leaving > 0
    /\ leaving' = leaving - 1
    /\ UNCHANGED <<ringVars, enqueued, early, writer, wg, stop, hist, fate>>

\* The deferred wg.Done of an early flush.
EarlyDone ==
    /\ leaving > 0
    /\ leaving' = leaving - 1
    /\ wg' = wg - 1
    /\ UNCHANGED <<ringVars, enqueued, early, writer, stop, hist, fate>>

-----------------------------------------------------------------------------
\* flushLoop and Stop.

Drains(final) ==
    /\ drained' = Contents
    /\ writer' = [writer EXCEPT !["loop"] = [pc |-> "tx", batch |-> Contents, final |-> final]]
    /\ Reset
    /\ UNCHANGED <<ring, wg>>

\* flush: nothing to do when the ring is empty; after the last flush the loop exits.
Flush(final) ==
    /\ writer["loop"].pc = "wait"
    /\ \/ count > 0 /\ Drains(final)
       \/ /\ count = 0 /\ final
          /\ writer' = [writer EXCEPT !["loop"] = Idle("off")]
          /\ wg' = wg - 1
          /\ UNCHANGED <<ringVars, drained>>
    /\ UNCHANGED <<enqueued, early, leaving, stop, beforeStop, fate>>

\* Mutant: the loop ends without a last flush.
NoFinalFlush ==
    /\ stop # "no"
    /\ writer["loop"].pc = "wait"
    /\ writer' = [writer EXCEPT !["loop"] = Idle("off")]
    /\ wg' = wg - 1
    /\ UNCHANGED <<ringVars, enqueued, early, leaving, stop, hist, fate>>

Tick == Flush(FALSE)
FinalFlush == stop # "no" /\ Flush(TRUE)

StopCalled ==
    /\ stop = "no"
    /\ stop' = "closing"
    /\ beforeStop' = enqueued
    /\ UNCHANGED <<ringVars, enqueued, early, writer, leaving, wg, drained, fate>>

StopReturns ==
    /\ stop = "closing"
    /\ wg = 0
    /\ stop' = "returned"
    /\ UNCHANGED <<ringVars, enqueued, early, writer, leaving, wg, hist, fate>>

-----------------------------------------------------------------------------
Writes(w) == \/ \E bad \in SUBSET SetOf(writer[w].batch) : Commits(w, bad)
             \/ Aborts(w) \/ FallsBack(w) \/ WritesOne(w)

Next ==
    \/ Enqueue \/ EnqueueAndFlush
    \/ \E w \in Writers : Writes(w)
    \/ EarlyDone
    \/ Tick \/ FinalFlush
    \/ StopCalled \/ StopReturns

\* The goroutines run, a write to the store ends, and once stopCh is closed the
\* select takes it even if ticks are due as well.
Fairness ==
    /\ WF_vars(Tick) /\ SF_vars(FinalFlush)
    /\ WF_vars(Writes("loop")) /\ WF_vars(Writes("early"))
    /\ WF_vars(EarlyDone) /\ WF_vars(StopReturns)

Spec == Init /\ [][Next]_vars /\ Fairness

-----------------------------------------------------------------------------
Running(w) == IF writer[w].pc = "off" THEN 0 ELSE 1

\* The ring's indices always describe count consecutive slots, at most one early
\* flush has a batch, and the WaitGroup counts the goroutines that are running.
CollectorOK ==
    /\ ring \in [Slots -> Events \cup {NoEvent}]
    /\ head \in Slots /\ tail \in Slots /\ count \in 0..Cap
    /\ tail = (head + count) % Cap
    /\ enqueued \in 0..MaxEvents
    /\ early \in BOOLEAN
    /\ early <=> writer["early"].pc # "off"
    /\ writer \in [Writers -> Writer]
    /\ leaving \in Nat
    /\ wg = leaving + Running("early") + Running("loop")

InFlight == SetOf(writer["loop"].batch) \cup SetOf(writer["early"].batch)

\* Every event enqueued is in exactly one place: in the ring, in a batch being written,
\* in the store (once), dropped, or refused.  No interleaving of
\* the two flushes, wrap-around, fallback or partial failure loses one silently or
\* writes one twice (collector.go:270-412, 628-635).
EveryEventOnce ==
    LET held == SetOf(Contents)
        stored == {e \in Events : rows[e] > 0}
    IN /\ held \cup InFlight \cup stored \cup dropped \cup failed = 1..enqueued
       /\ held \cap (InFlight \cup stored \cup dropped \cup failed) = {}
       /\ InFlight \cap (stored \cup dropped \cup failed) = {}
       /\ stored \cap (dropped \cup failed) = {}
       /\ dropped \cap failed = {}
       /\ \A e \in Events : rows[e] \in {0, 1}
       /\ SetOf(writer["loop"].batch) \cap SetOf(writer["early"].batch) = {}

\* Stop returns only after every event enqueued before it was called has been handed
\* to the store or accounted for, whichever flush drained it (collector.go:100-103,
\* 328-342).
StopFlushes ==
    stop = "returned" =>
        \A e \in 1..beforeStop : e \notin SetOf(Contents) \cup InFlight

\* Stop returns: the loop and the early flushes end (collector.go:100-103, 300-304,
\* 328-342).
StopEnds == (stop = "closing") ~> (stop = "returned")

\* The ring with its indices implements the drop-oldest queue: a batch is what the
\* queue held, oldest first, with nothing but its oldest events missing
\* (ring_buffer_test.go:50-82 checks three cases of it).
Queue == INSTANCE DropOldestQueue WITH queue <- Contents
RingIsQueue == Queue!Spec
=============================================================================
