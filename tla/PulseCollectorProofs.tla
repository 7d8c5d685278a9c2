-------------------------- MODULE PulseCollectorProofs --------------------------
(***************************************************************************)
(* For any capacity and any number of events: the indices of the ring are  *)
(* right, the ring is a drop-oldest queue, every event is in exactly one   *)
(* place, and Stop leaves none of the earlier ones behind.                 *)
(***************************************************************************)
EXTENDS PulseCollector, SequenceTheorems, TLAPS

\* The slot k places after slot h, around the end of the ring.
Slot(h, k) == IF h + k < Cap THEN h + k ELSE h + k - Cap

LEMMA Wrap ==
  ASSUME NEW x \in Nat, x < 2 * Cap
  PROVE  x % Cap = IF x < Cap THEN x ELSE x - Cap
<1>1. Cap \in Nat \ {0}
  BY CollectorAssumption
<1>2. CASE x < Cap
  BY <1>1, <1>2
<1>3. CASE x >= Cap
  BY <1>1, <1>3
<1> QED BY <1>1, <1>2, <1>3

\* The ring's indices, and the events in the slots they cover.
RingOK(r, h, t, n) ==
    /\ r \in [Slots -> Events \cup {NoEvent}]
    /\ h \in Slots /\ t \in Slots /\ n \in 0..Cap
    /\ t = Slot(h, n)
    /\ \A k \in 0..(n - 1) : r[Slot(h, k)] \in Events

\* drainLocked returns the covered slots in order.
LEMMA DrainedSlots ==
  ASSUME NEW r, NEW h, NEW t, NEW n, RingOK(r, h, t, n), n > 0
  PROVE  Drained(r, h, t, n) = [i \in 1..n |-> r[Slot(h, i - 1)]]
<1> USE CollectorAssumption DEF Slots, RingOK
<1>1. CASE h < t
  <2>1. t = h + n
    BY <1>1 DEF Slot
  <2>2. \A i \in 1..n : Slot(h, i - 1) = h + i - 1
    BY <2>1 DEF Slot
  <2>3. Drained(r, h, t, n) = [i \in 1..(t - h) |-> r[h + i - 1]]
    BY <1>1 DEF Drained
  <2>4. t - h = n
    BY <2>1
  <2>5. \A i \in 1..n : r[h + i - 1] = r[Slot(h, i - 1)]
    BY <2>2
  <2> HIDE DEF RingOK, Slots
  <2> QED BY <2>3, <2>4, <2>5
<1>2. CASE ~(h < t)
  <2>1. Cap - h + t = n
    BY <1>2 DEF Slot
  <2>2. \A i \in 1..n : Slot(h, i - 1) = IF i <= Cap - h THEN h + i - 1 ELSE i - 1 - (Cap - h)
    BY DEF Slot
  <2>3. \A i \in 1..n : (IF i <= Cap - h THEN r[h + i - 1] ELSE r[i - 1 - (Cap - h)])
                        = r[Slot(h, i - 1)]
    BY <2>2
  <2>4. Drained(r, h, t, n) =
          [i \in 1..(Cap - h + t) |->
              IF i <= Cap - h THEN r[h + i - 1] ELSE r[i - 1 - (Cap - h)]]
    BY <1>2 DEF Drained
  <2> HIDE DEF RingOK, Slots
  <2> QED BY <2>1, <2>3, <2>4
<1> QED BY <1>1, <1>2

LEMMA DrainedSeq ==
  ASSUME NEW r, NEW h, NEW t, NEW n, RingOK(r, h, t, n)
  PROVE  /\ Drained(r, h, t, n) \in Seq(Events)
         /\ Len(Drained(r, h, t, n)) = n
         /\ \A i \in 1..n : Drained(r, h, t, n)[i] = r[Slot(h, i - 1)]
         /\ Drained(r, h, t, n) = <<>> <=> n = 0
<1>1. CASE n = 0
  BY <1>1 DEF Drained, RingOK
<1>2. CASE n > 0
  <2> DEFINE f == [i \in 1..n |-> r[Slot(h, i - 1)]]
  <2>1. Drained(r, h, t, n) = f
    BY <1>2, DrainedSlots
  <2>2. n \in Nat /\ \A i \in 1..n : r[Slot(h, i - 1)] \in Events
    BY CollectorAssumption DEF RingOK
  <2>3. f \in [1..n -> Events]
    BY <2>2
  <2>4. f \in Seq(Events) /\ Len(f) = n
    BY <2>2, <2>3
  <2>5. \A i \in 1..n : f[i] = r[Slot(h, i - 1)]
    OBVIOUS
  <2> HIDE DEF f
  <2>6. f # <<>>
    BY <1>2, <2>2, <2>4
  <2> QED BY <1>2, <2>1, <2>4, <2>5, <2>6
<1> QED BY <1>1, <1>2, CollectorAssumption DEF RingOK

\* An enqueue does to the ring what a put does to the drop-oldest queue.
LEMMA RingPut ==
  ASSUME RingOK(ring, head, tail, count), NEW e \in Events
  PROVE  /\ RingOK(Stored(e), NextHead, (tail + 1) % Cap, NextCount)
         /\ Drained(Stored(e), NextHead, (tail + 1) % Cap, NextCount) = Queue!With(e)
         /\ count = Cap => ring[head] = Contents[1]
<1> USE CollectorAssumption
<1> DEFINE r == Stored(e)
           t == (tail + 1) % Cap
           h == NextHead
           n == NextCount
<1>1. /\ Cap \in Nat \ {0} /\ head \in 0..(Cap - 1) /\ tail \in 0..(Cap - 1) /\ count \in 0..Cap
      /\ tail = Slot(head, count)
      /\ ring \in [Slots -> Events \cup {NoEvent}]
      /\ \A k \in 0..(count - 1) : ring[Slot(head, k)] \in Events
  BY DEF RingOK, Slots
<1>2. t = Slot(tail, 1)
  BY <1>1, Wrap DEF Slot
<1>3. h = IF count = Cap THEN Slot(head, 1) ELSE head
  BY <1>1, Wrap DEF NextHead, Slot
<1>4. n = IF count = Cap THEN Cap ELSE count + 1
  BY DEF NextCount
<1>5. r \in [Slots -> Events \cup {NoEvent}] /\ r[tail] = e
      /\ \A s \in Slots \ {tail} : r[s] = ring[s]
  BY <1>1 DEF Stored, Slots
<1> HIDE DEF r, t, h, n
<1>6. \A k \in 0..(n - 1) :
         Slot(h, k) = IF count = Cap THEN Slot(head, k + 1) ELSE Slot(head, k)
  BY <1>1, <1>3, <1>4 DEF Slot
<1>7. \A k \in 0..(n - 1) : Slot(h, k) \in Slots /\ (Slot(h, k) = tail <=> k = n - 1)
  BY <1>1, <1>4, <1>6 DEF Slot, Slots
<1>8. \A k \in 0..(n - 1) : r[Slot(h, k)] = IF k = n - 1 THEN e ELSE ring[Slot(h, k)]
  BY <1>5, <1>7
<1>9. \A k \in 0..(n - 1) : r[Slot(h, k)] \in Events
  BY <1>1, <1>4, <1>6, <1>8
<1>10. RingOK(r, h, t, n)
  BY <1>1, <1>2, <1>3, <1>4, <1>5, <1>9 DEF RingOK, Slot, Slots
<1> DEFINE C == Contents
           D == Drained(r, h, t, n)
           Q == Queue!With(e)
<1>11. C \in Seq(Events) /\ Len(C) = count /\ \A i \in 1..count : C[i] = ring[Slot(head, i - 1)]
  BY DrainedSeq DEF Contents
<1>12. D \in Seq(Events) /\ Len(D) = n /\ \A i \in 1..n : D[i] = r[Slot(h, i - 1)]
  BY <1>10, DrainedSeq
<1>13. Q = Append(IF Len(C) = Cap THEN Tail(C) ELSE C, e)
  BY DEF Queue!With
<1> HIDE DEF C, D, Q
<1>14. /\ Q \in Seq(Events) /\ Len(Q) = n
       /\ \A i \in 1..n : Q[i] = IF i = n THEN e ELSE IF count = Cap THEN C[i + 1] ELSE C[i]
  <2>1. CASE count = Cap
    <3>1. Tail(C) \in Seq(Events) /\ Len(Tail(C)) = n - 1 /\ \A i \in 1..(n - 1) : Tail(C)[i] = C[i + 1]
      BY <1>1, <1>4, <1>11, <2>1
    <3>2. Q = Append(Tail(C), e)
      BY <1>11, <1>13, <2>1
    <3> HIDE DEF C, Q
    <3> QED BY <1>1, <1>4, <2>1, <3>1, <3>2
  <2>2. CASE count # Cap
    <3>1. Q = Append(C, e)
      BY <1>11, <1>13, <2>2
    <3> QED BY <1>1, <1>4, <1>11, <2>2, <3>1
  <2> QED BY <2>1, <2>2
<1>15. \A i \in 1..n : D[i] = Q[i]
  <2>1. ASSUME NEW i \in 1..n PROVE D[i] = Q[i]
    <3>1. n \in Nat /\ i - 1 \in 0..(n - 1)
      BY <1>1, <1>4
    <3>2. D[i] = IF i = n THEN e ELSE ring[Slot(h, i - 1)]
      BY <1>8, <1>12, <3>1
    <3>3. Slot(h, i - 1) = IF count = Cap THEN Slot(head, i) ELSE Slot(head, i - 1)
      BY <1>6, <3>1
    <3>4. CASE i = n
      BY <1>14, <3>2, <3>4
    <3>5. CASE i # n /\ count = Cap
      <4>1. i + 1 \in 1..count /\ (i + 1) - 1 = i
        BY <1>1, <1>4, <3>5
      <4>2. C[i + 1] = ring[Slot(head, i)]
        BY <1>11, <4>1
      <4> QED BY <1>14, <3>2, <3>3, <3>5, <4>2
    <3>6. CASE i # n /\ count # Cap
      <4>1. i \in 1..count
        BY <1>1, <1>4, <3>6
      <4>2. C[i] = ring[Slot(head, i - 1)]
        BY <1>11, <4>1
      <4> QED BY <1>14, <3>2, <3>3, <3>6, <4>2
    <3> QED BY <3>4, <3>5, <3>6
  <2> QED BY <2>1
<1>16. D = Q
  BY <1>12, <1>14, <1>15
<1>17. count = Cap => ring[head] = C[1]
  <2>1. Slot(head, 0) = head
    BY <1>1 DEF Slot
  <2>2. count = Cap => 1 \in 1..count /\ 1 - 1 = 0
    BY <1>1
  <2> QED BY <1>11, <2>1, <2>2
<1> QED BY <1>10, <1>16, <1>17 DEF r, t, h, n, C, D, Q

-----------------------------------------------------------------------------
\* The shape of the state: indices, types, the WaitGroup.

AtRest == \A w \in Writers : writer[w].pc \in {"off", "wait"} => writer[w].batch = <<>>

Shape ==
    /\ CollectorOK
    /\ RingOK(ring, head, tail, count)
    /\ AtRest

\* What CollectorOK says of the writers and the WaitGroup.
Crew ==
    /\ early \in BOOLEAN
    /\ early <=> writer["early"].pc # "off"
    /\ writer \in [Writers -> Writer]
    /\ leaving \in Nat
    /\ wg = leaving + Running("early") + Running("loop")
    /\ AtRest

LEMMA ShapeParts == Shape <=> enqueued \in 0..MaxEvents /\ RingOK(ring, head, tail, count) /\ Crew
<1>1. ASSUME RingOK(ring, head, tail, count) PROVE tail = (head + count) % Cap
  <2>1. head + count \in Nat /\ head + count < 2 * Cap
    BY <1>1, CollectorAssumption DEF RingOK, Slots
  <2> DEFINE x == head + count
  <2> HIDE DEF x
  <2>2. x % Cap = IF x < Cap THEN x ELSE x - Cap
    BY <2>1, Wrap DEF x
  <2>3. tail = IF x < Cap THEN x ELSE x - Cap
    BY <1>1, CollectorAssumption DEF RingOK, Slot, Slots, x
  <2> QED BY <2>2, <2>3 DEF x
<1> QED BY <1>1 DEF Shape, Crew, CollectorOK, RingOK

LEMMA Writing ==
  ASSUME Crew, NEW w \in Writers
  PROVE  /\ writer[w] \in Writer
         /\ writer[w].pc \in WriterPcs
         /\ writer[w].batch \in Seq(Events)
         /\ writer[w].final \in BOOLEAN
BY DEF Crew, Writer

LEMMA Resting ==
  ASSUME NEW pc \in {"off", "wait"}
  PROVE  /\ Idle(pc) \in Writer
         /\ Idle(pc).pc = pc /\ Idle(pc).batch = <<>> /\ ~Idle(pc).final
BY DEF Idle, Writer, WriterPcs

\* The end of a write.
LEMMA AfterWriteCrew ==
  ASSUME Crew, NEW w \in Writers, AfterWrite(w), writer[w].pc \in {"tx", "notx"}
  PROVE  /\ Crew'
         /\ writer'[w].batch = <<>>
         /\ \A v \in Writers \ {w} : writer'[v] = writer[v]
         /\ w = "loop" => writer'["loop"].pc = (IF writer["loop"].final THEN "off" ELSE "wait")
         /\ ~writer'[w].final
<1> USE DEF Writers
<1>1. CASE w = "loop"
  <2> DEFINE x == Idle(IF writer["loop"].final THEN "off" ELSE "wait")
  <2>1. writer' = [writer EXCEPT !["loop"] = x]
    BY <1>1 DEF AfterWrite
  <2>2. /\ x \in Writer /\ x.pc = (IF writer["loop"].final THEN "off" ELSE "wait")
        /\ x.batch = <<>> /\ ~x.final
    BY Resting
  <2> HIDE DEF x
  <2>3. /\ writer' \in [Writers -> Writer] /\ writer'["loop"] = x
        /\ writer'["early"] = writer["early"]
    BY <2>1, <2>2 DEF Crew
  <2>4. AtRest'
    BY <2>2, <2>3 DEF Crew, AtRest
  <2>5. wg' = (IF writer["loop"].final THEN wg - 1 ELSE wg) /\ UNCHANGED <<early, leaving>>
    BY <1>1 DEF AfterWrite
  <2>6. Running("loop") = 1
    BY <1>1 DEF Running
  <2>7. Running("loop")' = (IF writer["loop"].final THEN 0 ELSE 1) /\ Running("early")' = Running("early")
    BY <2>2, <2>3 DEF Running
  <2>8. Running("early") \in Nat
    BY DEF Running
  <2>9. wg' = leaving' + Running("early")' + Running("loop")'
    BY <2>5, <2>6, <2>7, <2>8 DEF Crew
  <2> QED BY <1>1, <2>2, <2>3, <2>4, <2>5, <2>9 DEF Crew
<1>2. CASE w = "early"
  <2> DEFINE x == Idle("off")
  <2>1. writer' = [writer EXCEPT !["early"] = x]
    BY <1>2 DEF AfterWrite
  <2>2. x \in Writer /\ x.pc = "off" /\ x.batch = <<>> /\ ~x.final
    BY Resting
  <2> HIDE DEF x
  <2>3. /\ writer' \in [Writers -> Writer] /\ writer'["early"] = x
        /\ writer'["loop"] = writer["loop"]
    BY <2>1, <2>2 DEF Crew
  <2>4. AtRest'
    BY <2>2, <2>3 DEF Crew, AtRest
  <2>5. early' = FALSE /\ leaving' = leaving + 1 /\ wg' = wg
    BY <1>2 DEF AfterWrite
  <2>6. Running("early") = 1
    BY <1>2 DEF Running
  <2>7. Running("early")' = 0 /\ Running("loop")' = Running("loop")
    BY <2>2, <2>3 DEF Running
  <2>8. Running("loop") \in Nat
    BY DEF Running
  <2>9. wg' = leaving' + Running("early")' + Running("loop")' /\ leaving' \in Nat
    BY <2>5, <2>6, <2>7, <2>8 DEF Crew
  <2> QED BY <1>2, <2>2, <2>3, <2>4, <2>5, <2>9 DEF Crew
<1> QED BY <1>1, <1>2

\* A writer that goes on with another batch.
LEMMA BatchCrew ==
  ASSUME Crew, NEW w \in Writers, NEW x \in Writer,
         x.pc # "off", x.pc # "wait", writer[w].pc # "off",
         writer' = [writer EXCEPT ![w] = x], UNCHANGED <<early, leaving, wg>>
  PROVE  Crew' /\ writer'[w] = x /\ \A v \in Writers \ {w} : writer'[v] = writer[v]
<1>1. writer' \in [Writers -> Writer] /\ writer'[w] = x
      /\ \A v \in Writers \ {w} : writer'[v] = writer[v]
  BY DEF Crew
<1>2. \A v \in Writers : Running(v)' = Running(v)
  BY <1>1 DEF Running
<1>3. AtRest'
  BY <1>1 DEF Crew, AtRest
<1>4. "early" \in Writers /\ "loop" \in Writers
  BY DEF Writers
<1>5. writer'["early"].pc # "off" <=> writer["early"].pc # "off"
  BY <1>1, <1>4
<1> QED BY <1>1, <1>2, <1>3, <1>4, <1>5 DEF Crew

LEMMA FallsBackCrew ==
  ASSUME Crew, NEW w \in Writers, FallsBack(w)
  PROVE  /\ Crew' /\ writer'[w].batch = writer[w].batch /\ writer'[w].final = writer[w].final
         /\ writer'[w].pc = "notx"
         /\ \A v \in Writers \ {w} : writer'[v] = writer[v]
<1> DEFINE x == [writer[w] EXCEPT !.pc = "notx"]
<1>1. /\ x \in Writer /\ x.pc = "notx" /\ x.batch = writer[w].batch /\ x.final = writer[w].final
  BY Writing DEF Writer, WriterPcs
<1>2. writer' = [writer EXCEPT ![w] = x]
  BY DEF FallsBack
<1> HIDE DEF x
<1> QED BY <1>1, <1>2, BatchCrew DEF FallsBack

LEMMA OneElement ==
  ASSUME NEW b \in Seq(Events), Len(b) = 1
  PROVE  b # <<>> /\ Tail(b) = <<>>
<1>1. b # <<>>
  OBVIOUS
<1>2. Tail(b) \in Seq(Events) /\ Len(Tail(b)) = 0
  BY <1>1, HeadTailProperties
<1> QED BY <1>1, <1>2, EmptySeq

\* One event of the fallback is written.
LEMMA WritesOneCrew ==
  ASSUME Crew, NEW w \in Writers, WritesOne(w)
  PROVE  /\ Crew' /\ writer[w].batch # <<>> /\ writer'[w].batch = Tail(writer[w].batch)
         /\ \A v \in Writers \ {w} : writer'[v] = writer[v]
         /\ \/ writer'[w].final = writer[w].final /\ writer'[w].pc = writer[w].pc
            \/ /\ ~writer'[w].final
               /\ w = "loop" => writer'["loop"].pc = (IF writer["loop"].final THEN "off" ELSE "wait")
<1> DEFINE b == writer[w].batch
           x == [writer[w] EXCEPT !.batch = Tail(b)]
<1>0. b \in Seq(Events) /\ writer[w].pc = "notx"
  BY Writing DEF WritesOne
<1>1. CASE /\ Len(b) > 1 /\ writer' = [writer EXCEPT ![w].batch = Tail(b)]
           /\ UNCHANGED <<early, leaving, wg>>
  <2>1. b # <<>> /\ Tail(b) \in Seq(Events)
    BY <1>0, <1>1
  <2>2. x \in Writer /\ x.pc = "notx" /\ x.batch = Tail(b) /\ x.final = writer[w].final
    BY <1>0, <2>1, Writing DEF Writer, WriterPcs
  <2>3. writer' = [writer EXCEPT ![w] = x]
    BY <1>1
  <2> HIDE DEF x
  <2> QED BY <1>0, <1>1, <2>1, <2>2, <2>3, BatchCrew
<1>2. CASE Len(b) = 1 /\ AfterWrite(w)
  <2>1. b # <<>> /\ Tail(b) = <<>>
    BY <1>0, <1>2, OneElement
  <2> QED BY <1>0, <1>2, <2>1, AfterWriteCrew
<1> QED BY <1>1, <1>2 DEF WritesOne

\* An early flush is launched, and its Done.
LEMMA LaunchCrew ==
  ASSUME Crew, Shape, NEW e \in Events, e = enqueued + 1, EnqueueAndFlush
  PROVE  /\ Crew'
         /\ writer["early"].batch = <<>>
         /\ writer'["early"].batch = Queue!With(e)
         /\ writer'["loop"] = writer["loop"]
<1>1. /\ early = FALSE
      /\ writer' = [writer EXCEPT !["early"] = [pc |-> "tx",
            batch |-> Drained(Stored(e), NextHead, (tail + 1) % Cap, NextCount),
            final |-> FALSE]]
      /\ early' = TRUE /\ wg' = wg + 1 /\ leaving' = leaving
  BY DEF EnqueueAndFlush, EarlyFlush, Crew
<1>2. /\ Drained(Stored(e), NextHead, (tail + 1) % Cap, NextCount) = Queue!With(e)
      /\ Queue!With(e) \in Seq(Events)
  BY RingPut, DrainedSeq DEF Shape
<1> DEFINE x == [pc |-> "tx", batch |-> Queue!With(e), final |-> FALSE]
<1>3. x \in Writer /\ x.pc = "tx" /\ x.batch = Queue!With(e)
  BY <1>2 DEF Writer, WriterPcs
<1>4. writer' = [writer EXCEPT !["early"] = x]
  BY <1>1, <1>2
<1> HIDE DEF x
<1>5. /\ writer' \in [Writers -> Writer] /\ writer'["early"] = x
      /\ writer'["loop"] = writer["loop"]
  BY <1>3, <1>4 DEF Crew, Writers
<1>6. writer["early"].pc = "off" /\ writer["early"].batch = <<>>
  BY <1>1 DEF Crew, AtRest, Writers
<1>7. AtRest'
  BY <1>3, <1>5 DEF Crew, AtRest, Writers
<1>8. wg' = leaving' + Running("early")' + Running("loop")'
  BY <1>1, <1>3, <1>5, <1>6 DEF Crew, Running
<1> QED BY <1>1, <1>3, <1>5, <1>6, <1>7, <1>8 DEF Crew

LEMMA EarlyDoneCrew ==
  ASSUME Crew, EarlyDone
  PROVE  Crew'
<1>1. leaving' \in Nat /\ wg' = leaving' + Running("early") + Running("loop")
  BY DEF Crew, EarlyDone, Running
<1> QED BY <1>1 DEF Crew, EarlyDone, Running, AtRest

\* The flush loop drains the ring.
LEMMA DrainsCrew ==
  ASSUME Crew, Shape, NEW final \in BOOLEAN, writer["loop"].pc = "wait", Drains(final),
         UNCHANGED <<early, leaving>>
  PROVE  /\ Crew'
         /\ writer["loop"].batch = <<>>
         /\ writer'["loop"].batch = Contents
         /\ writer'["loop"].final = final /\ writer'["loop"].pc = "tx"
         /\ writer'["early"] = writer["early"]
<1> DEFINE x == [pc |-> "tx", batch |-> Contents, final |-> final]
<1>1. Contents \in Seq(Events)
  BY DrainedSeq DEF Shape, Contents
<1>2. x \in Writer /\ x.pc = "tx" /\ x.batch = Contents /\ x.final = final
  BY <1>1 DEF Writer, WriterPcs
<1>3. writer' = [writer EXCEPT !["loop"] = x] /\ UNCHANGED <<early, leaving, wg>>
  BY DEF Drains
<1> HIDE DEF x
<1>4. Crew' /\ writer'["loop"] = x /\ \A v \in Writers \ {"loop"} : writer'[v] = writer[v]
  BY <1>2, <1>3, BatchCrew DEF Writers
<1> QED BY <1>2, <1>4 DEF Crew, AtRest, Writers

\* The flush loop exits without a batch.
LEMMA ExitCrew ==
  ASSUME Crew, writer["loop"].pc = "wait",
         writer' = [writer EXCEPT !["loop"] = Idle("off")], wg' = wg - 1,
         UNCHANGED <<early, leaving>>
  PROVE  /\ Crew'
         /\ writer["loop"].batch = <<>> /\ writer'["loop"].batch = <<>>
         /\ writer'["loop"].pc = "off" /\ ~writer'["loop"].final
         /\ writer'["early"] = writer["early"]
<1> USE DEF Writers
<1>1. /\ Idle("off") \in Writer
      /\ Idle("off").pc = "off" /\ Idle("off").batch = <<>> /\ ~Idle("off").final
  BY Resting
<1>2. /\ writer' \in [Writers -> Writer] /\ writer'["loop"] = Idle("off")
      /\ writer'["early"] = writer["early"]
  BY <1>1 DEF Crew
<1>3. AtRest'
  BY <1>1, <1>2 DEF Crew, AtRest
<1>4. wg' = leaving' + Running("early")' + Running("loop")'
  BY <1>1, <1>2 DEF Crew, Running
<1> QED BY <1>1, <1>2, <1>3, <1>4 DEF Crew, AtRest

-----------------------------------------------------------------------------
\* The ring, step by step: it is put to, emptied, or left alone.

LEMMA PutRing ==
  ASSUME Shape, NEW e \in Events, e = enqueued + 1, Enqueue
  PROVE  /\ RingOK(ring, head, tail, count)'
         /\ Contents' = Queue!With(e)
<1>1. /\ ring' = Stored(e) /\ head' = NextHead /\ tail' = (tail + 1) % Cap
      /\ count' = NextCount
  BY DEF Enqueue, Store
<1> QED BY <1>1, RingPut DEF Shape, Contents

LEMMA EmptyRing ==
  ASSUME Shape, ring' \in [Slots -> Events \cup {NoEvent}], Reset
  PROVE  RingOK(ring, head, tail, count)' /\ Contents' = <<>>
<1> QED BY CollectorAssumption DEF Reset, RingOK, Contents, Drained, Slot, Slots

LEMMA SameRing ==
  ASSUME Shape, UNCHANGED ringVars
  PROVE  RingOK(ring, head, tail, count)' /\ Contents' = Contents
BY DEF Shape, ringVars, RingOK, Contents

LEMMA NewEvent ==
  ASSUME Shape, enqueued < MaxEvents
  PROVE  enqueued + 1 \in Events /\ enqueued + 1 \in 0..MaxEvents
BY CollectorAssumption DEF Shape, CollectorOK, Events

LEMMA SameCrew ==
  ASSUME Crew, UNCHANGED <<early, writer, leaving, wg>>
  PROVE  Crew'
BY DEF Crew, Running, AtRest

\* What a step of a writer does to the batches and to the crew.
LEMMA WriteCrew ==
  ASSUME Crew, NEW w \in Writers, Writes(w)
  PROVE  Crew' /\ UNCHANGED <<ringVars, enqueued, stop, hist, dropped>>
<1>1. ASSUME NEW bad \in SUBSET SetOf(writer[w].batch), Commits(w, bad) PROVE Crew'
  BY <1>1, AfterWriteCrew DEF Commits
<1>2. ASSUME Aborts(w) PROVE Crew'
  BY <1>2, AfterWriteCrew DEF Aborts
<1>3. ASSUME FallsBack(w) PROVE Crew'
  BY <1>3, FallsBackCrew
<1>4. ASSUME WritesOne(w) PROVE Crew'
  BY <1>4, WritesOneCrew
<1>5. UNCHANGED <<ringVars, enqueued, stop, hist, dropped>>
  BY DEF Writes, Commits, Aborts, FallsBack, WritesOne, fate
<1> QED BY <1>1, <1>2, <1>3, <1>4, <1>5 DEF Writes

LEMMA InitShape == Init => Shape
<1> SUFFICES ASSUME Init PROVE Shape
  OBVIOUS
<1> USE CollectorAssumption DEF Init
<1>1. RingOK(ring, head, tail, count)
  BY DEF RingOK, Slots, Slot
<1>2. writer \in [Writers -> Writer] /\ writer["loop"] = Idle("wait") /\ writer["early"] = Idle("off")
  BY Resting DEF Writers
<1>3. AtRest
  BY <1>2, Resting DEF AtRest, Writers
<1>4. Running("loop") = 1 /\ Running("early") = 0
  BY <1>2, Resting DEF Running
<1>5. writer["early"].pc = "off"
  BY <1>2, Resting
<1>6. early = FALSE /\ leaving = 0 /\ wg = 1
  OBVIOUS
<1>7. Crew
  <2> HIDE DEF Init
  <2>1. early \in BOOLEAN /\ (early <=> writer["early"].pc # "off")
    BY <1>5, <1>6
  <2>2. leaving \in Nat /\ wg = leaving + Running("early") + Running("loop")
    BY <1>4, <1>6
  <2> QED BY <1>2, <1>3, <2>1, <2>2, Zenon DEF Crew
<1>8. enqueued \in 0..MaxEvents
  OBVIOUS
<1> QED BY <1>1, <1>7, <1>8, ShapeParts

LEMMA StepShape == Shape /\ [Next]_vars => Shape'
<1> SUFFICES ASSUME Shape, [Next]_vars
             PROVE  (enqueued \in 0..MaxEvents /\ RingOK(ring, head, tail, count) /\ Crew)'
  BY ShapeParts, PTL
<1>0. enqueued \in 0..MaxEvents /\ Crew
  BY ShapeParts
<1> DEFINE e == enqueued + 1
<1>1. CASE UNCHANGED vars
  BY <1>0, <1>1, SameRing, SameCrew DEF vars, ringVars
<1>2. CASE Enqueue
  <2>1. enqueued < MaxEvents /\ enqueued' = e /\ UNCHANGED <<early, writer, leaving, wg>>
    BY <1>2 DEF Enqueue, Store
  <2> QED BY <1>0, <1>2, <2>1, NewEvent, PutRing, SameCrew
<1>3. CASE EnqueueAndFlush
  <2>1. enqueued < MaxEvents /\ enqueued' = e /\ Reset /\ ring' = Stored(e)
    BY <1>3 DEF EnqueueAndFlush, Store
  <2>2. ring' \in [Slots -> Events \cup {NoEvent}]
    BY <2>1, NewEvent DEF Stored, Shape, RingOK
  <2> QED BY <1>0, <1>3, <2>1, <2>2, NewEvent, EmptyRing, LaunchCrew
<1>4. ASSUME NEW w \in Writers, Writes(w)
      PROVE  (enqueued \in 0..MaxEvents /\ RingOK(ring, head, tail, count) /\ Crew)'
  BY <1>0, <1>4, WriteCrew, SameRing
<1>5. CASE EarlyDone
  BY <1>0, <1>5, EarlyDoneCrew, SameRing DEF EarlyDone
<1>6. ASSUME NEW final \in BOOLEAN, Flush(final)
      PROVE  (enqueued \in 0..MaxEvents /\ RingOK(ring, head, tail, count) /\ Crew)'
  <2>1. enqueued' = enqueued /\ UNCHANGED <<early, leaving>> /\ writer["loop"].pc = "wait"
    BY <1>6 DEF Flush
  <2>2. CASE Drains(final)
    <3>1. Reset /\ ring' \in [Slots -> Events \cup {NoEvent}]
      BY <2>2 DEF Drains, Shape, RingOK
    <3> QED BY <1>0, <2>1, <2>2, <3>1, DrainsCrew, EmptyRing
  <2>3. CASE /\ writer' = [writer EXCEPT !["loop"] = Idle("off")] /\ wg' = wg - 1
             /\ UNCHANGED <<ringVars, drained>>
    BY <1>0, <2>1, <2>3, ExitCrew, SameRing
  <2> QED BY <1>6, <2>2, <2>3 DEF Flush
<1>7. CASE StopCalled \/ StopReturns
  BY <1>0, <1>7, SameRing, SameCrew DEF StopCalled, StopReturns
<1> QED BY <1>1, <1>2, <1>3, <1>4, <1>5, <1>6, <1>7 DEF Next, Tick, FinalFlush

LEMMA ShapeInvariant == Spec => []Shape
BY InitShape, StepShape, PTL DEF Spec

\* The ring's indices, the writers and the WaitGroup are always consistent.
THEOREM CollectorCorrect == Spec => []CollectorOK
<1>1. Shape => CollectorOK
  BY DEF Shape
<1> QED BY <1>1, ShapeInvariant, PTL

-----------------------------------------------------------------------------
\* The ring with its indices implements the drop-oldest queue (collector.go:265-325).
LEMMA QueueStep == Shape /\ [Next]_vars => [Queue!Next]_<<Contents, drained>>
<1> SUFFICES ASSUME Shape, [Next]_vars
             PROVE  Queue!Next \/ UNCHANGED <<Contents, drained>>
  BY Zenon DEF Queue!Next
<1> DEFINE e == enqueued + 1
<1>1. CASE UNCHANGED vars
  BY <1>1, SameRing DEF vars, hist, ringVars
<1>2. CASE Enqueue
  <2>1. enqueued < MaxEvents /\ drained' = drained
    BY <1>2 DEF Enqueue, hist
  <2>2. e \in Events /\ Contents' = Queue!With(e)
    BY <1>2, <2>1, NewEvent, PutRing
  <2>3. Queue!Put(e)
    BY <2>1, <2>2 DEF Queue!Put
  <2> QED BY <2>2, <2>3 DEF Queue!Next
<1>3. CASE EnqueueAndFlush
  <2>1. /\ enqueued < MaxEvents /\ Reset /\ ring' = Stored(e)
        /\ drained' = Drained(Stored(e), NextHead, (tail + 1) % Cap, NextCount)
    BY <1>3 DEF EnqueueAndFlush, Store
  <2>2. e \in Events /\ drained' = Queue!With(e)
    BY <2>1, NewEvent, RingPut DEF Shape
  <2>3. Contents' = <<>>
    BY <2>1 DEF Reset, Contents, Drained
  <2>4. Queue!PutAndTakeAll(e)
    BY <2>2, <2>3 DEF Queue!PutAndTakeAll
  <2> QED BY <2>2, <2>4 DEF Queue!Next
<1>4. ASSUME NEW w \in Writers, Writes(w)
      PROVE  UNCHANGED <<Contents, drained>>
  BY <1>4, ShapeParts, WriteCrew, SameRing DEF hist
<1>5. CASE EarlyDone \/ StopCalled \/ StopReturns
  BY <1>5, SameRing DEF EarlyDone, StopCalled, StopReturns, hist
<1>6. ASSUME NEW final \in BOOLEAN, Flush(final)
      PROVE  Queue!Next \/ UNCHANGED <<Contents, drained>>
  <2>1. CASE count > 0 /\ Drains(final)
    <3>1. drained' = Contents /\ Contents' = <<>>
      BY <2>1 DEF Drains, Reset, Contents, Drained
    <3>2. Contents # <<>>
      BY <2>1, DrainedSeq DEF Shape, Contents
    <3> QED BY <3>1, <3>2 DEF Queue!Next, Queue!TakeAll
  <2>2. CASE UNCHANGED <<ringVars, drained>>
    BY <2>2, SameRing
  <2> QED BY <1>6, <2>1, <2>2 DEF Flush
<1> QED BY <1>1, <1>2, <1>3, <1>4, <1>5, <1>6 DEF Next, Tick, FinalFlush

THEOREM RingRefinesQueue == Spec => RingIsQueue
<1>1. Init => Queue!Init
  BY DEF Init, Queue!Init, Contents, Drained
<1> QED BY <1>1, QueueStep, ShapeInvariant, PTL DEF Spec, RingIsQueue, Queue!Spec

-----------------------------------------------------------------------------
\* Sequences without repetition, as sets.

Distinct(s) == \A i, j \in DOMAIN s : s[i] = s[j] => i = j

LEMMA EmptySet == SetOf(<<>>) = {} /\ Distinct(<<>>)
BY DEF SetOf, Distinct

LEMMA TailSet ==
  ASSUME NEW s \in Seq(Events), s # <<>>, Distinct(s)
  PROVE  /\ Distinct(Tail(s))
         /\ SetOf(Tail(s)) = SetOf(s) \ {s[1]}
         /\ s[1] \in SetOf(s)
<1> DEFINE t == Tail(s)
<1>1. /\ t \in Seq(Events) /\ Len(t) = Len(s) - 1 /\ Len(s) \in Nat /\ Len(s) >= 1
      /\ \A i \in 1..Len(t) : t[i] = s[i + 1]
  BY HeadTailProperties, EmptySeq
<1> HIDE DEF t
<1>2. DOMAIN s = 1..Len(s) /\ DOMAIN t = 1..Len(t)
  BY <1>1
<1>3. Distinct(t)
  <2>1. ASSUME NEW i \in 1..Len(t), NEW j \in 1..Len(t), t[i] = t[j] PROVE i = j
    <3>1. i + 1 \in 1..Len(s) /\ j + 1 \in 1..Len(s) /\ s[i + 1] = s[j + 1]
      BY <1>1, <2>1
    <3>2. i + 1 = j + 1
      BY <1>2, <3>1 DEF Distinct
    <3> QED BY <1>1, <3>2
  <2> QED BY <1>2, <2>1 DEF Distinct
<1>4. SetOf(t) \subseteq SetOf(s) \ {s[1]}
  <2>1. ASSUME NEW i \in 1..Len(t) PROVE t[i] \in SetOf(s) /\ t[i] # s[1]
    <3>1. i + 1 \in 1..Len(s) /\ 1 \in 1..Len(s) /\ i + 1 # 1
      BY <1>1
    <3> QED BY <1>1, <1>2, <3>1 DEF SetOf, Distinct
  <2> QED BY <1>2, <2>1 DEF SetOf
<1>5. SetOf(s) \ {s[1]} \subseteq SetOf(t)
  <2>1. ASSUME NEW i \in 1..Len(s), i # 1 PROVE s[i] \in SetOf(t)
    <3>1. i - 1 \in 1..Len(t) /\ (i - 1) + 1 = i
      BY <1>1, <2>1
    <3>2. t[i - 1] = s[i]
      BY <1>1, <3>1
    <3> QED BY <1>2, <3>1, <3>2 DEF SetOf
  <2> QED BY <1>2, <2>1 DEF SetOf
<1>6. s[1] \in SetOf(s)
  BY <1>1, <1>2 DEF SetOf
<1> QED BY <1>3, <1>4, <1>5, <1>6 DEF t

LEMMA TailSubset ==
  ASSUME NEW s \in Seq(Events), s # <<>>
  PROVE  SetOf(Tail(s)) \subseteq SetOf(s)
<1>1. /\ Tail(s) \in Seq(Events) /\ Len(Tail(s)) = Len(s) - 1 /\ Len(s) \in Nat
      /\ \A i \in 1..Len(Tail(s)) : Tail(s)[i] = s[i + 1]
  BY HeadTailProperties, EmptySeq
<1>2. \A i \in 1..Len(Tail(s)) : i + 1 \in 1..Len(s)
  BY <1>1
<1>3. DOMAIN s = 1..Len(s) /\ DOMAIN Tail(s) = 1..Len(Tail(s))
  BY <1>1
<1> QED BY <1>1, <1>2, <1>3 DEF SetOf

LEMMA AppendSet ==
  ASSUME NEW s \in Seq(Events), NEW e \in Events, Distinct(s), e \notin SetOf(s)
  PROVE  Distinct(Append(s, e)) /\ SetOf(Append(s, e)) = SetOf(s) \cup {e}
<1> DEFINE t == Append(s, e)
<1>1. /\ t \in Seq(Events) /\ Len(t) = Len(s) + 1 /\ Len(s) \in Nat
      /\ \A i \in 1..Len(s) : t[i] = s[i]
      /\ t[Len(s) + 1] = e
  BY AppendProperties, LenProperties
<1> HIDE DEF t
<1>2. DOMAIN s = 1..Len(s) /\ DOMAIN t = 1..Len(t)
  BY <1>1
<1>3. \A i \in 1..Len(t) : i \in 1..Len(s) \/ i = Len(s) + 1
  BY <1>1
<1>4. \A i \in 1..Len(s) : i \in 1..Len(t) /\ t[i] = s[i] /\ s[i] # e
  BY <1>1, <1>2 DEF SetOf
<1>5. Len(s) + 1 \in 1..Len(t)
  BY <1>1
<1>6. Distinct(t)
  BY <1>1, <1>2, <1>3, <1>4 DEF Distinct
<1>7. SetOf(t) = SetOf(s) \cup {e}
  BY <1>1, <1>2, <1>3, <1>4, <1>5 DEF SetOf
<1> QED BY <1>6, <1>7 DEF t

\* What a put makes of the events held.
LEMMA PutSet ==
  ASSUME Contents \in Seq(Events), NEW e \in Events, Distinct(Contents), e \notin SetOf(Contents)
  PROVE  /\ Distinct(Queue!With(e))
         /\ Len(Contents) = Cap =>
              /\ Contents[1] \in SetOf(Contents)
              /\ SetOf(Queue!With(e)) = (SetOf(Contents) \ {Contents[1]}) \cup {e}
         /\ Len(Contents) # Cap => SetOf(Queue!With(e)) = SetOf(Contents) \cup {e}
<1>1. CASE Len(Contents) = Cap
  <2>1. Contents # <<>>
    BY <1>1, CollectorAssumption
  <2>2. Tail(Contents) \in Seq(Events)
    BY <2>1, HeadTailProperties
  <2>3. Queue!With(e) = Append(Tail(Contents), e)
    BY <1>1 DEF Queue!With
  <2>4. e \notin SetOf(Tail(Contents))
    BY <2>1, TailSet
  <2> QED BY <1>1, <2>1, <2>2, <2>3, <2>4, TailSet, AppendSet
<1>2. CASE Len(Contents) # Cap
  <2>1. Queue!With(e) = Append(Contents, e)
    BY <1>2 DEF Queue!With
  <2> QED BY <1>2, <2>1, AppendSet
<1> QED BY <1>1, <1>2

-----------------------------------------------------------------------------
\* The places an event can be in partition the events enqueued.

StoredEvents == {e \in Events : rows[e] > 0}

Split(H, L, E, S, D, F, n) ==
    /\ H \cup L \cup E \cup S \cup D \cup F = 1..n
    /\ H \cap (L \cup E \cup S \cup D \cup F) = {}
    /\ L \cap (E \cup S \cup D \cup F) = {}
    /\ E \cap (S \cup D \cup F) = {}
    /\ S \cap (D \cup F) = {}
    /\ D \cap F = {}

LEMMA SplitSwap ==
  ASSUME NEW H, NEW L, NEW E, NEW S, NEW D, NEW F, NEW n, Split(H, L, E, S, D, F, n)
  PROVE  Split(H, E, L, S, D, F, n)
BY Zenon DEF Split

\* A put: the new event is held, what it pushes out is dropped.
LEMMA SplitPut ==
  ASSUME NEW H, NEW L, NEW E, NEW S, NEW D, NEW F, NEW n \in Nat,
         Split(H, L, E, S, D, F, n), NEW P \in SUBSET H
  PROVE  Split((H \ P) \cup {n + 1}, L, E, S, D \cup P, F, n + 1)
<1>1. 1..(n + 1) = (1..n) \cup {n + 1} /\ n + 1 \notin 1..n
  OBVIOUS
<1>2. n + 1 \notin H \cup L \cup E \cup S \cup D \cup F
  BY <1>1 DEF Split
<1>3. (H \ P) \cup {n + 1} \cup L \cup E \cup S \cup (D \cup P) \cup F = 1..(n + 1)
  BY <1>1 DEF Split
<1> QED BY <1>2, <1>3 DEF Split

\* Everything held goes to a writer that has nothing.
LEMMA SplitDrain ==
  ASSUME NEW H, NEW E, NEW S, NEW D, NEW F, NEW n, Split(H, {}, E, S, D, F, n)
  PROVE  Split({}, H, E, S, D, F, n)
BY DEF Split

\* Events of a batch are stored or refused.
LEMMA SplitWrite ==
  ASSUME NEW H, NEW L, NEW E, NEW S, NEW D, NEW F, NEW n, Split(H, L, E, S, D, F, n),
         NEW A \in SUBSET L, NEW B \in SUBSET L, A \cap B = {}
  PROVE  Split(H, L \ (A \cup B), E, S \cup A, D, F \cup B, n)
BY DEF Split

Batch(w) == SetOf(writer[w].batch)

Acc ==
    /\ Split(SetOf(Contents), Batch("loop"), Batch("early"), StoredEvents, dropped, failed, enqueued)
    /\ \A e \in Events : rows[e] \in {0, 1}
    /\ Distinct(Contents)
    /\ \A w \in Writers : Distinct(writer[w].batch)

LEMMA AccountsForAll == Acc => EveryEventOnce
BY Zenon DEF Acc, EveryEventOnce, Split, StoredEvents, InFlight, Batch

\* New rows for events that have none.
LEMMA SavedRows ==
  ASSUME \A e \in Events : rows[e] \in {0, 1}, NEW A \in SUBSET Events,
         A \cap StoredEvents = {}, rows' = Saved(A)
  PROVE  StoredEvents' = StoredEvents \cup A /\ \A e \in Events : rows'[e] \in {0, 1}
<1>1. ASSUME NEW e \in Events
      PROVE  /\ rows'[e] \in {0, 1}
             /\ rows'[e] > 0 <=> (rows[e] > 0 \/ e \in A)
  <2>1. CASE e \in A
    <3>1. rows[e] = 0
      BY <2>1 DEF StoredEvents
    <3> QED BY <2>1, <3>1 DEF Saved
  <2>2. CASE e \notin A
    BY <2>2 DEF Saved
  <2> QED BY <2>1, <2>2
<1> QED BY <1>1 DEF StoredEvents

\* A writer parts with the events it has stored and those that were refused.
LEMMA WriteAcc ==
  ASSUME Acc, Shape, NEW w \in Writers, NEW A \in SUBSET Batch(w), NEW B \in SUBSET Batch(w),
         A \cap B = {}, failed' = failed \cup B,
         rows' = Saved(A) \/ (A = {} /\ rows' = rows),
         Batch(w)' = Batch(w) \ (A \cup B), Distinct(writer'[w].batch),
         \A v \in Writers \ {w} : writer'[v] = writer[v],
         UNCHANGED <<ringVars, enqueued, dropped>>
  PROVE  Acc'
<1> DEFINE H == SetOf(Contents)
<1>1. Contents' = Contents
  BY DEF Contents, ringVars
<1>2. A \subseteq Events
  <2>1. writer[w].batch \in Seq(Events)
    BY ShapeParts, Writing
  <2> QED BY <2>1 DEF Batch, SetOf
<1>3. A \cap StoredEvents = {}
  BY DEF Acc, Split, Writers
<1>4. StoredEvents' = StoredEvents \cup A /\ \A e \in Events : rows'[e] \in {0, 1}
  BY <1>2, <1>3, SavedRows DEF Acc, StoredEvents
<1>5. CASE w = "loop"
  <2>1. Batch("early")' = Batch("early") /\ writer'["early"] = writer["early"]
    BY <1>5 DEF Batch, Writers
  <2>2. Split(H, Batch("loop") \ (A \cup B), Batch("early"), StoredEvents \cup A, dropped,
              failed \cup B, enqueued)
    BY <1>5, SplitWrite DEF Acc
  <2>3. Split(SetOf(Contents'), Batch("loop")', Batch("early")', StoredEvents', dropped',
              failed', enqueued')
    BY <1>1, <1>4, <1>5, <2>1, <2>2
  <2> QED BY <1>1, <1>4, <1>5, <2>1, <2>3 DEF Acc, Writers
<1>6. CASE w = "early"
  <2>1. Batch("loop")' = Batch("loop") /\ writer'["loop"] = writer["loop"]
    BY <1>6 DEF Batch, Writers
  <2>2. Split(H, Batch("early") \ (A \cup B), Batch("loop"), StoredEvents \cup A, dropped,
              failed \cup B, enqueued)
    BY <1>6, SplitSwap, SplitWrite DEF Acc
  <2>3. Split(SetOf(Contents'), Batch("loop")', Batch("early")', StoredEvents', dropped',
              failed', enqueued')
    BY <1>1, <1>4, <1>6, <2>1, <2>2, SplitSwap
  <2> QED BY <1>1, <1>4, <1>6, <2>1, <2>3 DEF Acc, Writers
<1> QED BY <1>5, <1>6 DEF Writers

LEMMA InitAcc == Init => Acc
<1> SUFFICES ASSUME Init PROVE Acc
  OBVIOUS
<1>1. Contents = <<>>
  BY DEF Init, Contents, Drained
<1>2. \A w \in Writers : writer[w].batch = <<>>
  BY DEF Init, Idle
<1>3. StoredEvents = {}
  BY DEF Init, StoredEvents
<1>4. SetOf(Contents) = {} /\ Batch("loop") = {} /\ Batch("early") = {}
  BY <1>1, <1>2, EmptySet DEF Batch, Writers
<1>5. dropped = {} /\ failed = {} /\ 1..enqueued = {}
  BY DEF Init
<1> QED BY <1>1, <1>2, <1>3, <1>4, <1>5, EmptySet DEF Acc, Split, Init

\* A put to the ring, by the step that leaves the events in it or takes them out.
LEMMA PutAcc ==
  ASSUME Acc, Shape, NEW e \in Events, e = enqueued + 1, Store(e)
  PROVE  /\ Split(SetOf(Queue!With(e)), Batch("loop"), Batch("early"), StoredEvents, dropped',
                  failed, enqueued')
         /\ Distinct(Queue!With(e))
<1> DEFINE P == IF count = Cap THEN {ring[head]} ELSE {}
<1>1. /\ Contents \in Seq(Events) /\ Len(Contents) = count
      /\ count = Cap => ring[head] = Contents[1]
  BY DrainedSeq, RingPut DEF Shape, Contents
<1>2. enqueued \in Nat
  BY DEF Shape, CollectorOK
<1>3. e \notin SetOf(Contents)
  <2>1. SetOf(Contents) \subseteq 1..enqueued
    BY DEF Acc, Split
  <2> QED BY <1>2, <2>1
<1>4. /\ Distinct(Queue!With(e)) /\ P \subseteq SetOf(Contents)
      /\ SetOf(Queue!With(e)) = (SetOf(Contents) \ P) \cup {e}
  BY <1>1, <1>3, PutSet DEF Acc
<1>5. dropped' = dropped \cup P /\ enqueued' = enqueued + 1
  BY DEF Store
<1> HIDE DEF P
<1> QED BY <1>2, <1>4, <1>5, SplitPut DEF Acc

LEMMA EnqueueAcc ==
  ASSUME Acc, Shape, Enqueue
  PROVE  Acc'
<1> DEFINE e == enqueued + 1
<1>1. enqueued < MaxEvents /\ Store(e) /\ UNCHANGED <<writer, rows, failed>>
  BY DEF Enqueue
<1>2. e \in Events
  BY <1>1, NewEvent
<1>3. Contents' = Queue!With(e)
  BY <1>2, PutRing
<1>4. /\ Split(SetOf(Queue!With(e)), Batch("loop"), Batch("early"), StoredEvents, dropped',
               failed, enqueued')
      /\ Distinct(Queue!With(e))
  BY <1>1, <1>2, PutAcc
<1>5. UNCHANGED <<Batch("loop"), Batch("early"), StoredEvents>>
  BY <1>1 DEF Batch, StoredEvents
<1> QED BY <1>1, <1>3, <1>4, <1>5 DEF Acc

LEMMA LaunchAcc ==
  ASSUME Acc, Shape, EnqueueAndFlush
  PROVE  Acc'
<1> DEFINE e == enqueued + 1
<1>1. enqueued < MaxEvents /\ Store(e) /\ Reset /\ UNCHANGED <<rows, failed>>
  BY DEF EnqueueAndFlush
<1>2. e \in Events
  BY <1>1, NewEvent
<1>3. Contents' = <<>>
  BY <1>1 DEF Reset, Contents, Drained
<1>4. /\ Split(SetOf(Queue!With(e)), Batch("loop"), Batch("early"), StoredEvents, dropped',
               failed, enqueued')
      /\ Distinct(Queue!With(e))
  BY <1>1, <1>2, PutAcc
<1>5. /\ writer["early"].batch = <<>> /\ writer'["early"].batch = Queue!With(e)
      /\ writer'["loop"] = writer["loop"]
  BY <1>2, LaunchCrew, ShapeParts
<1>6. Batch("early") = {} /\ Batch("early")' = SetOf(Queue!With(e)) /\ Batch("loop")' = Batch("loop")
  BY <1>5, EmptySet DEF Batch
<1>7. Split({}, SetOf(Queue!With(e)), Batch("loop"), StoredEvents, dropped', failed, enqueued')
  BY <1>4, <1>6, SplitSwap, SplitDrain
<1>8. Split(SetOf(Contents'), Batch("loop")', Batch("early")', StoredEvents, dropped', failed, enqueued')
  BY <1>3, <1>6, <1>7, EmptySet, SplitSwap
<1>9. StoredEvents' = StoredEvents
  BY <1>1 DEF StoredEvents
<1>10. Distinct(Contents') /\ \A w \in Writers : Distinct(writer'[w].batch)
  BY <1>3, <1>4, <1>5, EmptySet DEF Acc, Writers
<1> QED BY <1>1, <1>8, <1>9, <1>10 DEF Acc

LEMMA FlushAcc ==
  ASSUME Acc, Shape, NEW final \in BOOLEAN, Flush(final)
  PROVE  Acc'
<1>1. UNCHANGED <<enqueued, rows, dropped, failed>> /\ UNCHANGED <<early, leaving>>
      /\ writer["loop"].pc = "wait"
  BY DEF Flush, fate
<1>2. StoredEvents' = StoredEvents
  BY <1>1 DEF StoredEvents
<1>3. CASE Drains(final)
  <2>1. /\ writer["loop"].batch = <<>> /\ writer'["loop"].batch = Contents
        /\ writer'["early"] = writer["early"]
    BY <1>1, <1>3, DrainsCrew, ShapeParts
  <2>2. Contents' = <<>>
    BY <1>3 DEF Drains, Reset, Contents, Drained
  <2>3. Batch("loop") = {} /\ Batch("loop")' = SetOf(Contents) /\ Batch("early")' = Batch("early")
    BY <2>1, EmptySet DEF Batch
  <2>4. Split({}, SetOf(Contents), Batch("early"), StoredEvents, dropped, failed, enqueued)
    BY <2>3, SplitDrain DEF Acc
  <2>5. Split(SetOf(Contents'), Batch("loop")', Batch("early")', StoredEvents', dropped', failed', enqueued')
    BY <1>1, <1>2, <2>2, <2>3, <2>4, EmptySet
  <2>6. Distinct(Contents') /\ \A w \in Writers : Distinct(writer'[w].batch)
    BY <2>1, <2>2, EmptySet DEF Acc, Writers
  <2> QED BY <1>1, <2>5, <2>6 DEF Acc
<1>4. CASE /\ writer' = [writer EXCEPT !["loop"] = Idle("off")] /\ wg' = wg - 1
           /\ UNCHANGED <<ringVars, drained>>
  <2>1. /\ writer["loop"].batch = <<>> /\ writer'["loop"].batch = <<>>
        /\ writer'["early"] = writer["early"]
    BY <1>1, <1>4, ExitCrew, ShapeParts
  <2>2. Contents' = Contents
    BY <1>4, SameRing
  <2>3. UNCHANGED <<Batch("loop"), Batch("early")>>
    BY <2>1 DEF Batch
  <2>4. \A w \in Writers : Distinct(writer'[w].batch)
    BY <2>1, EmptySet DEF Acc, Writers
  <2> QED BY <1>1, <1>2, <2>2, <2>3, <2>4 DEF Acc
<1> QED BY <1>3, <1>4 DEF Flush

LEMMA WritesAcc ==
  ASSUME Acc, Shape, NEW w \in Writers, Writes(w)
  PROVE  Acc'
<1> DEFINE b == writer[w].batch
<1>0. /\ Crew /\ UNCHANGED <<ringVars, enqueued, dropped>> /\ b \in Seq(Events) /\ Distinct(b)
      /\ Batch(w)' = SetOf(writer'[w].batch) /\ Batch(w) = SetOf(b)
  BY ShapeParts, WriteCrew, Writing DEF Acc, Batch
<1>1. ASSUME NEW bad \in SUBSET SetOf(b), Commits(w, bad) PROVE Acc'
  <2>1. /\ rows' = Saved(Batch(w) \ bad) /\ failed' = failed \cup bad
        /\ writer[w].pc \in {"tx", "notx"} /\ AfterWrite(w)
    BY <1>1 DEF Commits, Batch
  <2>2. /\ writer'[w].batch = <<>> /\ \A v \in Writers \ {w} : writer'[v] = writer[v]
    BY <1>0, <2>1, AfterWriteCrew
  <2>3. Batch(w)' = Batch(w) \ ((Batch(w) \ bad) \cup bad) /\ Distinct(writer'[w].batch)
    BY <1>0, <2>2, EmptySet
  <2> DEFINE A == Batch(w) \ bad
  <2>4. /\ bad \in SUBSET Batch(w) /\ A \in SUBSET Batch(w) /\ A \cap bad = {}
        /\ Batch(w)' = Batch(w) \ (A \cup bad) /\ rows' = Saved(A)
    BY <1>0, <2>1, <2>3
  <2>5. rows' = Saved(A) \/ (A = {} /\ rows' = rows)
    BY <2>4
  <2> HIDE DEF A
  <2> QED BY <1>0, <2>1, <2>2, <2>3, <2>4, <2>5, WriteAcc
<1>2. ASSUME Aborts(w) PROVE Acc'
  <2>1. /\ rows' = rows /\ failed' = failed \cup Batch(w)
        /\ writer[w].pc \in {"tx", "notx"} /\ AfterWrite(w)
    BY <1>2 DEF Aborts, Batch
  <2>2. /\ writer'[w].batch = <<>> /\ \A v \in Writers \ {w} : writer'[v] = writer[v]
    BY <1>0, <2>1, AfterWriteCrew
  <2>3. Batch(w)' = Batch(w) \ ({} \cup Batch(w)) /\ Distinct(writer'[w].batch)
    BY <1>0, <2>2, EmptySet
  <2> QED BY <1>0, <2>1, <2>2, <2>3, WriteAcc
<1>3. ASSUME FallsBack(w) PROVE Acc'
  <2>1. UNCHANGED <<rows, failed>>
    BY <1>3 DEF FallsBack, fate
  <2>2. /\ writer'[w].batch = b /\ \A v \in Writers \ {w} : writer'[v] = writer[v]
    BY <1>0, <1>3, FallsBackCrew
  <2>3. Batch(w)' = Batch(w) \ ({} \cup {}) /\ Distinct(writer'[w].batch)
    BY <1>0, <2>2
  <2> QED BY <1>0, <2>1, <2>2, <2>3, WriteAcc
<1>4. ASSUME WritesOne(w) PROVE Acc'
  <2>1. /\ b # <<>> /\ writer'[w].batch = Tail(b)
        /\ \A v \in Writers \ {w} : writer'[v] = writer[v]
    BY <1>0, <1>4, WritesOneCrew
  <2>2. Distinct(Tail(b)) /\ SetOf(Tail(b)) = SetOf(b) \ {b[1]} /\ b[1] \in SetOf(b)
    BY <1>0, <2>1, TailSet
  <2>3. CASE rows' = Saved({b[1]}) /\ failed' = failed
    <3> DEFINE A == {b[1]}
    <3>1. /\ Batch(w)' = Batch(w) \ (A \cup {}) /\ A \in SUBSET Batch(w) /\ A \cap {} = {}
          /\ rows' = Saved(A) /\ failed' = failed \cup {} /\ Distinct(writer'[w].batch)
      BY <1>0, <2>1, <2>2, <2>3
    <3>2. rows' = Saved(A) \/ (A = {} /\ rows' = rows)
      BY <3>1
    <3> HIDE DEF A
    <3> QED BY <1>0, <2>1, <3>1, <3>2, WriteAcc
  <2>4. CASE rows' = rows /\ failed' = failed \cup {b[1]}
    <3> DEFINE B == {b[1]}
    <3>1. /\ Batch(w)' = Batch(w) \ ({} \cup B) /\ B \in SUBSET Batch(w) /\ {} \cap B = {}
          /\ rows' = rows /\ failed' = failed \cup B /\ Distinct(writer'[w].batch)
      BY <1>0, <2>1, <2>2, <2>4
    <3> HIDE DEF B
    <3> QED BY <1>0, <2>1, <3>1, WriteAcc
  <2> QED BY <1>4, <2>3, <2>4 DEF WritesOne
<1> QED BY <1>1, <1>2, <1>3, <1>4 DEF Writes

LEMMA StepAcc == Shape /\ Acc /\ [Next]_vars => Acc'
<1> SUFFICES ASSUME Shape, Acc, [Next]_vars PROVE Acc'
  OBVIOUS
<1>1. ASSUME UNCHANGED <<ringVars, writer, rows, dropped, failed, enqueued>> PROVE Acc'
  BY <1>1, SameRing DEF Acc, Batch, StoredEvents
<1>2. CASE UNCHANGED vars
  BY <1>1, <1>2 DEF vars, fate
<1>3. CASE EarlyDone \/ StopCalled \/ StopReturns
  BY <1>1, <1>3 DEF EarlyDone, StopCalled, StopReturns, fate
<1> QED BY <1>2, <1>3, EnqueueAcc, LaunchAcc, FlushAcc, WritesAcc DEF Next, Tick, FinalFlush

\* No interleaving of flushes loses an event or writes one twice.
THEOREM EveryEventAccounted == Spec => []EveryEventOnce
BY InitAcc, StepAcc, ShapeInvariant, AccountsForAll, PTL DEF Spec

-----------------------------------------------------------------------------
\* Stop: once the loop has drained for the last time, nothing enqueued before Stop
\* is in the ring, and when Stop returns no writer has any of it.

Later(events) == \A e \in events : e > beforeStop

StopInv ==
    /\ stop \in {"no", "closing", "returned"}
    /\ stop # "no" => beforeStop \in 0..enqueued
    /\ writer["loop"].final \/ writer["loop"].pc = "off" =>
          stop # "no" /\ Later(SetOf(Contents))
    /\ stop = "returned" => writer["loop"].pc = "off" /\ Later(Batch("early"))

LEMMA StopInvImplies == Shape /\ StopInv => StopFlushes
<1> SUFFICES ASSUME Shape, StopInv, stop = "returned", NEW e \in 1..beforeStop
             PROVE  e \notin SetOf(Contents) \cup InFlight
  BY DEF StopFlushes
<1>1. Batch("loop") = {}
  BY ShapeParts, EmptySet DEF StopInv, Crew, AtRest, Batch, Writers
<1>2. ~(e > beforeStop)
  BY DEF StopInv, Shape, CollectorOK
<1> QED BY <1>1, <1>2 DEF StopInv, Later, InFlight, Batch

LEMMA WithSubset ==
  ASSUME Shape, NEW e \in Events
  PROVE  SetOf(Queue!With(e)) \subseteq SetOf(Contents) \cup {e}
<1>1. Contents \in Seq(Events) /\ Len(Contents) = count
  BY DrainedSeq DEF Shape, Contents
<1> DEFINE s == IF Len(Contents) = Cap THEN Tail(Contents) ELSE Contents
<1>2. s \in Seq(Events) /\ SetOf(s) \subseteq SetOf(Contents)
  <2>1. CASE Len(Contents) = Cap
    <3>1. Contents # <<>>
      BY <2>1, CollectorAssumption
    <3>2. Tail(Contents) \in Seq(Events)
      BY <1>1, <3>1, HeadTailProperties
    <3> QED BY <1>1, <2>1, <3>1, <3>2, TailSubset
  <2>2. CASE Len(Contents) # Cap
    BY <1>1, <2>2
  <2> QED BY <2>1, <2>2
<1>3. Queue!With(e) = Append(s, e)
  BY DEF Queue!With
<1> HIDE DEF s
<1>4. /\ Len(Append(s, e)) = Len(s) + 1 /\ Len(s) \in Nat /\ Append(s, e) \in Seq(Events)
      /\ \A i \in 1..Len(s) : Append(s, e)[i] = s[i]
      /\ Append(s, e)[Len(s) + 1] = e
  BY <1>2, AppendProperties, LenProperties
<1>5. DOMAIN Append(s, e) = 1..(Len(s) + 1) /\ DOMAIN s = 1..Len(s)
  BY <1>2, <1>4
<1>6. \A i \in 1..(Len(s) + 1) : i \in 1..Len(s) \/ i = Len(s) + 1
  BY <1>4
<1> QED BY <1>2, <1>3, <1>4, <1>5, <1>6 DEF SetOf

\* What a write may change of a writer.
WriteEffect(w) ==
    /\ writer[w].pc # "off"
    /\ \A v \in Writers \ {w} : writer'[v] = writer[v]
    /\ Batch(w)' \subseteq Batch(w)
    /\ \/ writer'[w].final = writer[w].final /\ writer'[w].pc # "off"
       \/ /\ ~writer'[w].final
          /\ w = "loop" => writer'["loop"].pc = IF writer["loop"].final THEN "off" ELSE "wait"

LEMMA WritesEffect ==
  ASSUME Crew, NEW w \in Writers, Writes(w)
  PROVE  WriteEffect(w)
<1>1. ASSUME writer[w].pc \in {"tx", "notx"}, AfterWrite(w) PROVE WriteEffect(w)
  <2>1. Batch(w)' = {}
    BY <1>1, AfterWriteCrew, EmptySet DEF Batch
  <2> QED BY <1>1, <2>1, AfterWriteCrew DEF WriteEffect
<1>2. ASSUME NEW bad \in SUBSET SetOf(writer[w].batch), Commits(w, bad) PROVE WriteEffect(w)
  BY <1>1, <1>2 DEF Commits
<1>3. ASSUME Aborts(w) PROVE WriteEffect(w)
  BY <1>1, <1>3 DEF Aborts
<1>4. ASSUME FallsBack(w) PROVE WriteEffect(w)
  <2>1. writer[w].pc = "tx"
    BY <1>4 DEF FallsBack
  <2> QED BY <1>4, <2>1, FallsBackCrew DEF WriteEffect, Batch
<1>5. ASSUME WritesOne(w) PROVE WriteEffect(w)
  <2>1. /\ writer[w].pc = "notx" /\ writer[w].batch # <<>> /\ writer[w].batch \in Seq(Events)
        /\ writer'[w].batch = Tail(writer[w].batch)
    BY <1>5, WritesOneCrew, Writing DEF WritesOne
  <2>2. Batch(w)' \subseteq Batch(w)
    BY <2>1, TailSubset DEF Batch
  <2> QED BY <1>5, <2>1, <2>2, WritesOneCrew DEF WriteEffect
<1> QED BY <1>2, <1>3, <1>4, <1>5 DEF Writes

LEMMA InitStopInv == Init => StopInv
BY Resting DEF Init, StopInv, Writers

LEMMA StepStopInv == Shape /\ StopInv /\ [Next]_vars => StopInv'
<1> SUFFICES ASSUME Shape, StopInv, [Next]_vars PROVE StopInv'
  OBVIOUS
<1> DEFINE e == enqueued + 1
<1>0. Crew /\ enqueued \in Nat
  BY ShapeParts DEF Shape, CollectorOK
<1>1. CASE UNCHANGED vars
  BY <1>1, SameRing DEF vars, hist, StopInv, Later, Batch, ringVars
<1>2. CASE Enqueue
  <2>1. /\ enqueued < MaxEvents /\ enqueued' = e
        /\ UNCHANGED <<writer, stop, beforeStop>>
    BY <1>2 DEF Enqueue, Store, hist
  <2>2. e \in Events /\ Contents' = Queue!With(e)
    BY <1>2, <2>1, NewEvent, PutRing
  <2>3. SetOf(Queue!With(e)) \subseteq SetOf(Contents) \cup {e}
    BY <2>2, WithSubset
  <2> QED BY <1>0, <2>1, <2>2, <2>3 DEF StopInv, Later, Batch
<1>3. CASE EnqueueAndFlush
  <2>1. /\ enqueued < MaxEvents /\ enqueued' = e /\ Reset
        /\ UNCHANGED <<stop, beforeStop>>
    BY <1>3 DEF EnqueueAndFlush, Store
  <2>2. e \in Events /\ Contents' = <<>>
    BY <2>1, NewEvent DEF Reset, Contents, Drained
  <2>3. writer'["early"].batch = Queue!With(e) /\ writer'["loop"] = writer["loop"]
    BY <1>0, <1>3, <2>2, LaunchCrew
  <2>4. Batch("early")' \subseteq SetOf(Contents) \cup {e}
    BY <2>2, <2>3, WithSubset DEF Batch
  <2> QED BY <1>0, <2>1, <2>2, <2>3, <2>4, EmptySet DEF StopInv, Later
<1>4. ASSUME NEW w \in Writers, Writes(w) PROVE StopInv'
  <2>1. UNCHANGED <<enqueued, stop, beforeStop>> /\ Contents' = Contents
    BY <1>0, <1>4, WriteCrew, SameRing DEF hist
  <2>2. WriteEffect(w)
    BY <1>0, <1>4, WritesEffect
  <2>3. CASE w = "early"
    BY <2>1, <2>2, <2>3 DEF StopInv, Later, Batch, WriteEffect, Writers
  <2>4. CASE w = "loop"
    <3>1. writer["loop"].pc # "off" /\ Batch("early")' = Batch("early")
      BY <2>2, <2>4 DEF WriteEffect, Batch, Writers
    <3> QED BY <2>1, <2>2, <2>4, <3>1 DEF StopInv, Later, WriteEffect
  <2> QED BY <2>3, <2>4 DEF Writers
<1>5. CASE EarlyDone
  BY <1>5, SameRing DEF EarlyDone, hist, StopInv, Later, Batch
<1>6. ASSUME NEW final \in BOOLEAN, Flush(final), final => stop # "no" PROVE StopInv'
  <2>1. UNCHANGED <<enqueued, stop, beforeStop, early, leaving>> /\ writer["loop"].pc = "wait"
    BY <1>6 DEF Flush
  <2>2. CASE Drains(final)
    <3>1. /\ writer'["loop"].final = final /\ writer'["loop"].pc = "tx"
          /\ writer'["early"] = writer["early"]
      BY <1>0, <2>1, <2>2, DrainsCrew
    <3>2. SetOf(Contents') = {}
      BY <2>2, EmptySet DEF Drains, Reset, Contents, Drained
    <3> QED BY <1>6, <2>1, <3>1, <3>2 DEF StopInv, Later, Batch
  <2>3. CASE /\ count = 0 /\ final
             /\ writer' = [writer EXCEPT !["loop"] = Idle("off")]
             /\ wg' = wg - 1
             /\ UNCHANGED <<ringVars, drained>>
    <3>1. writer'["loop"].pc = "off" /\ writer'["early"] = writer["early"]
      BY <1>0, <2>1, <2>3, ExitCrew
    <3>2. SetOf(Contents') = {}
      BY <2>3, EmptySet DEF ringVars, Contents, Drained
    <3> QED BY <1>6, <2>1, <2>3, <3>1, <3>2 DEF StopInv, Later, Batch
  <2> QED BY <1>6, <2>2, <2>3 DEF Flush
<1>7. CASE StopCalled
  <2>1. /\ stop = "no" /\ stop' = "closing" /\ beforeStop' = enqueued
        /\ UNCHANGED <<enqueued, writer>> /\ Contents' = Contents
    BY <1>7, SameRing DEF StopCalled
  <2> QED BY <1>0, <2>1 DEF StopInv
<1>8. CASE StopReturns
  <2>1. /\ wg = 0 /\ stop' = "returned" /\ stop = "closing"
        /\ UNCHANGED <<enqueued, writer, beforeStop>> /\ Contents' = Contents
    BY <1>8, SameRing DEF StopReturns, hist
  <2>2. writer["loop"].pc = "off" /\ writer["early"].pc = "off"
    BY <1>0, <2>1 DEF Crew, Running
  <2>3. Batch("early")' = {}
    BY <1>0, <2>1, <2>2, EmptySet DEF Crew, AtRest, Batch, Writers
  <2> QED BY <2>1, <2>2, <2>3 DEF StopInv, Later
<1> QED BY <1>1, <1>2, <1>3, <1>4, <1>5, <1>6, <1>7, <1>8 DEF Next, Tick, FinalFlush

\* Stop leaves none of the events enqueued before it in the ring or in a batch.
THEOREM StopLeavesNothing == Spec => []StopFlushes
BY InitStopInv, StepStopInv, ShapeInvariant, StopInvImplies, PTL DEF Spec
=============================================================================
