------------------------ MODULE WatcherPipelineProofs ------------------------
(***************************************************************************)
(* For every set of files and workers, every bound and every capacity:     *)
(* WatcherPipeline is type correct, loses no change of a file but to I/O   *)
(* errors, and at rest its graph mirrors the disk but for overlaps.        *)
(***************************************************************************)
EXTENDS WatcherPipeline, TLAPS

\* A queue that had x appended holds its old elements and x.
LEMMA RangeOfAppend ==
    ASSUME NEW S, NEW s \in Seq(S), NEW x \in S
    PROVE  Append(s, x) \in Seq(S) /\ Range(Append(s, x)) = Range(s) \cup {x}
<1>1. DOMAIN Append(s, x) = 1..(Len(s) + 1) /\ DOMAIN s = 1..Len(s) /\ Len(s) \in Nat
  OBVIOUS
<1>2. \A i \in 1..Len(s) : Append(s, x)[i] = s[i]
  OBVIOUS
<1>3. Append(s, x)[Len(s) + 1] = x
  OBVIOUS
<1>4. \A y : y \in Range(Append(s, x)) <=> y \in Range(s) \cup {x}
  BY <1>1, <1>2, <1>3 DEF Range
<1> QED BY <1>4

\* The elements of a nonempty queue are its head and what is left after it.
LEMMA RangeOfTail ==
    ASSUME NEW S, NEW s \in Seq(S), s # <<>>
    PROVE  /\ Head(s) \in S
           /\ Tail(s) \in Seq(S)
           /\ Range(s) = {Head(s)} \cup Range(Tail(s))
<1>1. /\ DOMAIN Tail(s) = 1..(Len(s) - 1) /\ DOMAIN s = 1..Len(s)
      /\ Len(s) \in Nat /\ Len(s) # 0
  OBVIOUS
<1>2. \A i \in 1..(Len(s) - 1) : Tail(s)[i] = s[i + 1]
  OBVIOUS
<1>3. Head(s) = s[1] /\ s[1] \in S /\ Tail(s) \in Seq(S)
  OBVIOUS
<1>4. ASSUME NEW i \in DOMAIN s PROVE s[i] \in {Head(s)} \cup Range(Tail(s))
  <2>1. CASE i = 1
    BY <2>1, <1>3
  <2>2. CASE i # 1
    <3>1. i - 1 \in DOMAIN Tail(s)
      BY <2>2, <1>1, <1>4
    <3>2. s[i] = Tail(s)[i - 1]
      BY <3>1, <1>1, <1>2
    <3> QED BY <3>1, <3>2 DEF Range
  <2> QED BY <2>1, <2>2
<1>5. ASSUME NEW i \in DOMAIN Tail(s) PROVE Tail(s)[i] \in Range(s)
  <2>1. i + 1 \in DOMAIN s /\ Tail(s)[i] = s[i + 1]
    BY <1>1, <1>2, <1>5
  <2> QED BY <2>1 DEF Range
<1>6. Head(s) \in Range(s)
  BY <1>1, <1>3 DEF Range
<1> QED BY <1>3, <1>4, <1>5, <1>6 DEF Range

\* An empty queue has no elements.
LEMMA RangeOfEmpty == Range(<<>>) = {}
  BY DEF Range

-----------------------------------------------------------------------------
\* Every reachable state of the pipeline has the declared types (in
\* particular no timer, callback or re-walk count ever becomes negative).
THEOREM TypeCorrect == Spec => []TypeOK
<1> USE PipelineAssumption
<1>1. Init => TypeOK
  <2> SUFFICES ASSUME Init PROVE TypeOK
    OBVIOUS
  <2>1. Gone \in Content /\ [ver |-> 1, ino |-> 1] \in [ver: 0..1, ino : 0..1]
    BY DEF Gone, Content, Versions
  <2>2. PICK present \in SUBSET Files :
           /\ disk = [f \in Files |-> IF f \in present /\ MaxEdits > 0
                                      THEN [ver |-> 1, ino |-> 1] ELSE Gone]
           /\ edits = [f \in Files |-> disk[f].ver]
           /\ graph = [f \in Files |-> IF Readable(f) THEN {disk[f].ver} ELSE {}]
    BY DEF Init
  <2>3. \A f \in Files : disk[f] \in Content
    BY <2>1, <2>2 DEF Content, Versions
  <2>4. \A f \in Files : disk[f].ver \in Versions
    BY <2>3 DEF Content
  <2>5. disk \in [Files -> Content] /\ edits \in [Files -> Versions]
    BY <2>2, <2>3, <2>4
  <2>6. graph \in [Files -> SUBSET (1..MaxEdits)]
    BY <2>2, <2>4 DEF Versions, Readable, Present
  <2>7. worker \in [Workers -> WorkerState]
    BY DEF Init, WorkerState
  <2>8. events \in Seq(Event) /\ workCh \in Seq(Files) /\ parseCh \in Seq(Result) /\ batch \in Seq(Result)
    BY DEF Init
  <2> QED BY <2>5, <2>6, <2>7, <2>8 DEF Init, TypeOK
<1>2. TypeOK /\ [Next]_vars => TypeOK'
  <2> SUFFICES ASSUME TypeOK, [Next]_vars PROVE TypeOK'
    OBVIOUS
  <2> USE DEF TypeOK, timerVars, workerVars, mergeVars, graphVars, walkVars, diskVars,
             lossVars, history
  <2>1. ASSUME NEW f \in Files, Edit(f) PROVE TypeOK'
    <3>1. edits[f] + 1 \in Versions /\ disk[f].ino \in Versions
      BY <2>1 DEF Edit, Versions, Content
    <3>2. disk' \in [Files -> Content]
      BY <2>1, <3>1 DEF Edit, Content
    <3>3. [file |-> f, op |-> "write"] \in Event
      BY DEF Event
    <3>4. events' \in Seq(Event)
      BY <2>1, <3>3 DEF Edit
    <3> QED BY <2>1, <3>1, <3>2, <3>4 DEF Edit
  <2>2. ASSUME NEW f \in Files, Unlink(f) PROVE TypeOK'
    <3>1. Gone \in Content /\ [file |-> f, op |-> "remove"] \in Event
      BY DEF Gone, Content, Event, Versions
    <3>2. disk' \in [Files -> Content] /\ events' \in Seq(Event)
      BY <2>2, <3>1 DEF Unlink
    <3> QED BY <2>2, <3>2 DEF Unlink
  <2>3. CASE HandleRemove
    <3>1. Head(events) \in Event /\ Tail(events) \in Seq(Event)
      BY <2>3, RangeOfTail DEF HandleRemove
    <3>2. Head(events).file \in Files
      BY <3>1 DEF Event
    <3>3. /\ graph' \in [Files -> SUBSET (1..MaxEdits)]
          /\ hadErrors' \in [Files -> BOOLEAN]
          /\ events' \in Seq(Event)
      BY <2>3, <3>1, <3>2 DEF HandleRemove
    <3>4. /\ tainted' \in [Files -> BOOLEAN] /\ delivered' \in [Files -> BOOLEAN]
          /\ erring' \in [Files -> 0..2]
      BY <2>3, <3>2 DEF HandleRemove, Forgets, Carried, BeingParsed
    <3> QED BY <2>3, <3>3, <3>4 DEF HandleRemove
  <2>4. CASE HandleWrite
    <3>1. Head(events) \in Event /\ Tail(events) \in Seq(Event)
      BY <2>4, RangeOfTail DEF HandleWrite
    <3>2. Head(events).file \in Files
      BY <3>1 DEF Event
    <3>3. /\ timer' \in [Files -> {"none", "armed", "fired"}] /\ walks' \in Nat
          /\ relies' \in SUBSET Files
      <4> DEFINE f == Head(events).file
      <4>1. CASE Rearm(f)
        BY <3>2, <4>1 DEF Rearm
      <4>2. CASE NewTimer(f)
        BY <3>2, <4>2 DEF NewTimer
      <4>3. CASE FullRewalk(f)
        BY <3>2, <4>3 DEF FullRewalk
      <4> QED BY <2>4, <4>1, <4>2, <4>3 DEF HandleWrite
    <3>4. UNCHANGED <<stray, due, sending>>
      BY <2>4 DEF HandleWrite, Rearm, NewTimer, FullRewalk
    <3> QED BY <2>4, <3>1, <3>3, <3>4 DEF HandleWrite
  <2>5. ASSUME NEW f \in Files, TimerFires(f) PROVE TypeOK'
    <3>1. timer' \in [Files -> {"none", "armed", "fired"}]
      BY <2>5 DEF TimerFires
    <3>2. stray' \in [Files -> Nat]
      <4>1. stray[f] > 0 => stray[f] - 1 \in Nat
        OBVIOUS
      <4> QED BY <2>5, <4>1 DEF TimerFires
    <3>3. due' \in [Files -> Nat]
      BY <2>5 DEF TimerFires
    <3> QED BY <2>5, <3>1, <3>2, <3>3 DEF TimerFires
  <2>6. ASSUME NEW f \in Files, CallbackRuns(f) PROVE TypeOK'
    <3>1. timer' \in [Files -> {"none", "armed", "fired"}]
      BY <2>6 DEF CallbackRuns
    <3>2. stray' \in [Files -> Nat] /\ sending' \in [Files -> Nat]
      BY <2>6 DEF CallbackRuns
    <3>3. due' \in [Files -> Nat]
      <4>1. due[f] - 1 \in Nat
        BY <2>6 DEF CallbackRuns
      <4> QED BY <2>6, <4>1 DEF CallbackRuns
    <3> QED BY <2>6, <3>1, <3>2, <3>3 DEF CallbackRuns
  <2>7. ASSUME NEW f \in Files, SendWork(f) PROVE TypeOK'
    <3>1. sending' \in [Files -> Nat] /\ workCh' \in Seq(Files)
      BY <2>7 DEF SendWork
    <3> QED BY <2>7, <3>1 DEF SendWork
  <2>8. ASSUME NEW w \in Workers, StartRead(w) PROVE TypeOK'
    <3>1. Head(workCh) \in Files /\ Tail(workCh) \in Seq(Files)
      BY <2>8, RangeOfTail DEF StartRead
    <3>2. disk[Head(workCh)].ino \in Versions /\ 0 \in Versions
      <4> HIDE DEF TypeOK
      <4>1. disk \in [Files -> Content]
        BY DEF TypeOK
      <4>2. disk[Head(workCh)] \in Content
        BY <3>1, <4>1
      <4>3. disk[Head(workCh)].ino \in Versions
        BY <4>2 DEF Content
      <4>4. 0 \in Versions
        BY DEF Versions
      <4> QED BY <4>3, <4>4
    <3>3. worker' \in [Workers -> WorkerState]
      BY <2>8, <3>1, <3>2 DEF StartRead, WorkerState
    <3>4. tainted' \in [Files -> BOOLEAN]
      BY <2>8, <3>1 DEF StartRead, BeingParsed, Carried
    <3> QED BY <2>8, <3>1, <3>3, <3>4 DEF StartRead
  <2>9. ASSUME NEW w \in Workers, FinishRead(w) PROVE TypeOK'
    <3>1. worker[w].file \in Files /\ worker[w].ino \in Versions
      BY <2>9 DEF FinishRead, WorkerState, IdleWorker
    <3>2. ReadResult(w) \in Versions
      BY <3>1 DEF ReadResult, Versions, Content
    <3>3. worker' \in [Workers -> WorkerState]
      BY <2>9, <3>1, <3>2 DEF FinishRead, WorkerState
    <3>4. delivered' \in [Files -> BOOLEAN]
      BY <2>9, <3>1 DEF FinishRead, ParserFails
    <3> QED BY <2>9, <3>3, <3>4 DEF FinishRead
  <2>10. ASSUME NEW w \in Workers, SendResult(w) PROVE TypeOK'
    <3>1. worker' \in [Workers -> WorkerState]
      BY <2>10 DEF SendResult, WorkerState
    <3>2. [file |-> worker[w].file, ver |-> worker[w].ver] \in Result
      BY <2>10 DEF SendResult, WorkerState, IdleWorker, Result
    <3>3. parseCh' \in Seq(Result)
      BY <2>10, <3>2 DEF SendResult
    <3> QED BY <2>10, <3>1, <3>3 DEF SendResult
  <2>11. CASE Collect
    <3>1. Head(parseCh) \in Result /\ Tail(parseCh) \in Seq(Result)
      BY <2>11, RangeOfTail DEF Collect
    <3> QED BY <2>11, <3>1 DEF Collect
  <2>12. CASE EndCollect \/ BeginApply
    BY <2>12 DEF EndCollect, BeginApply
  <2>13. CASE ApplyOne
    <3>1. Head(batch) \in Result /\ Tail(batch) \in Seq(Result)
      BY <2>13, RangeOfTail DEF ApplyOne
    <3>2. Head(batch).file \in Files /\ Head(batch).ver \in Versions
      BY <3>1 DEF Result
    <3>3. CASE Head(batch).ver = 0
      BY <2>13, <3>1, <3>3 DEF ApplyOne
    <3>4. CASE Head(batch).ver # 0
      <4>1. hadErrors' \in [Files -> BOOLEAN]
        BY <2>13, <3>2, <3>4 DEF ApplyOne, FlagAfter, HasErrors
      <4>2. graph' \in [Files -> SUBSET (1..MaxEdits)]
        <5>1. {Head(batch).ver} \in SUBSET (1..MaxEdits)
          BY <3>2, <3>4 DEF Versions
        <5>2. graph' = [graph EXCEPT ![Head(batch).file] =
                            IF Skipped(Head(batch)) THEN @ ELSE {Head(batch).ver}]
          BY <2>13, <3>4 DEF ApplyOne
        <5>3. CASE Skipped(Head(batch))
          BY <3>2, <5>2, <5>3
        <5>4. CASE ~Skipped(Head(batch))
          BY <3>2, <5>1, <5>2, <5>4
        <5> QED BY <5>3, <5>4
      <4>3. /\ delivered' \in [Files -> BOOLEAN]
            /\ tainted' \in [Files -> BOOLEAN]
        <5> DEFINE f == Head(batch).file
                   d == delivered[f] \/ Head(batch).ver = disk[f].ver
                   t == tainted[f] /\ (\/ Skipped(Head(batch)) \/ ~Alone(f)
                                      \/ Head(batch).ver # disk[f].ver)
        <5>1. delivered' = [delivered EXCEPT ![f] = d] /\ tainted' = [tainted EXCEPT ![f] = t]
          BY <2>13, <3>4 DEF ApplyOne
        <5>2. d \in BOOLEAN /\ t \in BOOLEAN
          OBVIOUS
        <5> HIDE DEF d, t
        <5> QED BY <3>2, <5>1, <5>2
      <4>4. erring' \in [Files -> 0..2]
        <5> DEFINE n == IF ~HasErrors(Head(batch)) THEN 0
                        ELSE IF erring[Head(batch).file] = 0 THEN 1 ELSE 2
        <5>1. erring' = [erring EXCEPT ![Head(batch).file] = n]
          BY <2>13, <3>4 DEF ApplyOne
        <5>2. n \in 0..2
          OBVIOUS
        <5> HIDE DEF n
        <5> QED BY <3>2, <5>1, <5>2
      <4> QED BY <2>13, <3>1, <4>1, <4>2, <4>3, <4>4 DEF ApplyOne
    <3> QED BY <3>3, <3>4
  <2>14. CASE EndApply
    BY <2>14 DEF EndApply
  <2>15. ASSUME NEW f \in Files, WalkReads(f) PROVE TypeOK'
    <3>1. walkTodo' \in [Files -> Nat] /\ delivered' \in [Files -> BOOLEAN]
      BY <2>15 DEF WalkReads, Readable, Present
    <3>2. disk[f].ver \in Versions
      BY DEF Content
    <3>3. walkRead' \in [Files -> SUBSET (1..MaxEdits)]
      BY <2>15, <3>2 DEF WalkReads, Readable, Present, Versions
    <3> QED BY <2>15, <3>1, <3>3 DEF WalkReads
  <2>16. ASSUME NEW f \in Files, WalkAdds(f) PROVE TypeOK'
    <3>1. PICK v \in walkRead[f] :
             /\ graph' = [graph EXCEPT ![f] = @ \cup {v}]
             /\ walkRead' = [walkRead EXCEPT ![f] = @ \ {v}]
             /\ delivered' = [delivered EXCEPT ![f] = @ \/ v = disk[f].ver]
      BY <2>16 DEF WalkAdds
    <3>2. /\ graph' \in [Files -> SUBSET (1..MaxEdits)]
          /\ walkRead' \in [Files -> SUBSET (1..MaxEdits)]
          /\ delivered' \in [Files -> BOOLEAN]
      BY <3>1
    <3>3. tainted' \in [Files -> BOOLEAN]
      BY <2>16 DEF WalkAdds
    <3> QED BY <2>16, <3>2, <3>3 DEF WalkAdds
  <2>17. CASE UNCHANGED vars
    BY <2>17 DEF vars
  <2>18. ASSUME IOError PROVE ioErrors' \in 0..MaxIOErrors
    BY <2>18 DEF IOError
  <2>19. ASSUME NEW w \in Workers, ReadFails(w) PROVE TypeOK'
    <3>1. worker[w].file \in Files /\ worker[w].ino \in Versions /\ 0 \in Versions
      BY <2>19 DEF ReadFails, WorkerState, IdleWorker, Versions
    <3>2. worker' \in [Workers -> WorkerState]
      BY <2>19, <3>1 DEF ReadFails, WorkerState
    <3> QED BY <2>18, <2>19, <3>1, <3>2 DEF ReadFails
  <2>20. CASE WalkLists
    <3>1. walks' \in Nat /\ walkTodo' \in [Files -> Nat]
      BY <2>20 DEF WalkLists
    <3> QED BY <2>20, <3>1 DEF WalkLists
  <2>21. CASE WalkAborts
    <3>1. walks' \in Nat /\ dropped' \in [Files -> BOOLEAN] /\ relies' \in SUBSET Files
      <4>1. walks' \in Nat
        BY <2>21 DEF WalkAborts
      <4>2. CASE walks = 1
        <5>1. dropped' = [f \in Files |-> dropped[f] \/ f \in relies] /\ relies' = {}
          BY <2>21, <4>2 DEF WalkAborts
        <5>2. \A f \in Files : (dropped[f] \/ f \in relies) \in BOOLEAN
          OBVIOUS
        <5> QED BY <4>1, <5>1, <5>2
      <4>3. CASE walks # 1
        <5>1. dropped' = dropped /\ relies' = relies
          BY <2>21, <4>3 DEF WalkAborts
        <5> QED BY <4>1, <5>1
      <4> QED BY <4>2, <4>3
    <3> QED BY <2>18, <2>21, <3>1 DEF WalkAborts
  <2>22. ASSUME NEW f \in Files, WalkReadFails(f) PROVE TypeOK'
    <3>1. walkTodo' \in [Files -> Nat] /\ dropped' \in [Files -> BOOLEAN]
      BY <2>22 DEF WalkReadFails
    <3> QED BY <2>18, <2>22, <3>1 DEF WalkReadFails
  <2> QED BY <2>1, <2>2, <2>3, <2>4, <2>5, <2>6, <2>7, <2>8, <2>9, <2>10, <2>11, <2>12,
             <2>13, <2>14, <2>15, <2>16, <2>17, <2>19, <2>20, <2>21, <2>22
          DEF Next, Environment, Failures, Daemon
<1> QED BY <1>1, <1>2, PTL DEF Spec

-----------------------------------------------------------------------------
\* After the removal of a file that exists again its new content is announced.
RemovalsFollowed ==
    \A i \in DOMAIN events :
        events[i].op = "remove" /\ disk[events[i].file].ver # 0 =>
            \E j \in DOMAIN events : j > i /\ events[j] = [file |-> events[i].file, op |-> "write"]

\* An event that is taken leaves the others in their order.
LEMMA TailKeepsOrder ==
    ASSUME TypeOK, RemovalsFollowed, events # <<>>, events' = Tail(events), disk' = disk
    PROVE  RemovalsFollowed'
<1> USE DEF TypeOK
<1>1. /\ DOMAIN events = 1..Len(events) /\ DOMAIN events' = 1..(Len(events) - 1)
      /\ Len(events) \in Nat /\ Len(events) # 0
  OBVIOUS
<1>2. \A i \in DOMAIN events' : events'[i] = events[i + 1]
  BY <1>1
<1> SUFFICES ASSUME NEW i \in DOMAIN events', events'[i].op = "remove", disk'[events'[i].file].ver # 0
             PROVE  \E j \in DOMAIN events' :
                       j > i /\ events'[j] = [file |-> events'[i].file, op |-> "write"]
  BY DEF RemovalsFollowed
<1>3. i + 1 \in DOMAIN events /\ events'[i] = events[i + 1]
  BY <1>1, <1>2
<1>4. PICK j \in DOMAIN events : j > i + 1 /\ events[j] = [file |-> events[i + 1].file, op |-> "write"]
  BY <1>3 DEF RemovalsFollowed
<1>5. j - 1 \in DOMAIN events' /\ j - 1 > i /\ events'[j - 1] = events[j]
  <2>1. j - 1 \in DOMAIN events' /\ j - 1 > i /\ (j - 1) + 1 = j
    BY <1>1, <1>4
  <2>2. events'[j - 1] = events[(j - 1) + 1]
    BY <1>2, <2>1
  <2> QED BY <2>1, <2>2
<1> QED BY <1>3, <1>4, <1>5

LEMMA RemovalsAreFollowed == Spec => []RemovalsFollowed
<1> USE PipelineAssumption
<1>1. Init => RemovalsFollowed
  BY DEF Init, RemovalsFollowed
<1>2. TypeOK /\ RemovalsFollowed /\ [Next]_vars => RemovalsFollowed'
  <2> SUFFICES ASSUME TypeOK, RemovalsFollowed, [Next]_vars PROVE RemovalsFollowed'
    OBVIOUS
  <2> USE DEF diskVars
  <2>0. events \in Seq(Event) /\ DOMAIN events = 1..Len(events) /\ Len(events) \in Nat
    BY DEF TypeOK
  <2>app. ASSUME NEW e \in Event, events' = Append(events, e)
          PROVE  /\ DOMAIN events' = 1..(Len(events) + 1)
                 /\ \A i \in DOMAIN events : i \in DOMAIN events' /\ events'[i] = events[i]
                 /\ events'[Len(events) + 1] = e
    BY <2>0, <2>app
  <2>1. ASSUME NEW f \in Files, Edit(f) PROVE RemovalsFollowed'
    <3> DEFINE e == [file |-> f, op |-> "write"]
    <3>1. e \in Event /\ events' = Append(events, e)
      BY <2>1 DEF Edit, Event
    <3>2. \A g \in Files : g # f => disk'[g] = disk[g]
      BY <2>1 DEF Edit, TypeOK
    <3> SUFFICES ASSUME NEW i \in DOMAIN events', events'[i].op = "remove", disk'[events'[i].file].ver # 0
                 PROVE  \E j \in DOMAIN events' :
                           j > i /\ events'[j] = [file |-> events'[i].file, op |-> "write"]
      BY DEF RemovalsFollowed
    <3>3. i \in DOMAIN events /\ events'[i] = events[i] /\ events[i].file \in Files
      <4>1. i # Len(events) + 1
        BY <2>app, <3>1
      <4>2. i \in DOMAIN events
        BY <2>0, <2>app, <3>1, <4>1
      <4>3. events[i] \in Event
        BY <2>0, <4>2
      <4> QED BY <2>app, <3>1, <4>2, <4>3 DEF Event
    <3>4. CASE events[i].file = f
      BY <2>0, <2>app, <3>1, <3>3, <3>4
    <3>5. CASE events[i].file # f
      <4>1. PICK j \in DOMAIN events : j > i /\ events[j] = [file |-> events[i].file, op |-> "write"]
        BY <3>2, <3>3, <3>5 DEF RemovalsFollowed
      <4> QED BY <2>app, <3>1, <3>3, <4>1
    <3> QED BY <3>4, <3>5
  <2>2. ASSUME NEW f \in Files, Unlink(f) PROVE RemovalsFollowed'
    <3> DEFINE e == [file |-> f, op |-> "remove"]
    <3>1. e \in Event /\ events' = Append(events, e)
      BY <2>2 DEF Unlink, Event
    <3>2. disk'[f].ver = 0 /\ \A g \in Files : g # f => disk'[g] = disk[g]
      BY <2>2 DEF Unlink, TypeOK, Present, Gone
    <3> SUFFICES ASSUME NEW i \in DOMAIN events', events'[i].op = "remove", disk'[events'[i].file].ver # 0
                 PROVE  \E j \in DOMAIN events' :
                           j > i /\ events'[j] = [file |-> events'[i].file, op |-> "write"]
      BY DEF RemovalsFollowed
    <3>3. i \in DOMAIN events /\ events'[i] = events[i] /\ events[i].file \in Files
      <4>1. i # Len(events) + 1
        BY <2>app, <3>1, <3>2
      <4>2. i \in DOMAIN events
        BY <2>0, <2>app, <3>1, <4>1
      <4>3. events[i] \in Event
        BY <2>0, <4>2
      <4> QED BY <2>app, <3>1, <4>2, <4>3 DEF Event
    <3>4. PICK j \in DOMAIN events : j > i /\ events[j] = [file |-> events[i].file, op |-> "write"]
      BY <3>2, <3>3 DEF RemovalsFollowed
    <3> QED BY <2>app, <3>1, <3>3, <3>4
  <2>3. CASE HandleRemove
    BY <2>3, TailKeepsOrder DEF HandleRemove
  <2>4. CASE HandleWrite
    BY <2>4, TailKeepsOrder DEF HandleWrite
  <2>5. CASE UNCHANGED <<events, disk>>
    BY <2>5 DEF RemovalsFollowed
  <2> QED BY <2>1, <2>2, <2>3, <2>4, <2>5
          DEF Next, Environment, Failures, Daemon, TimerFires, CallbackRuns, SendWork,
              StartRead, FinishRead, ReadFails, SendResult, Collect, EndCollect, BeginApply,
              ApplyOne, EndApply, WalkLists, WalkAborts, WalkReads, WalkReadFails, WalkAdds,
              vars
<1> QED BY <1>1, <1>2, TypeCorrect, PTL DEF Spec

-----------------------------------------------------------------------------
\* One file's part of NoLostUpdate.
Covered(f) == Present(f) /\ ~delivered[f] => WillRead(f) \/ OnItsWay(f) \/ dropped[f]

\* A worker that f's coverage may rest on.
Holds(w, f) ==
    /\ worker[w].file = f
    /\ \/ worker[w].st = "reading" /\ worker[w].ino \in {0, disk[f].ino}
       \/ worker[w].st = "parsed" /\ worker[w].ver = disk[f].ver

\* The daemon's bookkeeping that f's coverage may rest on, workers apart.
Pending(f) ==
    \/ [file |-> f, op |-> "write"] \in Range(events)
    \/ timer[f] = "armed" \/ stray[f] > 0 \/ due[f] > 0 \/ sending[f] > 0
    \/ f \in Range(workCh)
    \/ walks > 0 /\ f \in relies
    \/ walkTodo[f] > 0
    \/ [file |-> f, ver |-> disk[f].ver] \in Range(parseCh) \cup Range(batch)
    \/ disk[f].ver \in walkRead[f]

\* The two readings of coverage are the same.
LEMMA CoverageParts ==
    ASSUME NEW f \in Files
    PROVE  WillRead(f) \/ OnItsWay(f) <=> Pending(f) \/ \E w \in Workers : Holds(w, f)
BY DEF WillRead, OnItsWay, Pending, Holds

\* No change of a file is lost between the disk and the merge goroutine,
\* whatever the number of files, workers, edits and the size of the channels:
\* each step that takes a file out of one stage puts it into the next one, hands its
\* current content over, or is an I/O error on that content.
THEOREM NoUpdateIsLost == Spec => []NoLostUpdate
<1> USE PipelineAssumption
<1> DEFINE Inv == \A f \in Files : Covered(f)
<1>1. Init => Inv
  BY DEF Init, Covered
<1>2. TypeOK /\ RemovalsFollowed /\ Inv /\ [Next]_vars => Inv'
  <2> SUFFICES ASSUME TypeOK, RemovalsFollowed, Inv, [Next]_vars, NEW g \in Files,
                      Present(g)', ~delivered'[g], ~dropped'[g]
               PROVE  Pending(g)' \/ \E w \in Workers : Holds(w, g)'
    BY CoverageParts DEF Covered, WillRead, OnItsWay, Pending, Holds
  <2>0. Present(g) /\ ~delivered[g] /\ ~dropped[g]
           => Pending(g) \/ \E w \in Workers : Holds(w, g)
    BY CoverageParts DEF Covered
  <2> HIDE DEF Inv
  <2> USE DEF TypeOK, timerVars, workerVars, mergeVars, graphVars, walkVars, diskVars,
             lossVars, history
  <2>1. ASSUME NEW f \in Files, Edit(f) PROVE Pending(g)' \/ \E w \in Workers : Holds(w, g)'
    <3>1. [file |-> f, op |-> "write"] \in Event
      BY DEF Event
    <3>2. Range(events') = Range(events) \cup {[file |-> f, op |-> "write"]}
      <4>1. events \in Seq(Event) /\ events' = Append(events, [file |-> f, op |-> "write"])
        BY <2>1 DEF Edit
      <4> HIDE DEF TypeOK
      <4> QED BY <3>1, <4>1, RangeOfAppend
    <3>3. CASE g = f
      BY <3>2, <3>3 DEF Pending
    <3>4. CASE g # f
      <4>1. /\ disk'[g] = disk[g] /\ delivered'[g] = delivered[g]
            /\ dropped'[g] = dropped[g]
        BY <2>1, <3>4 DEF Edit
      <4> QED BY <2>0, <2>1, <3>2, <4>1 DEF Edit, Pending, Holds, Present
    <3> QED BY <3>3, <3>4
  <2>2. ASSUME NEW f \in Files, Unlink(f) PROVE Pending(g)' \/ \E w \in Workers : Holds(w, g)'
    <3>1. [file |-> f, op |-> "remove"] \in Event
      BY DEF Event
    <3>2. Range(events') = Range(events) \cup {[file |-> f, op |-> "remove"]}
      BY <2>2, <3>1, RangeOfAppend DEF Unlink
    <3>3. g # f
      BY <2>2 DEF Unlink, Present, Gone
    <3>4. /\ disk'[g] = disk[g] /\ delivered'[g] = delivered[g]
          /\ dropped'[g] = dropped[g]
      BY <2>2, <3>3 DEF Unlink
    <3> QED BY <2>0, <2>2, <3>2, <3>4 DEF Unlink, Pending, Holds, Present
  <2>3. CASE HandleRemove
    <3> DEFINE f == Head(events).file
    <3>1. Range(events) = {Head(events)} \cup Range(Tail(events)) /\ Head(events) \in Event
      BY <2>3, RangeOfTail DEF HandleRemove
    <3>2. f \in Files /\ events' = Tail(events) /\ disk' = disk
      BY <2>3, <3>1 DEF HandleRemove, Event
    <3>3. Head(events) # [file |-> g, op |-> "write"]
      BY <2>3 DEF HandleRemove
    <3>4. [file |-> g, op |-> "write"] \in Range(events)
             => [file |-> g, op |-> "write"] \in Range(events')
      BY <3>1, <3>2, <3>3
    <3>5. CASE g = f
      <4>1. events \in Seq(Event) /\ events # <<>> /\ Head(events).op = "remove"
        BY <2>3 DEF HandleRemove
      <4>2. 1 \in DOMAIN events /\ events[1] = Head(events)
        BY <4>1
      <4>3. disk[events[1].file].ver # 0
        BY <3>2, <3>5, <4>2 DEF Present
      <4>4. PICK j \in DOMAIN events :
               j > 1 /\ events[j] = [file |-> events[1].file, op |-> "write"]
        BY <4>1, <4>2, <4>3 DEF RemovalsFollowed
      <4>5. [file |-> g, op |-> "write"] \in Range(events)
        BY <3>5, <4>2, <4>4 DEF Range
      <4> QED BY <3>4, <4>5 DEF Pending
    <3>6. CASE g # f
      <4>1. delivered'[g] = delivered[g]
        BY <2>3, <3>2, <3>6 DEF HandleRemove, Forgets
      <4> QED BY <2>0, <2>3, <3>4, <4>1 DEF HandleRemove, Pending, Holds, Present
    <3> QED BY <3>5, <3>6
  <2>4. CASE HandleWrite
    <3> DEFINE f == Head(events).file
    <3>1. Range(events) = {Head(events)} \cup Range(Tail(events)) /\ Head(events) \in Event
      BY <2>4, RangeOfTail DEF HandleWrite
    <3>2. f \in Files
      BY <3>1 DEF Event
    <3>3. [file |-> g, op |-> "write"] \in Range(events)
             => g = f \/ [file |-> g, op |-> "write"] \in Range(events')
      BY <2>4, <3>1 DEF HandleWrite
    <3>4. CASE FullRewalk(f)
      <4>1. walks' > 0 /\ relies' = relies \cup {f} \cup {h \in Files : timer[h] = "armed"}
        BY <3>4 DEF FullRewalk
      <4>2. UNCHANGED <<disk, workerVars, mergeVars, stray, due, sending, walkTodo, walkRead,
                        delivered, dropped>>
        BY <2>4, <3>4 DEF HandleWrite, FullRewalk
      <4> QED BY <2>0, <3>3, <4>1, <4>2 DEF Pending, Holds, Present
    <3>5. CASE Rearm(f) \/ NewTimer(f)
      <4>1. timer' = [timer EXCEPT ![f] = "armed"] /\ UNCHANGED <<stray, due, sending, walks, relies>>
        BY <3>5 DEF Rearm, NewTimer
      <4>2. CASE g = f
        BY <3>2, <4>1, <4>2 DEF Pending
      <4>3. CASE g # f
        BY <2>0, <2>4, <3>3, <4>1, <4>3 DEF HandleWrite, Pending, Holds, Present
      <4> QED BY <4>2, <4>3
    <3> QED BY <2>4, <3>4, <3>5 DEF HandleWrite
  <2>5. ASSUME NEW f \in Files, TimerFires(f) PROVE Pending(g)' \/ \E w \in Workers : Holds(w, g)'
    <3>1. CASE g = f
      BY <2>5, <3>1 DEF TimerFires, Pending
    <3>2. CASE g # f
      <4>1. timer'[g] = timer[g] /\ stray'[g] = stray[g] /\ due'[g] = due[g]
        BY <2>5, <3>2 DEF TimerFires
      <4> QED BY <2>0, <2>5, <4>1 DEF TimerFires, Pending, Holds, Present
    <3> QED BY <3>1, <3>2
  <2>6. ASSUME NEW f \in Files, CallbackRuns(f)
        PROVE  Pending(g)' \/ \E w \in Workers : Holds(w, g)'
    <3>1. CASE g = f
      BY <2>6, <3>1 DEF CallbackRuns, Pending
    <3>2. CASE g # f
      <4>1. /\ timer'[g] = timer[g] /\ stray'[g] = stray[g] /\ due'[g] = due[g]
            /\ sending'[g] = sending[g]
        BY <2>6, <3>2 DEF CallbackRuns
      <4> QED BY <2>0, <2>6, <4>1 DEF CallbackRuns, Pending, Holds, Present
    <3> QED BY <3>1, <3>2
  <2>7. ASSUME NEW f \in Files, SendWork(f) PROVE Pending(g)' \/ \E w \in Workers : Holds(w, g)'
    <3>1. Range(workCh') = Range(workCh) \cup {f}
      BY <2>7, RangeOfAppend DEF SendWork
    <3>2. CASE g = f
      BY <3>1, <3>2 DEF Pending
    <3>3. CASE g # f
      <4>1. sending'[g] = sending[g]
        BY <2>7, <3>3 DEF SendWork
      <4> QED BY <2>0, <2>7, <3>1, <4>1 DEF SendWork, Pending, Holds, Present
    <3> QED BY <3>2, <3>3
  <2>8. ASSUME NEW w \in Workers, StartRead(w)
        PROVE  Pending(g)' \/ \E v \in Workers : Holds(v, g)'
    <3>1. Range(workCh) = {Head(workCh)} \cup Range(Tail(workCh)) /\ Head(workCh) \in Files
      BY <2>8, RangeOfTail DEF StartRead
    <3>2. CASE g = Head(workCh)
      <4>1. /\ worker'[w].st = "reading" /\ worker'[w].file = g
            /\ worker'[w].ino = disk'[g].ino
        BY <2>8, <3>2 DEF StartRead
      <4> QED BY <4>1 DEF Holds
    <3>3. CASE g # Head(workCh)
      <4>1. ASSUME NEW v \in Workers, Holds(v, g) PROVE Holds(v, g)'
        BY <2>8, <4>1 DEF StartRead, Holds
      <4>2. ASSUME Pending(g) PROVE Pending(g)'
        BY <2>8, <3>1, <3>3, <4>2 DEF StartRead, Pending
      <4> QED BY <2>0, <2>8, <4>1, <4>2 DEF StartRead, Present
    <3> QED BY <3>2, <3>3
  <2>9. ASSUME NEW w \in Workers, FinishRead(w)
        PROVE  Pending(g)' \/ \E v \in Workers : Holds(v, g)'
    <3>1. worker[w].file \in Files
      BY <2>9 DEF FinishRead, WorkerState, IdleWorker
    <3>2. Present(g) /\ ~delivered[g] /\ ~dropped[g]
      BY <2>9, <3>1 DEF FinishRead, Present
    <3>3. CASE Pending(g)
      BY <2>9, <3>3 DEF FinishRead, Pending
    <3>4. ASSUME NEW v \in Workers, v # w, Holds(v, g) PROVE Holds(v, g)'
      BY <2>9, <3>4 DEF FinishRead, Holds
    <3>5. CASE Holds(w, g)
      <4>1. worker[w].file = g /\ worker[w].ino \in {0, disk[g].ino}
        BY <2>9, <3>5 DEF FinishRead, Holds
      <4>2. ~ParserFails(w)
        BY <2>9, <3>1, <4>1 DEF FinishRead
      <4>3. ReadResult(w) = disk[g].ver
        BY <3>2, <4>1, <4>2 DEF ReadResult, ParserFails, Present
      <4>4. /\ worker'[w].st = "parsed" /\ worker'[w].file = g
            /\ worker'[w].ver = ReadResult(w) /\ disk' = disk
        BY <2>9, <4>1 DEF FinishRead
      <4> QED BY <4>3, <4>4 DEF Holds
    <3> QED BY <2>0, <3>2, <3>3, <3>4, <3>5
  <2>10. ASSUME NEW w \in Workers, SendResult(w)
         PROVE  Pending(g)' \/ \E v \in Workers : Holds(v, g)'
    <3>1. [file |-> worker[w].file, ver |-> worker[w].ver] \in Result
      BY <2>10 DEF SendResult, WorkerState, IdleWorker, Result
    <3>2. Range(parseCh') = Range(parseCh) \cup {[file |-> worker[w].file, ver |-> worker[w].ver]}
      BY <2>10, <3>1, RangeOfAppend DEF SendResult
    <3>3. CASE Pending(g)
      BY <2>10, <3>2, <3>3 DEF SendResult, Pending
    <3>4. ASSUME NEW v \in Workers, v # w, Holds(v, g) PROVE Holds(v, g)'
      BY <2>10, <3>4 DEF SendResult, Holds
    <3>5. CASE Holds(w, g)
      <4>1. worker[w].file = g /\ worker[w].ver = disk[g].ver
        BY <2>10, <3>5 DEF SendResult, Holds
      <4> QED BY <2>10, <3>2, <4>1 DEF SendResult, Pending
    <3> QED BY <2>0, <2>10, <3>3, <3>4, <3>5 DEF SendResult, Present
  <2>11. CASE Collect
    <3>1. Range(parseCh) = {Head(parseCh)} \cup Range(Tail(parseCh)) /\ Head(parseCh) \in Result
      BY <2>11, RangeOfTail DEF Collect
    <3>2. Range(batch') = Range(batch) \cup {Head(parseCh)}
      BY <2>11, <3>1, RangeOfAppend DEF Collect
    <3>3. Range(parseCh') \cup Range(batch') = Range(parseCh) \cup Range(batch)
      BY <2>11, <3>1, <3>2 DEF Collect
    <3> QED BY <2>0, <2>11, <3>3 DEF Collect, Pending, Holds, Present
  <2>12. CASE EndCollect \/ BeginApply
    BY <2>0, <2>12 DEF EndCollect, BeginApply, Pending, Holds, Present
  <2>13. CASE ApplyOne
    <3>1. Range(batch) = {Head(batch)} \cup Range(Tail(batch)) /\ Head(batch) \in Result
      BY <2>13, RangeOfTail DEF ApplyOne
    <3>2. Head(batch).file \in Files
      BY <3>1 DEF Result
    <3>3. Head(batch) # [file |-> g, ver |-> disk[g].ver]
      <4> SUFFICES ASSUME Head(batch) = [file |-> g, ver |-> disk[g].ver] PROVE FALSE
        OBVIOUS
      <4>1. Head(batch).ver = disk[g].ver /\ Head(batch).file = g /\ disk[g].ver # 0
        BY <2>13 DEF ApplyOne, Present
      <4>2. delivered'[g]
        BY <2>13, <4>1 DEF ApplyOne
      <4> QED BY <4>2
    <3>4. delivered[g] => delivered'[g]
      BY <2>13, <3>2 DEF ApplyOne
    <3>5. [file |-> g, ver |-> disk[g].ver] \in Range(batch)
              => [file |-> g, ver |-> disk[g].ver] \in Range(batch')
      BY <2>13, <3>1, <3>3 DEF ApplyOne
    <3>6. UNCHANGED <<disk, events, timerVars, workerVars, walkVars, lossVars>>
      BY <2>13 DEF ApplyOne
    <3> QED BY <2>0, <3>4, <3>5, <3>6 DEF Pending, Holds, Present
  <2>14. CASE EndApply
    BY <2>0, <2>14 DEF EndApply, Pending, Holds, Present
  <2>15. ASSUME NEW f \in Files, WalkReads(f)
         PROVE  Pending(g)' \/ \E w \in Workers : Holds(w, g)'
    <3>1. CASE g = f
      <4>1. Readable(f)
        BY <2>15, <3>1 DEF WalkReads, Present
      <4>2. disk'[g].ver \in walkRead'[g]
        BY <2>15, <3>1, <4>1 DEF WalkReads
      <4> QED BY <4>2 DEF Pending
    <3>2. CASE g # f
      <4>1. walkTodo'[g] = walkTodo[g] /\ walkRead'[g] = walkRead[g] /\ delivered'[g] = delivered[g]
        BY <2>15, <3>2 DEF WalkReads
      <4> QED BY <2>0, <2>15, <4>1 DEF WalkReads, Pending, Holds, Present
    <3> QED BY <3>1, <3>2
  <2>16. ASSUME NEW f \in Files, WalkAdds(f)
         PROVE  Pending(g)' \/ \E w \in Workers : Holds(w, g)'
    <3>1. PICK v \in walkRead[f] :
             /\ walkRead' = [walkRead EXCEPT ![f] = @ \ {v}]
             /\ delivered' = [delivered EXCEPT ![f] = @ \/ v = disk[f].ver]
      BY <2>16 DEF WalkAdds
    <3>2. delivered[g] => delivered'[g]
      BY <3>1
    <3>3. disk[g].ver \in walkRead[g] => disk[g].ver \in walkRead'[g]
      BY <3>1
    <3>4. UNCHANGED <<diskVars, events, timerVars, workerVars, mergeVars, walks, walkTodo, lossVars>>
      BY <2>16 DEF WalkAdds
    <3> QED BY <2>0, <3>2, <3>3, <3>4 DEF Pending, Holds, Present
  <2>17. CASE UNCHANGED vars
    BY <2>0, <2>17 DEF vars, Pending, Holds, Present
  <2>18. ASSUME NEW w \in Workers, ReadFails(w)
         PROVE  Pending(g)' \/ \E v \in Workers : Holds(v, g)'
    <3>1. worker[w].file \in Files
      BY <2>18 DEF ReadFails, WorkerState, IdleWorker
    <3>2. g # worker[w].file
      BY <2>18, <3>1 DEF ReadFails
    <3>3. UNCHANGED <<disk, events, timerVars, workCh, parseCh, batch, walkVars, relies,
                      delivered>>
      BY <2>18 DEF ReadFails
    <3>4. ~dropped[g]
      BY <2>18, <3>1, <3>2 DEF ReadFails
    <3>5. ASSUME NEW v \in Workers, Holds(v, g) PROVE Holds(v, g)'
      BY <2>18, <3>2, <3>3, <3>5 DEF ReadFails, Holds
    <3> QED BY <2>0, <3>3, <3>4, <3>5 DEF Pending, Present
  <2>19. CASE WalkLists
    <3>1. Present(g) /\ walkTodo[g] \in Nat
      BY <2>19 DEF WalkLists, Present
    <3>2. walkTodo'[g] > 0
      BY <2>19, <3>1 DEF WalkLists
    <3> QED BY <3>2 DEF Pending
  <2>20. CASE WalkAborts
    <3>1. UNCHANGED <<disk, events, timerVars, workerVars, mergeVars, walkTodo, walkRead,
                      delivered>>
      BY <2>20 DEF WalkAborts
    <3>2. ~dropped[g] /\ (g \in relies => walks' > 0 /\ g \in relies')
      <4>1. CASE walks = 1
        <5>1. dropped'[g] = (dropped[g] \/ g \in relies)
          BY <2>20, <4>1 DEF WalkAborts
        <5> QED BY <5>1
      <4>2. CASE walks # 1
        BY <2>20, <4>2 DEF WalkAborts
      <4> QED BY <4>1, <4>2
    <3> QED BY <2>0, <3>1, <3>2 DEF Pending, Holds, Present
  <2>21. ASSUME NEW f \in Files, WalkReadFails(f)
         PROVE  Pending(g)' \/ \E w \in Workers : Holds(w, g)'
    <3>1. g # f
      BY <2>21 DEF WalkReadFails
    <3>2. walkTodo'[g] = walkTodo[g] /\ dropped'[g] = dropped[g]
      BY <2>21, <3>1 DEF WalkReadFails
    <3> QED BY <2>0, <2>21, <3>2 DEF WalkReadFails, Pending, Holds, Present
  <2> QED BY <2>1, <2>2, <2>3, <2>4, <2>5, <2>6, <2>7, <2>8, <2>9, <2>10, <2>11, <2>12,
             <2>13, <2>14, <2>15, <2>16, <2>17, <2>18, <2>19, <2>20, <2>21
          DEF Next, Environment, Failures, Daemon
<1>3. Inv => NoLostUpdate
  BY DEF Covered, NoLostUpdate
<1> QED BY <1>1, <1>2, <1>3, TypeCorrect, RemovalsAreFollowed, PTL DEF Spec

-----------------------------------------------------------------------------
\* The versions of f that results between a worker's read and applyBatch carry.
Vers(f) == {v \in 1..MaxEdits :
    \/ \E w \in Workers : worker[w].st = "parsed" /\ worker[w].file = f /\ worker[w].ver = v
    \/ [file |-> f, ver |-> v] \in Range(parseCh) \cup Range(batch)}

Reads(w, f) == worker[w].file = f /\ worker[w].st = "reading"

\* What holds of a file that is not tainted: at most one worker reads it or one result
\* carries a version of it.  So a version that is delivered is the last one, and what
\* the graph has of an absent file is about to go.  A version with syntax errors is in
\* the graph only as the second in a row, or since the index was built.
Settles(f) ==
    /\ hadErrors[f] <=> erring[f] # 0
    /\ ~tainted[f] =>
        /\ \A u, v \in Vers(f) : u = v
        /\ \A w \in Workers : Reads(w, f) =>
              Vers(f) = {} /\ \A x \in Workers : Reads(x, f) => x = w
        /\ Present(f) /\ delivered[f] =>
              /\ GraphCurrent(f)
              /\ Vers(f) \subseteq {disk[f].ver} \/ Quality[disk[f].ver] = "fails"
        /\ ~Present(f) => \/ [file |-> f, op |-> "remove"] \in Range(events)
                          \/ graph[f] = {} /\ Vers(f) = {}
        /\ \A v \in graph[f] : Quality[v] = "errors" /\ erring[f] # 2 => v = 1

\* A step that leaves a file's graph entry, histories and results alone, starts no read
\* and takes no removal leaves it settled.
LEMMA Undisturbed ==
    ASSUME NEW g \in Files, Settles(g),
           disk'[g] = disk[g], graph'[g] = graph[g], hadErrors'[g] = hadErrors[g],
           erring'[g] = erring[g], delivered'[g] = delivered[g],
           tainted[g] => tainted'[g], Vers(g)' = Vers(g),
           \A w \in Workers : Reads(w, g)' => Reads(w, g),
           [file |-> g, op |-> "remove"] \in Range(events)
              => [file |-> g, op |-> "remove"] \in Range(events')
    PROVE  Settles(g)'
  BY DEF Settles, Present, GraphCurrent

\* A result of a file that is carried has a version among Vers, and the other way round.
LEMMA CarriedVers ==
    ASSUME TypeOK, NEW g \in Files, ~Carried(g)
    PROVE  Vers(g) = {}
  BY DEF Carried, Vers

\* Once nothing is pending for a file that no overlap has tainted and no I/O error has
\* bereft of its content, the graph mirrors it, for any files, workers, capacities and
\* herd threshold: what is not lost is delivered, and what is delivered alone stays.
THEOREM MirroredAtRest == Spec => []MirrorAtRest
<1> USE PipelineAssumption
<1> DEFINE Inv == \A f \in Files : Settles(f)
<1>1. Init => Inv
  <2> SUFFICES ASSUME Init, NEW f \in Files PROVE Settles(f)
    OBVIOUS
  <2>1. Vers(f) = {} /\ \A w \in Workers : ~Reads(w, f)
    BY RangeOfEmpty DEF Init, Vers, Reads, IdleWorker
  <2>2. disk[f].ver \in {0, 1} /\ graph[f] = IF Readable(f) THEN {disk[f].ver} ELSE {}
    BY DEF Init, Gone
  <2>3. hadErrors[f] = FALSE /\ erring[f] = 0
    BY DEF Init
  <2> QED BY <2>1, <2>2, <2>3 DEF Settles, Present, GraphCurrent, Readable
<1>2. TypeOK /\ Inv /\ [Next]_vars => Inv'
  <2> SUFFICES ASSUME TypeOK, Inv, [Next]_vars, NEW g \in Files
               PROVE  Settles(g)'
    OBVIOUS
  <2>0. Settles(g)
    OBVIOUS
  <2> HIDE DEF Inv
  <2> USE DEF TypeOK, timerVars, workerVars, mergeVars, graphVars, walkVars, diskVars,
             lossVars, history
  <2>1. ASSUME NEW f \in Files, Edit(f) PROVE Settles(g)'
    <3>1. Range(events') = Range(events) \cup {[file |-> f, op |-> "write"]}
      <4>1. [file |-> f, op |-> "write"] \in Event
        BY DEF Event
      <4>2. events \in Seq(Event) /\ events' = Append(events, [file |-> f, op |-> "write"])
        BY <2>1 DEF Edit
      <4> HIDE DEF TypeOK
      <4> QED BY <4>1, <4>2, RangeOfAppend
    <3>2. Vers(g)' = Vers(g) /\ \A w \in Workers : Reads(w, g)' <=> Reads(w, g)
      BY <2>1 DEF Edit, Vers, Reads
    <3>3. CASE g = f
      <4>1. Present(g)' /\ ~delivered'[g]
        BY <2>1, <3>3 DEF Edit, Present, Versions
      <4>2. /\ graph' = graph /\ hadErrors' = hadErrors /\ tainted' = tainted
            /\ erring' = erring
        BY <2>1 DEF Edit
      <4> HIDE DEF TypeOK
      <4> QED BY <2>0, <3>2, <4>1, <4>2 DEF Settles
    <3>4. CASE g # f
      <4>1. disk'[g] = disk[g] /\ delivered'[g] = delivered[g]
        BY <2>1, <3>4 DEF Edit
      <4> QED BY <2>0, <2>1, <3>1, <3>2, <4>1, Undisturbed DEF Edit
    <3> QED BY <3>3, <3>4
  <2>2. ASSUME NEW f \in Files, Unlink(f) PROVE Settles(g)'
    <3>1. Range(events') = Range(events) \cup {[file |-> f, op |-> "remove"]}
      <4>1. [file |-> f, op |-> "remove"] \in Event
        BY DEF Event
      <4>2. events \in Seq(Event) /\ events' = Append(events, [file |-> f, op |-> "remove"])
        BY <2>2 DEF Unlink
      <4> HIDE DEF TypeOK
      <4> QED BY <4>1, <4>2, RangeOfAppend
    <3>2. Vers(g)' = Vers(g) /\ \A w \in Workers : Reads(w, g)' <=> Reads(w, g)
      BY <2>2 DEF Unlink, Vers, Reads
    <3>3. CASE g = f
      <4>1. ~Present(g)'
        BY <2>2, <3>3 DEF Unlink, Present, Gone
      <4> QED BY <2>0, <2>2, <3>1, <3>2, <3>3, <4>1 DEF Unlink, Settles
    <3>4. CASE g # f
      <4>1. disk'[g] = disk[g] /\ delivered'[g] = delivered[g]
        BY <2>2, <3>4 DEF Unlink
      <4> QED BY <2>0, <2>2, <3>1, <3>2, <4>1, Undisturbed DEF Unlink
    <3> QED BY <3>3, <3>4
  <2>3. CASE HandleRemove
    <3> DEFINE f == Head(events).file
    <3>1. Range(events) = {Head(events)} \cup Range(Tail(events)) /\ Head(events) \in Event
      BY <2>3, RangeOfTail DEF HandleRemove
    <3>2. f \in Files /\ events' = Tail(events)
      BY <2>3, <3>1 DEF HandleRemove, Event
    <3>3. Vers(g)' = Vers(g) /\ \A w \in Workers : Reads(w, g)' <=> Reads(w, g)
      BY <2>3 DEF HandleRemove, Vers, Reads
    <3>4. CASE g = f
      <4>1. /\ graph'[g] = {} /\ ~hadErrors'[g] /\ erring'[g] = 0 /\ ~delivered'[g]
            /\ tainted'[g] = (Carried(g) \/ (tainted[g] /\ BeingParsed(g)))
        BY <2>3, <3>2, <3>4 DEF HandleRemove, Forgets
      <4>2. ~tainted'[g] => Vers(g)' = {}
        BY <3>3, <4>1, CarriedVers
      <4>3. ~tainted'[g] /\ tainted[g] => \A w \in Workers : ~Reads(w, g)
        BY <4>1 DEF BeingParsed, Reads
      <4> QED BY <2>0, <3>3, <4>1, <4>2, <4>3 DEF Settles
    <3>5. CASE g # f
      <4>1. /\ graph'[g] = graph[g] /\ hadErrors'[g] = hadErrors[g] /\ erring'[g] = erring[g]
            /\ delivered'[g] = delivered[g] /\ tainted'[g] = tainted[g] /\ disk' = disk
        BY <2>3, <3>2, <3>5 DEF HandleRemove, Forgets
      <4>2. Head(events) # [file |-> g, op |-> "remove"]
        BY <3>5
      <4> QED BY <2>0, <3>1, <3>2, <3>3, <4>1, <4>2, Undisturbed
    <3> QED BY <3>4, <3>5
  <2>4. CASE HandleWrite
    <3>1. Range(events) = {Head(events)} \cup Range(Tail(events))
      BY <2>4, RangeOfTail DEF HandleWrite
    <3>2. Head(events) # [file |-> g, op |-> "remove"] /\ events' = Tail(events)
      BY <2>4 DEF HandleWrite
    <3>3. UNCHANGED <<disk, workerVars, mergeVars, graphVars, history>>
      BY <2>4 DEF HandleWrite
    <3>4. Vers(g)' = Vers(g) /\ \A w \in Workers : Reads(w, g)' <=> Reads(w, g)
      BY <3>3 DEF Vers, Reads
    <3> QED BY <2>0, <3>1, <3>2, <3>3, <3>4, Undisturbed
  <2>5. CASE UNCHANGED <<disk, events, worker, parseCh, batch, graphVars, history>>
    <3>1. Vers(g)' = Vers(g) /\ \A w \in Workers : Reads(w, g)' <=> Reads(w, g)
      BY <2>5 DEF Vers, Reads
    <3> QED BY <2>0, <2>5, <3>1, Undisturbed
  <2>6. ASSUME NEW w \in Workers, StartRead(w) PROVE Settles(g)'
    <3> DEFINE f == Head(workCh)
    <3>1. f \in Files
      BY <2>6, RangeOfTail DEF StartRead
    <3>2. /\ worker' = [worker EXCEPT ![w] = [st |-> "reading", file |-> f,
                                              ino |-> disk[f].ino, ver |-> 0]]
          /\ worker[w].st = "idle"
          /\ UNCHANGED <<disk, events, parseCh, mergeVars, graphVars, delivered, erring>>
      BY <2>6 DEF StartRead
    <3>3. Vers(g)' = Vers(g)
      BY <3>2 DEF Vers
    <3>4. CASE g = f
      <4>1. ~tainted'[g] => ~tainted[g] /\ ~Carried(g) /\ ~BeingParsed(g)
        BY <2>6, <3>1, <3>4 DEF StartRead
      <4>2. ~tainted'[g] => /\ Vers(g)' = {}
                            /\ \A x \in Workers : Reads(x, g)' => x = w
        BY <3>2, <3>3, <4>1, CarriedVers DEF BeingParsed, Reads
      <4> QED BY <2>0, <3>2, <3>3, <4>1, <4>2 DEF Settles, Present, GraphCurrent
    <3>5. CASE g # f
      <4>1. tainted'[g] = tainted[g]
        BY <2>6, <3>1, <3>5 DEF StartRead
      <4>2. \A x \in Workers : Reads(x, g)' => Reads(x, g)
        BY <3>2, <3>5 DEF Reads
      <4> QED BY <2>0, <3>2, <3>3, <4>1, <4>2, Undisturbed
    <3> QED BY <3>4, <3>5
  <2>7. ASSUME NEW w \in Workers, FinishRead(w) PROVE Settles(g)'
    <3> DEFINE f == worker[w].file
               v == ReadResult(w)
    <3>1. f \in Files /\ worker[w].st = "reading"
      BY <2>7 DEF FinishRead, WorkerState, IdleWorker
    <3>2. v = 0 \/ v = disk[f].ver
      BY DEF ReadResult
    <3>3. /\ worker' = [worker EXCEPT ![w] = [st |-> "parsed", file |-> f,
                                              ino |-> worker[w].ino, ver |-> v]]
          /\ delivered' = [delivered EXCEPT ![f] = @ \/ ParserFails(w)]
          /\ UNCHANGED <<disk, events, parseCh, mergeVars, graphVars, tainted, erring>>
      BY <2>7 DEF FinishRead
    <3>4. Vers(g)' = IF f = g /\ v \in 1..MaxEdits THEN Vers(g) \cup {v} ELSE Vers(g)
      BY <3>1, <3>3 DEF Vers
    <3>5. \A x \in Workers : Reads(x, g)' => Reads(x, g) /\ x # w
      BY <3>1, <3>3 DEF Reads
    <3>6. CASE g = f
      <4>1. Reads(w, g)
        BY <3>1, <3>6 DEF Reads
      <4>2. ~tainted[g] => Vers(g) = {} /\ \A x \in Workers : ~Reads(x, g)'
        BY <2>0, <3>5, <4>1 DEF Settles
      <4>3. Vers(g)' \subseteq Vers(g) \cup {disk[g].ver} /\ (~Present(g) => Vers(g)' = Vers(g))
        BY <3>2, <3>4, <3>6 DEF Present
      <4>4. delivered'[g] => delivered[g] \/ Quality[disk[g].ver] = "fails"
        BY <3>1, <3>3, <3>6 DEF ParserFails
      <4> QED BY <2>0, <3>3, <4>2, <4>3, <4>4 DEF Settles, Present, GraphCurrent
    <3>7. CASE g # f
      <4>1. delivered'[g] = delivered[g]
        BY <3>3, <3>7
      <4> QED BY <2>0, <3>3, <3>4, <3>5, <3>7, <4>1, Undisturbed
    <3> QED BY <3>6, <3>7
  <2>8. ASSUME NEW w \in Workers, ReadFails(w) PROVE Settles(g)'
    <3>1. /\ worker[w].st = "reading"
          /\ worker' = [worker EXCEPT ![w] = [st |-> "parsed", file |-> worker[w].file,
                                              ino |-> worker[w].ino, ver |-> 0]]
          /\ UNCHANGED <<disk, events, parseCh, mergeVars, graphVars, history>>
      BY <2>8 DEF ReadFails
    <3>2. Vers(g)' = Vers(g) /\ \A x \in Workers : Reads(x, g)' => Reads(x, g)
      BY <3>1 DEF Vers, Reads
    <3> QED BY <2>0, <3>1, <3>2, Undisturbed
  <2>9. ASSUME NEW w \in Workers, SendResult(w) PROVE Settles(g)'
    <3> DEFINE r == [file |-> worker[w].file, ver |-> worker[w].ver]
    <3>1. r \in Result
      BY <2>9 DEF SendResult, WorkerState, IdleWorker, Result
    <3>2. Range(parseCh') = Range(parseCh) \cup {r}
      BY <2>9, <3>1, RangeOfAppend DEF SendResult
    <3>3. /\ worker[w].st = "parsed" /\ worker' = [worker EXCEPT ![w] = IdleWorker]
          /\ UNCHANGED <<disk, events, mergeVars, graphVars, history>>
      BY <2>9 DEF SendResult
    <3>4. Vers(g)' = Vers(g)
      <4>1. ASSUME NEW v \in Vers(g) PROVE v \in Vers(g)'
        BY <3>2, <3>3 DEF Vers
      <4>2. ASSUME NEW v \in Vers(g)' PROVE v \in Vers(g)
        <5>1. v \in 1..MaxEdits
          BY DEF Vers
        <5>2. CASE [file |-> g, ver |-> v] = r
          BY <3>3, <5>1, <5>2 DEF Vers
        <5>3. CASE [file |-> g, ver |-> v] \in Range(parseCh) \cup Range(batch)
          BY <5>1, <5>3 DEF Vers
        <5>4. CASE \E x \in Workers :
                     worker'[x].st = "parsed" /\ worker'[x].file = g /\ worker'[x].ver = v
          BY <3>3, <5>1, <5>4 DEF Vers, IdleWorker
        <5> QED BY <3>2, <3>3, <5>2, <5>3, <5>4 DEF Vers
      <4> QED BY <4>1, <4>2
    <3>5. \A x \in Workers : Reads(x, g)' => Reads(x, g)
      BY <3>3 DEF Reads, IdleWorker
    <3> QED BY <2>0, <3>3, <3>4, <3>5, Undisturbed
  <2>10. CASE Collect
    <3>1. Range(parseCh) = {Head(parseCh)} \cup Range(Tail(parseCh)) /\ Head(parseCh) \in Result
      BY <2>10, RangeOfTail DEF Collect
    <3>2. Range(batch') = Range(batch) \cup {Head(parseCh)}
      BY <2>10, <3>1, RangeOfAppend DEF Collect
    <3>3. Range(parseCh') \cup Range(batch') = Range(parseCh) \cup Range(batch)
      BY <2>10, <3>1, <3>2 DEF Collect
    <3>4. UNCHANGED <<disk, events, worker, graphVars, history>>
      BY <2>10 DEF Collect
    <3>5. Vers(g)' = Vers(g) /\ \A x \in Workers : Reads(x, g)' => Reads(x, g)
      BY <3>3, <3>4 DEF Vers, Reads
    <3> QED BY <2>0, <3>4, <3>5, Undisturbed
  <2>11. CASE ApplyOne
    <3> DEFINE r == Head(batch)
               f == r.file
    <3>1. Range(batch) = {r} \cup Range(Tail(batch)) /\ r \in Result
      BY <2>11, RangeOfTail DEF ApplyOne
    <3>2. f \in Files /\ r.ver \in Versions /\ batch' = Tail(batch)
      BY <2>11, <3>1 DEF ApplyOne, Result
    <3>3. UNCHANGED <<disk, events, worker, parseCh>>
      BY <2>11 DEF ApplyOne
    <3>4. Vers(g)' \subseteq Vers(g) /\ \A w \in Workers : Reads(w, g)' <=> Reads(w, g)
      BY <3>1, <3>2, <3>3 DEF Vers, Reads
    <3>5. CASE f # g \/ r.ver = 0
      <4>1. /\ graph'[g] = graph[g] /\ hadErrors'[g] = hadErrors[g] /\ tainted'[g] = tainted[g]
            /\ erring'[g] = erring[g] /\ delivered'[g] = delivered[g]
        <5>1. CASE r.ver = 0
          BY <2>11, <5>1 DEF ApplyOne
        <5>2. CASE r.ver # 0
          BY <2>11, <3>2, <3>5, <5>2 DEF ApplyOne
        <5> QED BY <5>1, <5>2
      <4>2. \A v \in 1..MaxEdits : r # [file |-> g, ver |-> v]
        BY <3>5
      <4>3. Vers(g)' = Vers(g)
        BY <3>1, <3>2, <3>3, <4>2 DEF Vers
      <4> QED BY <2>0, <3>3, <3>4, <4>1, <4>3, Undisturbed
    <3>6. CASE f = g /\ r.ver # 0
      <4>1. /\ hadErrors'[g] = (Quality[r.ver] = "errors")
            /\ graph'[g] = (IF Skipped(r) THEN graph[g] ELSE {r.ver})
            /\ delivered'[g] = (delivered[g] \/ r.ver = disk[g].ver)
            /\ tainted'[g] = (tainted[g] /\ (Skipped(r) \/ ~Alone(g) \/ r.ver # disk[g].ver))
            /\ erring'[g] = (IF Quality[r.ver] # "errors" THEN 0
                             ELSE IF erring[g] = 0 THEN 1 ELSE 2)
        BY <2>11, <3>2, <3>6 DEF ApplyOne, FlagAfter, HasErrors
      <4>2. Skipped(r) <=> Quality[r.ver] = "errors" /\ erring[g] = 0
        BY <2>0, <3>6 DEF Skipped, HasErrors, Settles
      <4>3. r.ver \in Vers(g)
        <5>1. r = [file |-> g, ver |-> r.ver]
          BY <3>1, <3>6 DEF Result
        <5>2. r.ver \in 1..MaxEdits
          BY <3>2, <3>6 DEF Versions
        <5> QED BY <3>1, <5>1, <5>2 DEF Vers
      <4>4. Alone(g) => Vers(g)' = {} /\ \A w \in Workers : ~Reads(w, g)
        <5> SUFFICES ASSUME Alone(g)
                     PROVE  Vers(g)' = {} /\ \A w \in Workers : ~Reads(w, g)
          OBVIOUS
        <5>1. \A w \in Workers : worker[w].file # g
          BY DEF Alone, BeingParsed
        <5>2. \A v : [file |-> g, ver |-> v] \notin Range(parseCh') \cup Range(batch')
          <6> SUFFICES ASSUME NEW v,
                              [file |-> g, ver |-> v] \in Range(parseCh) \cup Range(Tail(batch))
                       PROVE  FALSE
            BY <3>2, <3>3
          <6>1. [file |-> g, ver |-> v].file # g
            BY DEF Alone
          <6> QED BY <6>1
        <5> QED BY <3>3, <5>1, <5>2 DEF Vers, Reads
      <4>5. hadErrors'[g] <=> erring'[g] # 0
        <5> HIDE DEF TypeOK
        <5>1. CASE Quality[r.ver] = "errors"
          <6>1. hadErrors'[g] /\ erring'[g] \in {1, 2}
            BY <4>1, <5>1
          <6> QED BY <6>1
        <5>2. CASE Quality[r.ver] # "errors"
          <6>1. hadErrors'[g] = FALSE /\ erring'[g] = 0
            BY <4>1, <5>2
          <6> QED BY <6>1
        <5> QED BY <5>1, <5>2
      <4>6. CASE tainted'[g]
        BY <4>5, <4>6 DEF Settles
      <4>7. CASE ~tainted'[g]
        <5>1. Vers(g)' \subseteq {r.ver} /\ \A w \in Workers : ~Reads(w, g)'
          BY <2>0, <3>4, <4>1, <4>3, <4>4, <4>7 DEF Settles
        <5>2. ASSUME ~Present(g) PROVE [file |-> g, op |-> "remove"] \in Range(events')
          <6>1. ~tainted[g]
            BY <3>6, <4>1, <4>7, <5>2 DEF Present
          <6> QED BY <2>0, <3>3, <4>3, <5>2, <6>1 DEF Settles
        <5>3. ASSUME NEW v \in graph'[g], Quality[v] = "errors", erring'[g] # 2 PROVE v = 1
          <6>1. Skipped(r)
            BY <4>1, <4>2, <5>3
          <6> QED BY <2>0, <4>1, <4>2, <4>7, <5>3, <6>1 DEF Settles
        <5>4. ASSUME Present(g), delivered'[g]
              PROVE  GraphCurrent(g)' /\ (Vers(g)' \subseteq {disk[g].ver} \/ Quality[disk[g].ver] = "fails")
          <6>1. CASE r.ver = disk[g].ver
            <7>1. Quality[r.ver] = "clean" => graph'[g] = {r.ver}
              <8>1. Quality[r.ver] = "clean" => ~Skipped(r)
                BY <4>2
              <8> QED BY <4>1, <8>1
            <7>2. Quality[r.ver] = "errors" /\ erring'[g] = 1 => graph'[g] # {r.ver} \/ r.ver = 1
              <8> HIDE DEF TypeOK
              <8> SUFFICES ASSUME Quality[r.ver] = "errors", erring'[g] = 1, graph'[g] = {r.ver}
                           PROVE  r.ver = 1
                OBVIOUS
              <8>1. r.ver \in graph'[g] /\ erring'[g] # 2
                OBVIOUS
              <8> QED BY <5>3, <8>1
            <7>3. Quality[r.ver] = "errors" /\ erring'[g] # 1 => graph'[g] = {r.ver}
              BY <4>1, <4>2
            <7> QED BY <3>3, <5>1, <5>4, <6>1, <7>1, <7>2, <7>3 DEF GraphCurrent, Present
          <6>2. CASE r.ver # disk[g].ver
            <7>1. ~tainted[g] /\ delivered[g]
              BY <4>1, <4>7, <5>4, <6>2
            <7>2. Quality[disk[g].ver] = "fails"
              BY <2>0, <4>3, <5>4, <6>2, <7>1 DEF Settles
            <7> QED BY <3>3, <5>4, <7>2 DEF GraphCurrent, Present
          <6> QED BY <6>1, <6>2
        <5>5. Present(g)' = Present(g)
          BY <3>3 DEF Present
        <5> QED BY <3>3, <4>5, <5>1, <5>2, <5>3, <5>4, <5>5 DEF Settles
      <4> QED BY <4>6, <4>7
    <3> QED BY <3>5, <3>6
  <2>12. ASSUME NEW f \in Files, WalkReads(f) PROVE Settles(g)'
    <3>1. UNCHANGED <<disk, events, worker, parseCh, batch, graphVars, tainted, erring>>
      BY <2>12 DEF WalkReads
    <3>2. Vers(g)' = Vers(g) /\ \A w \in Workers : Reads(w, g)' <=> Reads(w, g)
      BY <3>1 DEF Vers, Reads
    <3>3. delivered'[g] => delivered[g] \/ (Present(g) /\ Quality[disk[g].ver] = "fails")
      BY <2>12 DEF WalkReads, Readable
    <3> QED BY <2>0, <3>1, <3>2, <3>3 DEF Settles, Present, GraphCurrent
  <2>13. ASSUME NEW f \in Files, WalkAdds(f) PROVE Settles(g)'
    <3>1. UNCHANGED <<disk, events, worker, parseCh, batch, hadErrors, erring>>
      BY <2>13 DEF WalkAdds
    <3>2. CASE g = f
      <4>1. tainted'[g]
        BY <2>13, <3>2 DEF WalkAdds
      <4> QED BY <2>0, <3>1, <4>1 DEF Settles
    <3>3. CASE g # f
      <4>1. graph'[g] = graph[g] /\ tainted'[g] = tainted[g] /\ delivered'[g] = delivered[g]
        BY <2>13, <3>3 DEF WalkAdds
      <4>2. Vers(g)' = Vers(g) /\ \A w \in Workers : Reads(w, g)' <=> Reads(w, g)
        BY <3>1 DEF Vers, Reads
      <4> QED BY <2>0, <3>1, <4>1, <4>2, Undisturbed
    <3> QED BY <3>2, <3>3
  <2>14. ASSUME NEW f \in Files,
                TimerFires(f) \/ CallbackRuns(f) \/ SendWork(f) \/ WalkReadFails(f)
         PROVE  Settles(g)'
    BY <2>5, <2>14 DEF TimerFires, CallbackRuns, SendWork, WalkReadFails
  <2>15. CASE \/ EndCollect \/ BeginApply \/ EndApply \/ WalkLists \/ WalkAborts
              \/ UNCHANGED vars
    BY <2>5, <2>15 DEF EndCollect, BeginApply, EndApply, WalkLists, WalkAborts, vars
  <2> QED BY <2>1, <2>2, <2>3, <2>4, <2>6, <2>7, <2>8, <2>9, <2>10, <2>11, <2>12, <2>13,
             <2>14, <2>15 DEF Next, Environment, Failures, Daemon
<1>3. TypeOK /\ Inv /\ NoLostUpdate => MirrorAtRest
  <2> SUFFICES ASSUME TypeOK, Inv, NoLostUpdate, NEW f \in Files, Quiet(f), ~tainted[f],
                      ~Lost(f)
               PROVE  GraphCurrent(f)
    BY DEF MirrorAtRest
  <2>1. Settles(f)
    OBVIOUS
  <2>2. ~WillRead(f) /\ (Present(f) => ~OnItsWay(f))
    BY DEF TypeOK, Quiet, BeingParsed, WillRead, OnItsWay, Present
  <2>3. Present(f) => delivered[f]
    BY <2>2 DEF NoLostUpdate, Lost
  <2>4. [file |-> f, op |-> "remove"] \notin Range(events)
    BY DEF Quiet
  <2> QED BY <2>1, <2>3, <2>4 DEF Settles, Present, GraphCurrent
<1> QED BY <1>1, <1>2, <1>3, TypeCorrect, NoUpdateIsLost, PTL DEF Spec
=============================================================================
