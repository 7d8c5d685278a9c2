--------------------------- MODULE AgentTasksProofs ---------------------------
(***************************************************************************)
(* For any agents, tasks and plans, and any number of calls: a finished    *)
(* plan is completed once and only then, no update leaves it unnoticed,    *)
(* and listings take no task away.                                         *)
(***************************************************************************)
EXTENDS AgentTasks, TLAPS

\* The kinds of call an agent can be in, and what is known of each.
LEMMA CallKinds ==
  ASSUME TypeOK, NEW a \in Agents
  PROVE  /\ call[a] \in Calls
         /\ call[a].op = "list" => call[a].claims \subseteq Tasks /\ call[a].free \subseteq Tasks
         /\ call[a].op \in {"candidates", "others", "plan"} => call[a].task \in Tasks
         /\ call[a].op = "others" => call[a].check \subseteq Tasks
         /\ call[a].op \in {"others", "plan", "reply"} => call[a].found \subseteq Tasks
         /\ call[a].op \in {"idle", "list", "candidates", "others", "plan", "reply"}
         /\ call[a] = Idle => call[a].op = "idle"
<1>1. call[a] \in Calls
  BY DEF TypeOK
<1> QED BY <1>1 DEF Calls, Idle

\* What a call owes are tasks.
LEMMA OwesTasks ==
  ASSUME TypeOK, NEW a \in Agents
  PROVE  Owes(call[a]) \subseteq Tasks
BY CallKinds DEF Owes

\* What calls that end early lose are tasks and plans.
LEMMA LossTypes ==
  ASSUME TypeOK, NEW A \in SUBSET Agents, GiveUp(A)
  PROVE  /\ lost' \subseteq Tasks /\ cut' \subseteq Plans
         /\ UNCHANGED <<status, deps, assigned, completed, started, notices, heard>>
<1>1. UNION {Owes(call[a]) : a \in A} \subseteq Tasks
  BY OwesTasks
<1>2. \A a \in A : call[a].op \in {"candidates", "others", "plan"}
                    => PlanOf[call[a].task] \in Plans
  BY CallKinds, TasksAssumption
<1> QED BY <1>1, <1>2 DEF GiveUp, TypeOK, rows

\* Every reachable state has the declared types.
THEOREM TypeCorrect == Spec => []TypeOK
<1> USE TasksAssumption DEF rows, history
<1>1. Init => TypeOK
  <2> SUFFICES ASSUME Init PROVE TypeOK
    OBVIOUS
  <2>1. Idle \in Calls
    BY DEF Idle, Calls
  <2>2. call \in [Agents -> Calls]
    BY <2>1 DEF Init
  <2>3. completed \in [Plans -> BOOLEAN]
    BY Zenon DEF Init
  <2> QED BY <2>2, <2>3 DEF Init, TypeOK
<1>2. TypeOK /\ [Next]_vars => TypeOK'
  <2> SUFFICES ASSUME TypeOK, [Next]_vars PROVE TypeOK'
    OBVIOUS
  <2>idle. Idle \in Calls
    BY DEF Idle, Calls
  <2>call. ASSUME NEW a \in Agents, NEW c \in Calls
           PROVE  [call EXCEPT ![a] = c] \in [Agents -> Calls]
    BY <2>call DEF TypeOK
  <2>1. ASSUME NEW p \in Plans, CreatePlan(p) PROVE TypeOK'
    <3> DEFINE new == TasksOf(p)
               known == {t \in Tasks : status[t] # "absent"}
    <3>1. PICK D \in [new -> SUBSET (known \cup {Unknown})] :
             /\ deps' = [t \in Tasks |-> IF t \in new THEN D[t] ELSE deps[t]]
             /\ heard' = heard \cup
                   {t \in new : \A d \in D[t] \ {Unknown} : status[d] = "done"}
      BY <2>1 DEF CreatePlan
    <3>2. \A t \in new : D[t] \in SUBSET (Tasks \cup {Unknown})
      OBVIOUS
    <3>3. deps' \in [Tasks -> SUBSET (Tasks \cup {Unknown})]
      BY <3>1, <3>2 DEF TypeOK
    <3>4. heard' \subseteq Tasks
      BY <3>1 DEF TypeOK, TasksOf
    <3>5. status' \in [Tasks -> {"absent"} \cup Open \cup Terminal]
      BY <2>1 DEF CreatePlan, TypeOK, Open
    <3> QED BY <2>1, <3>3, <3>4, <3>5 DEF CreatePlan, TypeOK
  <2>2. ASSUME NEW a \in Agents, List(a) PROVE TypeOK'
    <3> DEFINE free == {t \in Tasks : status[t] \in Open /\ assigned[t] = None}
    <3>1. call' = [call EXCEPT ![a] = [op |-> "list", free |-> free, claims |-> free]]
      BY <2>2 DEF List
    <3>2. [op |-> "list", free |-> free, claims |-> free] \in Calls
      BY DEF Calls
    <3>3. call' \in [Agents -> Calls]
      BY <3>1, <3>2, <2>call
    <3>4. started' \in 0..MaxCalls
      BY <2>2 DEF List, TypeOK
    <3> QED BY <2>2, <3>3, <3>4 DEF List, TypeOK
  <2>3. ASSUME NEW a \in Agents, NEW t \in Tasks, Claim(a, t) PROVE TypeOK'
    <3>1. call[a] \in [op: {"list"}, free: SUBSET Tasks, claims: SUBSET Tasks]
      BY <2>3, CallKinds DEF Claim, Calls, Idle
    <3>2. [call[a] EXCEPT !.claims = @ \ {t}]
             \in [op: {"list"}, free: SUBSET Tasks, claims: SUBSET Tasks]
      BY <3>1
    <3>3. [call[a] EXCEPT !.claims = @ \ {t}] \in Calls
      BY <3>2 DEF Calls
    <3>4. call' = [call EXCEPT ![a] = [call[a] EXCEPT !.claims = @ \ {t}]]
      BY <2>3 DEF Claim, TypeOK
    <3>5. call' \in [Agents -> Calls]
      BY <3>3, <3>4, <2>call
    <3>6. assigned' \in [Tasks -> Agents \cup {None}]
      BY <2>3 DEF Claim, TypeOK
    <3> QED BY <2>3, <3>5, <3>6 DEF Claim, TypeOK
  <2>4. ASSUME NEW a \in Agents, ListReplies(a) PROVE TypeOK'
    BY <2>4, <2>idle, <2>call DEF ListReplies, TypeOK
  <2>5. ASSUME NEW a \in Agents, NEW t \in Tasks, NEW s \in Open \cup Terminal,
               UpdateStatus(a, t, s)
        PROVE  TypeOK'
    <3>1. FollowUp(t, s) \in Calls
      BY <2>idle DEF FollowUp, Calls, Open, Terminal
    <3>2. call' \in [Agents -> Calls]
      BY <2>5, <3>1, <2>call DEF UpdateStatus
    <3>3. heard' \subseteq Tasks /\ lost' \subseteq Tasks
      BY <2>5 DEF UpdateStatus, TypeOK
    <3>4. started' \in 0..MaxCalls
      BY <2>5 DEF UpdateStatus, TypeOK
    <3>5. /\ status' \in [Tasks -> {"absent"} \cup Open \cup Terminal]
          /\ assigned' \in [Tasks -> Agents \cup {None}]
      BY <2>5 DEF UpdateStatus, TypeOK
    <3> QED BY <2>5, <3>2, <3>3, <3>4, <3>5 DEF UpdateStatus, TypeOK
  <2>6. ASSUME NEW a \in Agents, Candidates(a) PROVE TypeOK'
    <3> DEFINE c == [op |-> "others", task |-> call[a].task, found |-> {},
                     check |-> {u \in Tasks : status[u] \in Open /\ call[a].task \in deps[u]}]
    <3>1. c \in Calls
      BY <2>6, CallKinds DEF Candidates, Calls
    <3>2. call' = [call EXCEPT ![a] = c]
      BY <2>6 DEF Candidates
    <3>3. call' \in [Agents -> Calls]
      BY <3>1, <3>2, <2>call
    <3> QED BY <2>6, <3>3 DEF Candidates, TypeOK
  <2>7. ASSUME NEW a \in Agents, NEW u \in Tasks, OtherDeps(a, u) PROVE TypeOK'
    <3>1. PICK F \in SUBSET {u} :
            call' = [call EXCEPT ![a] = [call[a] EXCEPT !.check = @ \ {u}, !.found = @ \cup F]]
      BY <2>7 DEF OtherDeps, TypeOK
    <3>2. call[a] \in [op: {"others"}, task: Tasks, check: SUBSET Tasks, found: SUBSET Tasks]
      BY <2>7, CallKinds DEF OtherDeps, Calls, Idle
    <3>3. [call[a] EXCEPT !.check = @ \ {u}, !.found = @ \cup F]
             \in [op: {"others"}, task: Tasks, check: SUBSET Tasks, found: SUBSET Tasks]
      BY <3>2
    <3>4. [call[a] EXCEPT !.check = @ \ {u}, !.found = @ \cup F] \in Calls
      BY <3>3 DEF Calls
    <3>5. call' \in [Agents -> Calls]
      BY <3>1, <3>4, <2>call
    <3> QED BY <2>7, <3>5 DEF OtherDeps, TypeOK
  <2>8. ASSUME NEW a \in Agents, OthersDone(a) PROVE TypeOK'
    <3>1. [op |-> "plan", task |-> call[a].task, found |-> call[a].found] \in Calls
      BY <2>8, CallKinds DEF OthersDone, Calls
    <3>2. call' \in [Agents -> Calls]
      BY <2>8, <3>1, <2>call DEF OthersDone
    <3> QED BY <2>8, <3>2 DEF OthersDone, TypeOK
  <2>reply. ASSUME NEW a \in Agents, call[a].op = "plan", ReplyWith(a)
            PROVE  call' \in [Agents -> Calls]
    <3>1. [op |-> "reply", found |-> call[a].found] \in Calls
      BY <2>reply, CallKinds DEF Calls
    <3> QED BY <2>reply, <3>1, <2>call DEF ReplyWith
  <2>9. ASSUME NEW a \in Agents, CheckPlan(a) PROVE TypeOK'
    <3>1. PlanOf[call[a].task] \in Plans
      BY <2>9, CallKinds DEF CheckPlan
    <3>2. completed' \in [Plans -> BOOLEAN]
      BY <2>9, <3>1 DEF CheckPlan, TypeOK
    <3>3. notices' \in [Plans -> Nat]
      BY <2>9, <3>1 DEF CheckPlan, TypeOK
    <3>4. call' \in [Agents -> Calls]
      BY <2>9, <2>reply DEF CheckPlan
    <3>5. cut' \subseteq Plans
      BY <2>9 DEF CheckPlan, TypeOK
    <3> QED BY <2>9, <3>2, <3>3, <3>4, <3>5 DEF CheckPlan, TypeOK
  <2>10. CASE Crash
    <3>1. call' \in [Agents -> Calls]
      BY <2>10, <2>idle DEF Crash
    <3>2. GiveUp(Agents)
      BY <2>10 DEF Crash
    <3> QED BY <3>1, <3>2, LossTypes DEF TypeOK
  <2>12. ASSUME NEW a \in Agents, UnblockedFails(a) \/ CheckFails(a) PROVE TypeOK'
    <3>1. call' \in [Agents -> Calls] /\ GiveUp({a})
      BY <2>12, <2>idle, <2>call DEF UnblockedFails, CheckFails
    <3> QED BY <3>1, LossTypes DEF TypeOK
  <2>13. ASSUME NEW a \in Agents, CheckSkipped(a) PROVE TypeOK'
    <3>1. PlanOf[call[a].task] \in Plans
      BY <2>13, CallKinds DEF CheckSkipped
    <3>2. call' \in [Agents -> Calls]
      BY <2>13, <2>reply DEF CheckSkipped
    <3> QED BY <2>13, <3>1, <3>2 DEF CheckSkipped, TypeOK
  <2>14. ASSUME NEW a \in Agents, Reply(a) PROVE TypeOK'
    <3>1. call' \in [Agents -> Calls]
      BY <2>14, <2>idle, <2>call DEF Reply
    <3>2. heard' \subseteq Tasks
      BY <2>14, CallKinds DEF Reply, TypeOK
    <3> QED BY <2>14, <3>1, <3>2 DEF Reply, TypeOK
  <2>11. CASE UNCHANGED vars
    BY <2>11 DEF vars, TypeOK
  <2> QED BY <2>1, <2>2, <2>3, <2>4, <2>5, <2>6, <2>7, <2>8, <2>9, <2>10, <2>11, <2>12, <2>13,
             <2>14 DEF Next
<1> QED BY <1>1, <1>2, PTL DEF Spec

\* An update that has its plan check still to come.
Updating(a) == call[a].op \in {"candidates", "others", "plan"}

\* Two agents that end the last tasks of a plan at once cannot both leave its
\* completion to the other one: each checks the plan after its own UPDATE
\* (UpdateTask's call of checkAndCompletePlan).  A check that an error or a crash
\* took away is made good by the next one of the same plan.
THEOREM PlansComplete == Spec => []PlanCompletes
<1> USE TasksAssumption DEF rows, history
<1>1. Init => PlanCompletes
  BY DEF Init, PlanCompletes, PlanTerminal, Terminal, TasksOf
<1>2. TypeOK /\ PlanCompletes /\ [Next]_vars => PlanCompletes'
  <2> SUFFICES ASSUME TypeOK, PlanCompletes, [Next]_vars,
                      NEW p \in Plans, TasksOf(p) # {}, PlanTerminal(p)'
               PROVE  completed'[p] \/ p \in cut' \/ CheckToCome(p)'
    BY DEF PlanCompletes, TasksOf
  <2>old. ASSUME PlanTerminal(p) PROVE completed[p] \/ p \in cut \/ CheckToCome(p)
    BY <2>old DEF PlanCompletes
  \* A step of one agent that is no CheckPlan keeps the plan it works for.
  <2>keep. ASSUME NEW a \in Agents, NEW c, call' = [call EXCEPT ![a] = c],
                  PlanTerminal(p), UNCHANGED <<completed, cut>>,
                  Updating(a) => c.op \in {"candidates", "others", "plan"} /\ c.task = call[a].task
           PROVE  completed'[p] \/ p \in cut' \/ CheckToCome(p)'
    <3>1. CASE CheckToCome(p)
      <4>1. PICK b \in Agents : Updating(b) /\ PlanOf[call[b].task] = p
        BY <3>1 DEF CheckToCome, Updating
      <4>2. call'[b] = IF b = a THEN c ELSE call[b]
        BY <2>keep DEF TypeOK
      <4>3. Updating(b)' /\ call'[b].task = call[b].task
        BY <2>keep, <4>1, <4>2 DEF Updating
      <4> QED BY <4>1, <4>3 DEF CheckToCome, Updating
    <3> QED BY <2>keep, <2>old, <3>1
  <2>1. ASSUME NEW q \in Plans, CreatePlan(q) PROVE completed'[p] \/ p \in cut' \/ CheckToCome(p)'
    <3>1. CASE q = p
      <4>1. PICK t \in TasksOf(p) : TRUE
        OBVIOUS
      <4>2. status'[t] = "pending"
        BY <2>1, <3>1, <4>1 DEF CreatePlan, TasksOf
      <4> QED BY <4>1, <4>2 DEF PlanTerminal, Terminal
    <3>2. CASE q # p
      <4>1. \A t \in TasksOf(p) : status'[t] = status[t]
        BY <2>1, <3>2 DEF CreatePlan, TasksOf
      <4>2. PlanTerminal(p)
        BY <4>1 DEF PlanTerminal, TasksOf
      <4> QED BY <2>1, <2>old, <4>2 DEF CreatePlan, CheckToCome, Updating
    <3> QED BY <3>1, <3>2
  <2>2. ASSUME NEW a \in Agents, List(a) PROVE completed'[p] \/ p \in cut' \/ CheckToCome(p)'
    <3>1. ~Updating(a)
      BY <2>2, CallKinds DEF List, Updating
    <3>2. PlanTerminal(p)
      BY <2>2 DEF List, PlanTerminal, TasksOf
    <3> QED BY <2>2, <2>keep, <3>1, <3>2 DEF List
  <2>3. ASSUME NEW a \in Agents, NEW t \in Tasks, Claim(a, t)
        PROVE  completed'[p] \/ p \in cut' \/ CheckToCome(p)'
    <3>1. ~Updating(a)
      BY <2>3 DEF Claim, Updating
    <3>2. PlanTerminal(p)
      BY <2>3 DEF Claim, PlanTerminal, TasksOf
    <3>3. call' = [call EXCEPT ![a] = [call[a] EXCEPT !.claims = @ \ {t}]]
      BY <2>3 DEF Claim, TypeOK
    <3> QED BY <2>3, <2>keep, <3>1, <3>2, <3>3 DEF Claim
  <2>4. ASSUME NEW a \in Agents, ListReplies(a)
        PROVE  completed'[p] \/ p \in cut' \/ CheckToCome(p)'
    <3>1. ~Updating(a)
      BY <2>4 DEF ListReplies, Updating
    <3>2. PlanTerminal(p)
      BY <2>4 DEF ListReplies, PlanTerminal, TasksOf
    <3> QED BY <2>4, <2>keep, <3>1, <3>2 DEF ListReplies
  <2>5. ASSUME NEW a \in Agents, NEW t \in Tasks, NEW s \in Open \cup Terminal,
               UpdateStatus(a, t, s)
        PROVE  completed'[p] \/ p \in cut' \/ CheckToCome(p)'
    <3>1. ~Updating(a)
      BY <2>5, CallKinds DEF UpdateStatus, Updating
    <3>2. status' = [status EXCEPT ![t] = s] /\ call' = [call EXCEPT ![a] = FollowUp(t, s)]
      BY <2>5 DEF UpdateStatus
    <3>3. CASE t \in TasksOf(p)
      <4>1. s \in Terminal
        BY <3>2, <3>3 DEF PlanTerminal, TypeOK, TasksOf
      <4>2. call'[a] = FollowUp(t, s)
        BY <3>2 DEF TypeOK
      <4>3. call'[a].op \in {"candidates", "plan"} /\ call'[a].task = t
        <5>1. CASE s = "done"
          <6>1. FollowUp(t, s) = [op |-> "candidates", task |-> t]
            BY <5>1 DEF FollowUp, Open
          <6> QED BY <4>2, <6>1
        <5>2. CASE s = "cancelled"
          <6>1. FollowUp(t, s) = [op |-> "plan", task |-> t, found |-> {}]
            BY <5>2 DEF FollowUp, Open
          <6> QED BY <4>2, <6>1
        <5> QED BY <4>1, <5>1, <5>2 DEF Terminal
      <4> QED BY <3>3, <4>3 DEF CheckToCome, Updating, TasksOf
    <3>4. CASE t \notin TasksOf(p)
      <4>1. PlanTerminal(p)
        BY <3>2, <3>4 DEF PlanTerminal, TypeOK, TasksOf
      <4> QED BY <2>5, <2>keep, <3>1, <3>2, <4>1 DEF UpdateStatus
    <3> QED BY <3>3, <3>4
  <2>6. ASSUME NEW a \in Agents, Candidates(a)
        PROVE  completed'[p] \/ p \in cut' \/ CheckToCome(p)'
    <3> DEFINE c == [op |-> "others", task |-> call[a].task, found |-> {},
                     check |-> {u \in Tasks : status[u] \in Open /\ call[a].task \in deps[u]}]
    <3>1. call' = [call EXCEPT ![a] = c] /\ UNCHANGED <<status, completed, cut>>
      BY <2>6 DEF Candidates
    <3>2. c.op = "others" /\ c.task = call[a].task
      OBVIOUS
    <3>3. PlanTerminal(p)
      BY <3>1 DEF PlanTerminal, TasksOf
    <3> HIDE DEF c
    <3> QED BY <2>keep, <3>1, <3>2, <3>3
  <2>7. ASSUME NEW a \in Agents, NEW u \in Tasks, OtherDeps(a, u)
        PROVE  completed'[p] \/ p \in cut' \/ CheckToCome(p)'
    <3>0. PICK F \in SUBSET {u} :
            call' = [call EXCEPT ![a] = [call[a] EXCEPT !.check = @ \ {u}, !.found = @ \cup F]]
      BY <2>7 DEF OtherDeps, TypeOK
    <3> DEFINE c == [call[a] EXCEPT !.check = @ \ {u}, !.found = @ \cup F]
    <3>1. call' = [call EXCEPT ![a] = c] /\ UNCHANGED <<status, completed, cut>>
      BY <2>7, <3>0 DEF OtherDeps
    <3>2. call[a] \in [op: {"others"}, task: Tasks, check: SUBSET Tasks, found: SUBSET Tasks]
      BY <2>7, CallKinds DEF OtherDeps, Calls, Idle
    <3>3. c.op = "others" /\ c.task = call[a].task
      BY <3>2
    <3>4. PlanTerminal(p)
      BY <3>1 DEF PlanTerminal, TasksOf
    <3> HIDE DEF c
    <3> QED BY <2>keep, <3>1, <3>3, <3>4
  <2>8. ASSUME NEW a \in Agents, OthersDone(a)
        PROVE  completed'[p] \/ p \in cut' \/ CheckToCome(p)'
    <3>1. PlanTerminal(p)
      BY <2>8 DEF OthersDone, PlanTerminal, TasksOf
    <3> QED BY <2>8, <2>keep, <3>1 DEF OthersDone
  <2>9. ASSUME NEW a \in Agents, CheckPlan(a)
        PROVE  completed'[p] \/ p \in cut' \/ CheckToCome(p)'
    <3> DEFINE q == PlanOf[call[a].task]
    <3>1. PlanTerminal(p)
      BY <2>9 DEF CheckPlan, PlanTerminal, TasksOf
    <3>2. q \in Plans
      BY <2>9, CallKinds DEF CheckPlan
    <3>3. completed' = [completed EXCEPT ![q] = completed[q] \/ PlanTerminal(q)]
      BY <2>9 DEF CheckPlan, TypeOK
    <3>4. CASE p = q
      BY <3>1, <3>2, <3>3, <3>4 DEF TypeOK
    <3>5. CASE p # q
      <4>1. completed'[p] = completed[p] /\ (p \in cut => p \in cut')
        BY <2>9, <3>3, <3>5 DEF CheckPlan, TypeOK
      <4>2. CASE CheckToCome(p)
        <5>1. PICK b \in Agents : Updating(b) /\ PlanOf[call[b].task] = p
          BY <4>2 DEF CheckToCome, Updating
        <5>2. call'[b] = call[b]
          BY <2>9, <3>5, <5>1 DEF CheckPlan, ReplyWith, TypeOK
        <5> QED BY <5>1, <5>2 DEF CheckToCome, Updating
      <4> QED BY <2>old, <3>1, <4>1, <4>2
    <3> QED BY <3>4, <3>5
  \* Calls that end early name the plans they leave unchecked.
  <2>giveup. ASSUME NEW A \in SUBSET Agents, GiveUp(A),
                    \A b \in Agents \ A : call'[b] = call[b]
             PROVE  completed'[p] \/ p \in cut' \/ CheckToCome(p)'
    <3>1. PlanTerminal(p)
      BY <2>giveup DEF GiveUp, rows, PlanTerminal, TasksOf
    <3>2. CheckToCome(p) => p \in cut' \/ CheckToCome(p)'
      BY <2>giveup DEF GiveUp, CheckToCome
    <3>3. completed' = completed /\ cut \subseteq cut'
      BY <2>giveup DEF GiveUp, rows
    <3> QED BY <2>old, <3>1, <3>2, <3>3
  <2>10. CASE Crash
    BY <2>10, <2>giveup DEF Crash
  <2>12. ASSUME NEW a \in Agents, UnblockedFails(a) \/ CheckFails(a)
         PROVE  completed'[p] \/ p \in cut' \/ CheckToCome(p)'
    <3>1. GiveUp({a}) /\ \A b \in Agents \ {a} : call'[b] = call[b]
      BY <2>12 DEF UnblockedFails, CheckFails, TypeOK
    <3> QED BY <3>1, <2>giveup
  <2>13. ASSUME NEW a \in Agents, CheckSkipped(a)
         PROVE  completed'[p] \/ p \in cut' \/ CheckToCome(p)'
    <3>1. PlanTerminal(p)
      BY <2>13 DEF CheckSkipped, rows, PlanTerminal, TasksOf
    <3>2. /\ completed' = completed /\ cut \subseteq cut' /\ PlanOf[call[a].task] \in cut'
          /\ \A b \in Agents \ {a} : call'[b] = call[b]
      BY <2>13 DEF CheckSkipped, ReplyWith, rows, TypeOK
    <3>3. CheckToCome(p) => p \in cut' \/ CheckToCome(p)'
      BY <3>2 DEF CheckToCome
    <3> QED BY <2>old, <3>1, <3>2, <3>3
  <2>14. ASSUME NEW a \in Agents, Reply(a)
         PROVE  completed'[p] \/ p \in cut' \/ CheckToCome(p)'
    <3>1. ~Updating(a)
      BY <2>14 DEF Reply, Updating
    <3>2. PlanTerminal(p)
      BY <2>14 DEF Reply, PlanTerminal, TasksOf
    <3> QED BY <2>14, <2>keep, <3>1, <3>2 DEF Reply
  <2>11. CASE UNCHANGED vars
    <3>1. PlanTerminal(p)
      BY <2>11 DEF vars, PlanTerminal, TasksOf
    <3> QED BY <2>11, <2>old, <3>1 DEF vars, CheckToCome, Updating
  <2> QED BY <2>1, <2>2, <2>3, <2>4, <2>5, <2>6, <2>7, <2>8, <2>9, <2>10, <2>11, <2>12, <2>13,
             <2>14 DEF Next
<1> QED BY <1>1, <1>2, TypeCorrect, PTL DEF Spec

\* How often the completion of each plan was reported: as often as it happened.
ReportedWhenCompleted ==
    \A p \in Plans : notices[p] = 0 \/ (notices[p] = 1 /\ completed[p])

\* One caller at most is told planCompleted, however many finish the plan at the
\* same time or finish it again later (the condition completed_at = 0 of
\* checkAndCompletePlan's UPDATE).
THEOREM PlanCompletedOnce == Spec => []CompletedOnce
<1> USE DEF rows, history
<1>1. Init => ReportedWhenCompleted
  BY DEF Init, ReportedWhenCompleted
<1>2. TypeOK /\ ReportedWhenCompleted /\ [Next]_vars => ReportedWhenCompleted'
  <2> SUFFICES ASSUME TypeOK, ReportedWhenCompleted, [Next]_vars
               PROVE  ReportedWhenCompleted'
    OBVIOUS
  <2>1. ASSUME UNCHANGED <<completed, notices>> PROVE ReportedWhenCompleted'
    BY <2>1 DEF ReportedWhenCompleted
  <2>2. ASSUME NEW a \in Agents, CheckPlan(a) PROVE ReportedWhenCompleted'
    <3> DEFINE q == PlanOf[call[a].task]
    <3>1. /\ completed' = [completed EXCEPT ![q] = completed[q] \/ PlanTerminal(q)]
          /\ notices' = [notices EXCEPT ![q] = IF PlanTerminal(q) /\ ~completed[q]
                                               THEN notices[q] + 1 ELSE notices[q]]
      BY <2>2 DEF CheckPlan, TypeOK
    <3>2. SUFFICES ASSUME NEW p \in Plans
                   PROVE  notices'[p] = 0 \/ (notices'[p] = 1 /\ completed'[p])
      BY DEF ReportedWhenCompleted
    <3>3. notices[p] = 0 \/ (notices[p] = 1 /\ completed[p])
      BY DEF ReportedWhenCompleted
    <3>4. CASE p # q
      <4>1. completed'[p] = completed[p] /\ notices'[p] = notices[p]
        BY <3>1, <3>4 DEF TypeOK
      <4> QED BY <3>3, <4>1
    <3>5. CASE p = q
      <4>1. completed'[p] <=> completed[p] \/ PlanTerminal(p)
        BY <3>1, <3>5 DEF TypeOK
      <4>2. notices'[p] = IF PlanTerminal(p) /\ ~completed[p] THEN notices[p] + 1 ELSE notices[p]
        BY <3>1, <3>5 DEF TypeOK
      <4>3. CASE PlanTerminal(p) /\ ~completed[p]
        <5>1. notices'[p] = 1
          BY <3>3, <4>2, <4>3
        <5> QED BY <4>1, <4>3, <5>1
      <4>4. CASE ~(PlanTerminal(p) /\ ~completed[p])
        <5>1. notices'[p] = notices[p]
          BY <4>2, <4>4
        <5> QED BY <3>3, <4>1, <5>1
      <4> QED BY <4>3, <4>4
    <3> QED BY <3>4, <3>5
  <2> QED BY <2>1, <2>2 DEF Next, CreatePlan, List, Claim, ListReplies, UpdateStatus,
             Candidates, OtherDeps, OthersDone, UnblockedFails, CheckFails, CheckSkipped, Reply,
             GiveUp, Crash, vars
<1>3. ReportedWhenCompleted => CompletedOnce
  BY DEF ReportedWhenCompleted, CompletedOnce
<1> QED BY <1>1, <1>2, <1>3, TypeCorrect, PTL DEF Spec

\* completed_at is only set while every task of the plan is done or cancelled:
\* the count and the UPDATE of checkAndCompletePlan share a transaction.
THEOREM CompletesSoundly == Spec => CompletesWhenTerminal
<1> DEFINE Sound == \A p \in Plans : completed'[p] /\ ~completed[p]
                        => \A t \in TasksOf(p) : status'[t] \in Terminal
<1>1. TypeOK /\ [Next]_vars => [Sound]_vars
  <2> SUFFICES ASSUME TypeOK, Next PROVE Sound
    OBVIOUS
  <2>1. ASSUME UNCHANGED completed PROVE Sound
    BY <2>1
  <2>2. ASSUME NEW a \in Agents, CheckPlan(a) PROVE Sound
    <3> DEFINE q == PlanOf[call[a].task]
    <3>1. /\ completed' = [completed EXCEPT ![q] = completed[q] \/ PlanTerminal(q)]
          /\ status' = status
      BY <2>2 DEF CheckPlan, TypeOK
    <3>2. \A p \in Plans : completed'[p] /\ ~completed[p] => PlanTerminal(p)
      BY <3>1 DEF TypeOK
    <3> QED BY <3>1, <3>2 DEF PlanTerminal
  <2> QED BY <2>1, <2>2 DEF Next, CreatePlan, List, Claim, ListReplies, UpdateStatus,
             Candidates, OtherDeps, OthersDone, UnblockedFails, CheckFails, CheckSkipped, Reply,
             GiveUp, Crash, rows, history
<1> QED BY <1>1, TypeCorrect, PTL DEF Spec, CompletesWhenTerminal

\* A task with an owner changes hands only by an update to in_progress; a listing
\* claims what is unassigned when its UPDATE runs, not when its query ran
\* (the condition assigned_to = '' of GetPendingTasks's UPDATE).
THEOREM ListingsStealNothing == Spec => ListingNeverSteals
<1> DEFINE Kept == \A t \in Tasks : assigned[t] # None /\ assigned'[t] # assigned[t]
                       => status'[t] = "in_progress" /\ started' > started
<1>1. TypeOK /\ [Next]_vars => [Kept]_vars
  <2> SUFFICES ASSUME TypeOK, Next PROVE Kept
    OBVIOUS
  <2>1. ASSUME UNCHANGED assigned PROVE Kept
    BY <2>1
  <2>2. ASSUME NEW a \in Agents, NEW t \in Tasks, Claim(a, t) PROVE Kept
    BY <2>2 DEF Claim, TypeOK
  <2>3. ASSUME NEW a \in Agents, NEW t \in Tasks, NEW s \in Open \cup Terminal,
               UpdateStatus(a, t, s)
        PROVE  Kept
    <3>1. started' = started + 1 /\ started \in Nat
      BY <2>3, TasksAssumption DEF UpdateStatus, TypeOK
    <3>2. /\ status' = [status EXCEPT ![t] = s]
          /\ \/ UNCHANGED assigned
             \/ s = "in_progress" /\ assigned' = [assigned EXCEPT ![t] = a]
      BY <2>3 DEF UpdateStatus
    <3>3. \A u \in Tasks : assigned'[u] # assigned[u] => u = t /\ s = "in_progress"
      BY <3>2 DEF TypeOK
    <3> QED BY <3>1, <3>2, <3>3 DEF TypeOK
  <2> QED BY <2>1, <2>2, <2>3 DEF Next, CreatePlan, List, ListReplies, Candidates,
             OtherDeps, OthersDone, CheckPlan, UnblockedFails, CheckFails, CheckSkipped, Reply,
             GiveUp, Crash, rows, history
<1> QED BY <1>1, TypeCorrect, PTL DEF Spec, ListingNeverSteals

\* Some call is going to say that a task is unblocked, or to find out.
AnnouncementToCome(t) == \E a \in Agents : t \in Owes(call[a])

\* Several agents that end the last dependencies of a task at once cannot all leave
\* it to the others to report it: each looks for candidates after its own UPDATE, and
\* at each candidate's dependencies after that (findNewlyUnblocked).  Only an error or
\* a crash of a call that owes the report keeps it from the agents, until a dependency
\* of the task is updated again.
THEOREM UnblocksReported == Spec => []UnblockReported
<1> USE TasksAssumption DEF rows, history
<1>1. Init => UnblockReported
  BY DEF Init, UnblockReported, Open
<1>2. TypeOK /\ UnblockReported /\ [Next]_vars => UnblockReported'
  <2> SUFFICES ASSUME TypeOK, UnblockReported, [Next]_vars,
                      NEW t \in Tasks, status'[t] \in Open, ~Blocked(t)'
               PROVE  t \in heard' \/ t \in lost' \/ AnnouncementToCome(t)'
    BY DEF UnblockReported, AnnouncementToCome
  <2>0. /\ call \in [Agents -> Calls]
        /\ status \in [Tasks -> {"absent"} \cup Open \cup Terminal]
        /\ deps \in [Tasks -> SUBSET (Tasks \cup {Unknown})]
        /\ "absent" \notin Open /\ "done" \notin Open
    BY DEF TypeOK, Open
  <2>old. ASSUME status[t] \in Open, ~Blocked(t)
          PROVE  t \in heard \/ t \in lost \/ AnnouncementToCome(t)
    BY <2>old DEF UnblockReported, AnnouncementToCome
  \* A step of one agent that still owes the report of t, or has made or lost it.
  <2>one. ASSUME NEW a \in Agents, \A b \in Agents \ {a} : call'[b] = call[b],
                 UNCHANGED <<status, deps>>, heard \subseteq heard', lost \subseteq lost',
                 status[t] \in Open /\ ~Blocked(t) /\ t \in Owes(call[a])
                   => t \in heard' \/ t \in lost' \/ t \in Owes(call[a])'
          PROVE  t \in heard' \/ t \in lost' \/ AnnouncementToCome(t)'
    <3>1. status[t] \in Open /\ ~Blocked(t)
      BY <2>one DEF Blocked
    <3>2. CASE AnnouncementToCome(t)
      <4>1. PICK b \in Agents : t \in Owes(call[b])
        BY <3>2 DEF AnnouncementToCome
      <4>2. CASE b = a
        BY <2>one, <3>1, <4>1, <4>2 DEF AnnouncementToCome
      <4>3. CASE b # a
        <5>1. Owes(call[b])' = Owes(call[b])
          BY <2>one, <4>3 DEF Owes
        <5> QED BY <4>1, <5>1 DEF AnnouncementToCome
      <4> QED BY <4>2, <4>3
    <3> QED BY <2>one, <2>old, <3>1, <3>2
  <2>1. ASSUME NEW p \in Plans, CreatePlan(p)
        PROVE  t \in heard' \/ t \in lost' \/ AnnouncementToCome(t)'
    <3>1. /\ \A u \in Tasks : status'[u] = IF u \in TasksOf(p) THEN "pending" ELSE status[u]
          /\ \A u \in TasksOf(p) : status[u] = "absent"
          /\ UNCHANGED <<call, lost>>
      BY <2>1 DEF CreatePlan
    <3>2. PICK D \in [TasksOf(p) -> SUBSET ({u \in Tasks : status[u] # "absent"} \cup {Unknown})] :
             /\ deps' = [u \in Tasks |-> IF u \in TasksOf(p) THEN D[u] ELSE deps[u]]
             /\ heard' = heard \cup
                   {u \in TasksOf(p) : \A d \in D[u] \ {Unknown} : status[d] = "done"}
      BY <2>1 DEF CreatePlan
    <3>3. CASE t \in TasksOf(p)
      <4>1. deps'[t] = D[t]
        BY <3>2, <3>3
      <4>2. \A d \in D[t] \ {Unknown} : d \in Tasks /\ status'[d] = "done"
        BY <3>2, <3>3, <4>1 DEF Blocked
      <4>3. \A d \in D[t] \ {Unknown} : status[d] = "done"
        BY <3>1, <4>2
      <4> QED BY <3>2, <3>3, <4>3
    <3>4. CASE t \notin TasksOf(p)
      <4>1. deps'[t] = deps[t] /\ status'[t] = status[t]
        BY <3>1, <3>2, <3>4
      <4>2. ~Blocked(t)
        <5> SUFFICES ASSUME NEW d \in deps[t], d = Unknown \/ status[d] # "done" PROVE FALSE
          BY DEF Blocked
        <5>1. d \in deps'[t] /\ d # Unknown /\ status'[d] = "done"
          BY <4>1 DEF Blocked
        <5>2. d \in Tasks
          BY <2>0, <5>1
        <5> QED BY <3>1, <5>1, <5>2
      <4>3. t \in heard \/ t \in lost \/ AnnouncementToCome(t)
        BY <2>old, <3>1, <4>1, <4>2
      <4>4. ASSUME NEW a \in Agents, t \in Owes(call[a]) PROVE t \in Owes(call[a])'
        <5>1. call'[a] = call[a]
          BY <3>1
        <5>2. CASE call[a].op = "candidates"
          <6>1. call[a].task \in deps[t]
            BY <4>4, <5>2 DEF Owes
          <6> QED BY <4>1, <5>1, <5>2, <6>1 DEF Owes
        <5>3. CASE call[a].op # "candidates"
          <6>1. Owes(call[a])' = Owes(call[a])
            BY <5>1, <5>3, CallKinds DEF Owes
          <6> QED BY <4>4, <6>1
        <5> QED BY <5>2, <5>3
      <4> QED BY <3>1, <3>2, <4>3, <4>4 DEF AnnouncementToCome
    <3> QED BY <3>3, <3>4
  <2>2. ASSUME NEW a \in Agents, NEW u \in Tasks, NEW s \in Open \cup Terminal,
               UpdateStatus(a, u, s)
        PROVE  t \in heard' \/ t \in lost' \/ AnnouncementToCome(t)'
    <3>1. /\ call[a] = Idle /\ call' = [call EXCEPT ![a] = FollowUp(u, s)]
          /\ status' = [status EXCEPT ![u] = s] /\ UNCHANGED deps
          /\ heard' = (heard \ {v \in Tasks : s # "done" /\ u \in deps[v]})
                \cup {v \in {u} : status[u] \notin Open /\ s \in Open /\ ~Blocked(u)}
          /\ lost' = lost \ {v \in Tasks : u \in deps[v]}
      BY <2>2 DEF UpdateStatus
    <3>2. /\ \A v \in Tasks : status'[v] = IF v = u THEN s ELSE status[v]
          /\ \A d \in deps[t] : d # Unknown /\ d \in Tasks /\ status'[d] = "done"
      BY <2>0, <3>1 DEF Blocked
    <3>3. CASE u \in deps[t]
      <4>1. s = "done"
        BY <3>2, <3>3
      <4>2. call'[a] = [op |-> "candidates", task |-> u]
        BY <2>0, <3>1, <4>1 DEF FollowUp, Open
      <4>3. t \in Owes(call[a])'
        BY <3>1, <3>3, <4>2 DEF Owes
      <4> QED BY <4>3 DEF AnnouncementToCome
    <3>4. CASE u \notin deps[t]
      <4>1. ~Blocked(t)
        BY <3>2, <3>4 DEF Blocked
      <4>2. CASE status[t] \in Open
        <5>1. t \in heard \/ t \in lost \/ AnnouncementToCome(t)
          BY <2>old, <4>1, <4>2
        <5>2. CASE AnnouncementToCome(t)
          <6>1. PICK b \in Agents : t \in Owes(call[b])
            BY <5>2 DEF AnnouncementToCome
          <6>2. b # a
            BY <3>1, <6>1 DEF Owes, Idle
          <6>3. call'[b] = call[b]
            BY <2>0, <3>1, <6>2
          <6>4. Owes(call[b])' = Owes(call[b])
            BY <3>1, <6>3 DEF Owes
          <6> QED BY <6>1, <6>4 DEF AnnouncementToCome
        <5> QED BY <3>1, <3>4, <5>1, <5>2
      <4>3. CASE status[t] \notin Open
        <5>1. t = u /\ s \in Open
          BY <3>2, <4>3
        <5> QED BY <3>1, <4>1, <4>3, <5>1
      <4> QED BY <4>2, <4>3
    <3> QED BY <3>3, <3>4
  <2>3. ASSUME NEW a \in Agents, Candidates(a)
        PROVE  t \in heard' \/ t \in lost' \/ AnnouncementToCome(t)'
    <3> DEFINE c == [op |-> "others", task |-> call[a].task, found |-> {},
                     check |-> {u \in Tasks : status[u] \in Open /\ call[a].task \in deps[u]}]
    <3>1. /\ call' = [call EXCEPT ![a] = c] /\ call[a].op = "candidates"
          /\ UNCHANGED <<status, deps, heard, lost>>
      BY <2>3 DEF Candidates
    <3>2. call'[a] = c /\ \A b \in Agents \ {a} : call'[b] = call[b]
      BY <2>0, <3>1
    <3>3. Owes(call[a]) = {u \in Tasks : call[a].task \in deps[u]} /\ Owes(call[a])' = c.check
      BY <3>1, <3>2 DEF Owes
    <3> QED BY <2>one, <3>1, <3>2, <3>3
  <2>4. ASSUME NEW a \in Agents, NEW u \in Tasks, OtherDeps(a, u)
        PROVE  t \in heard' \/ t \in lost' \/ AnnouncementToCome(t)'
    <3> DEFINE free == \A d \in deps[u] \ {call[a].task, Unknown} : status[d] = "done"
               c == [call[a] EXCEPT !.check = @ \ {u}, !.found = @ \cup {v \in {u} : free}]
    <3>1. /\ call' = [call EXCEPT ![a] = c] /\ call[a].op = "others"
          /\ UNCHANGED <<status, deps, heard, lost>>
      BY <2>4 DEF OtherDeps, TypeOK
    <3>2. call'[a] = c /\ \A b \in Agents \ {a} : call'[b] = call[b]
      BY <2>0, <3>1
    <3>3. /\ c.op = "others" /\ c.check = call[a].check \ {u}
          /\ c.found = call[a].found \cup {v \in {u} : free}
      <4>1. call[a] \in [op: {"others"}, task: Tasks, check: SUBSET Tasks, found: SUBSET Tasks]
        BY <2>4, CallKinds DEF OtherDeps, Calls, Idle
      <4> QED BY <4>1
    <3>4. Owes(call[a]) = call[a].check \cup call[a].found
      BY <3>1 DEF Owes
    <3>5. Owes(call[a])' = c.check \cup c.found
      <4> HIDE DEF c
      <4> QED BY <3>2, <3>3 DEF Owes
    <3>6. ~Blocked(t) /\ t = u => free
      BY DEF Blocked
    <3> HIDE DEF c, free
    <3>7. ~Blocked(t) /\ t \in Owes(call[a]) => t \in Owes(call[a])'
      BY <3>3, <3>4, <3>5, <3>6
    <3> QED BY <2>one, <3>1, <3>2, <3>7
  <2>5. ASSUME NEW a \in Agents, OthersDone(a) \/ CheckPlan(a) \/ CheckSkipped(a)
        PROVE  t \in heard' \/ t \in lost' \/ AnnouncementToCome(t)'
    <3>1. /\ UNCHANGED <<status, deps, heard, lost>>
          /\ \A b \in Agents \ {a} : call'[b] = call[b]
      BY <2>5 DEF OthersDone, CheckPlan, CheckSkipped, ReplyWith, TypeOK
    <3>2. Owes(call[a]) = call[a].found
      BY <2>5 DEF OthersDone, CheckPlan, CheckSkipped, Owes
    <3>3. call'[a].op \in {"plan", "reply"} /\ call'[a].found = call[a].found
      BY <2>5, <2>0 DEF OthersDone, CheckPlan, CheckSkipped, ReplyWith
    <3>4. Owes(call[a])' = call[a].found
      BY <3>3 DEF Owes
    <3> QED BY <2>one, <3>1, <3>2, <3>4
  <2>6. ASSUME NEW a \in Agents, List(a) \/ ListReplies(a) \/ \E u \in Tasks : Claim(a, u)
        PROVE  t \in heard' \/ t \in lost' \/ AnnouncementToCome(t)'
    <3>1. /\ UNCHANGED <<status, deps, heard, lost>>
          /\ \A b \in Agents \ {a} : call'[b] = call[b]
      BY <2>6 DEF List, ListReplies, Claim, TypeOK
    <3>2. Owes(call[a]) = {}
      BY <2>6 DEF List, ListReplies, Claim, Owes, Idle
    <3> QED BY <2>one, <3>1, <3>2
  <2>7. ASSUME NEW a \in Agents, Reply(a)
        PROVE  t \in heard' \/ t \in lost' \/ AnnouncementToCome(t)'
    <3>1. /\ UNCHANGED <<status, deps, lost>> /\ heard \subseteq heard'
          /\ \A b \in Agents \ {a} : call'[b] = call[b]
          /\ \A u \in call[a].found : ~Blocked(u) => u \in heard'
      BY <2>7 DEF Reply, TypeOK
    <3>2. Owes(call[a]) = call[a].found
      BY <2>7 DEF Reply, Owes
    <3> QED BY <2>one, <3>1, <3>2
  <2>8. ASSUME NEW a \in Agents, UnblockedFails(a) \/ CheckFails(a)
        PROVE  t \in heard' \/ t \in lost' \/ AnnouncementToCome(t)'
    <3>1. GiveUp({a}) /\ \A b \in Agents \ {a} : call'[b] = call[b]
      BY <2>8 DEF UnblockedFails, CheckFails, TypeOK
    <3>2. /\ UNCHANGED <<status, deps, heard>> /\ lost \subseteq lost'
          /\ Owes(call[a]) \subseteq lost'
      BY <3>1 DEF GiveUp
    <3> QED BY <2>one, <3>1, <3>2
  <2>9. CASE Crash
    <3>1. /\ UNCHANGED <<status, deps, heard>> /\ lost \subseteq lost'
          /\ \A a \in Agents : Owes(call[a]) \subseteq lost'
      BY <2>9 DEF Crash, GiveUp
    <3>2. AnnouncementToCome(t) => t \in lost'
      BY <3>1 DEF AnnouncementToCome
    <3> QED BY <2>old, <3>1, <3>2 DEF Blocked
  <2>10. CASE UNCHANGED vars
    BY <2>10, <2>old DEF vars, Blocked, AnnouncementToCome, Owes
  <2> QED BY <2>1, <2>2, <2>3, <2>4, <2>5, <2>6, <2>7, <2>8, <2>9, <2>10 DEF Next
<1> QED BY <1>1, <1>2, TypeCorrect, PTL DEF Spec
=============================================================================
