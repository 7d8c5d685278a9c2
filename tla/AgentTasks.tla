----------------------------- MODULE AgentTasks -----------------------------
(***************************************************************************)
(* Plans and tasks that several agents share through the knowledge         *)
(* database (internal/store/tasks.go, called by internal/mcp/task_tools.go *)
(* and coord_tools.go).  Every SQL statement or transaction is one step;   *)
(* between the statements of one call those of others run.  A statement    *)
(* may fail (the database is busy), and the daemon may die: the rows stay, *)
(* the calls are gone.  A first statement that fails changes nothing and   *)
(* is no step.                                                             *)
(*                                                                         *)
(* Titles, notes, priorities, linked nodes, commits and session links are  *)
(* left out; no statement here depends on them.                            *)
(***************************************************************************)
EXTENDS Naturals, FiniteSets

CONSTANTS
    Agents,     \* agent ids of the callers
    Tasks,      \* ids newID can give to tasks
    Plans,      \* ids newID can give to plans
    PlanOf,     \* task -> its plan
    Unknown,    \* an id in depends_on that no task has
    None,       \* an empty assigned_to
    MaxCalls    \* bound: listings that claim and updates over a behaviour

ASSUME TasksAssumption ==
    /\ IsFiniteSet(Tasks) /\ IsFiniteSet(Agents)
    /\ PlanOf \in [Tasks -> Plans]
    /\ Unknown \notin Tasks /\ None \notin Agents
    /\ MaxCalls \in Nat

VARIABLES
    status,     \* task -> absent, or its status column
    deps,       \* task -> depends_on
    assigned,   \* task -> assigned_to
    completed,  \* plan -> completed_at # 0
    call,       \* agent -> its call in progress
    started,    \* listings that claim and updates so far
    notices,    \* history: plan -> calls answered with planCompleted = true
    heard,      \* history: tasks known as unblocked, by a reply or from the start
    lost,       \* history: tasks whose announcement was given up or died with its
                \* call, since one of their dependencies was last updated
    cut         \* history: plans whose check was given up or died with its call,
                \* since they were last checked

rows    == <<status, deps, assigned, completed>>
history == <<notices, heard, lost, cut>>
vars == <<rows, call, started, history>>

Open     == {"pending", "in_progress"}
Terminal == {"done", "cancelled"}
TasksOf(p) == {t \in Tasks : PlanOf[t] = p}
Idle == [op |-> "idle"]

\* What GetPendingTasks calls blocked: some dependency is not known to be done.
Blocked(t) == \E d \in deps[t] : d = Unknown \/ status[d] # "done"

Init ==
    /\ status = [t \in Tasks |-> "absent"]
    /\ deps = [t \in Tasks |-> {}]
    /\ assigned = [t \in Tasks |-> None]
    /\ completed = [p \in Plans |-> FALSE]
    /\ call = [a \in Agents |-> Idle]
    /\ started = 0
    /\ notices = [p \in Plans |-> 0]
    /\ heard = {} /\ lost = {} /\ cut = {}

-----------------------------------------------------------------------------
\* CreatePlan: one transaction.  Task ids are made here, so depends_on can only
\* name tasks of earlier plans, or something that is no task id at all.
CreatePlan(p) ==
    LET new   == TasksOf(p)
        known == {t \in Tasks : status[t] # "absent"} IN
    /\ new # {} /\ \A t \in new : status[t] = "absent"
    /\ status' = [t \in Tasks |-> IF t \in new THEN "pending" ELSE status[t]]
    /\ \E D \in [new -> SUBSET (known \cup {Unknown})] :
          /\ deps' = [t \in Tasks |-> IF t \in new THEN D[t] ELSE deps[t]]
          /\ heard' = heard \cup
                {t \in new : \A d \in D[t] \ {Unknown} : status[d] = "done"}
    /\ UNCHANGED <<assigned, completed, call, started, notices, lost, cut>>

-----------------------------------------------------------------------------
\* GetPendingTasks(planID = "", agentID = a).

\* The query: open tasks that are a's, or nobody's and then to be claimed.
\* A listing with nothing to claim only reads and is no step.
List(a) ==
    /\ call[a] = Idle
    /\ started < MaxCalls /\ started' = started + 1
    /\ LET free == {t \in Tasks : status[t] \in Open /\ assigned[t] = None} IN
          /\ free # {}
          /\ call' = [call EXCEPT ![a] = [op |-> "list", free |-> free, claims |-> free]]
    /\ UNCHANGED <<rows, history>>

\* Mutant: the UPDATE has no condition on assigned_to.
ClaimAnyway(a, t) ==
    /\ call[a].op = "list" /\ t \in call[a].claims
    /\ assigned' = [assigned EXCEPT ![t] = a]
    /\ call' = [call EXCEPT ![a].claims = @ \ {t}]
    /\ UNCHANGED <<status, deps, completed, started, history>>

\* One UPDATE per unassigned task, which only takes a row that still is; its
\* error is ignored.
Claim(a, t) ==
    /\ call[a].op = "list" /\ t \in call[a].claims
    /\ \/ assigned' = IF assigned[t] = None THEN [assigned EXCEPT ![t] = a] ELSE assigned
       \/ UNCHANGED assigned
    /\ call' = [call EXCEPT ![a].claims = @ \ {t}]
    /\ UNCHANGED <<status, deps, completed, started, history>>

\* The reply gives every listed task as a's, whatever the UPDATEs did.
ListReplies(a) ==
    /\ call[a].op = "list" /\ call[a].claims = {}
    /\ call' = [call EXCEPT ![a] = Idle]
    /\ UNCHANGED <<rows, started, history>>

-----------------------------------------------------------------------------
\* UpdateTask.

\* The replies UpdateTask still owes for tasks that its call has found, or is
\* still to find, unblocked.
Owes(c) ==
    CASE c.op = "candidates"        -> {u \in Tasks : c.task \in deps[u]}
      [] c.op = "others"            -> c.check \cup c.found
      [] c.op \in {"plan", "reply"} -> c.found
      [] c.op \in {"idle", "list"}  -> {}

\* Mutant: the plan is only checked when a task is done, not when it is cancelled.
FollowUpDoneOnly(t, s) == IF s = "done" THEN [op |-> "candidates", task |-> t] ELSE Idle

\* What UpdateTask still has to do after its first statement.
FollowUp(t, s) ==
    CASE s = "done"      -> [op |-> "candidates", task |-> t]
      [] s = "cancelled" -> [op |-> "plan", task |-> t, found |-> {}]
      [] s \in Open      -> Idle

\* The first statement: the new status and, for in_progress with an agent_id, the
\* new owner.  Any status may follow any other, whoever the task is assigned to.
UpdateStatus(a, t, s) ==
    /\ call[a] = Idle
    /\ started < MaxCalls /\ started' = started + 1
    /\ status[t] # "absent"
    /\ status' = [status EXCEPT ![t] = s]
    /\ \/ UNCHANGED assigned
       \/ s = "in_progress" /\ assigned' = [assigned EXCEPT ![t] = a]
    /\ call' = [call EXCEPT ![a] = FollowUp(t, s)]
    \* a task that has to wait again is to be announced again; who reopens a
    \* task sees how its dependencies are
    /\ heard' = LET again == {u \in Tasks : s # "done" /\ t \in deps[u]} IN
                (heard \ again)
                  \cup {u \in {t} : status[t] \notin Open /\ s \in Open /\ ~Blocked(t)}
    /\ lost' = lost \ {u \in Tasks : t \in deps[u]}
    /\ UNCHANGED <<deps, completed, notices, cut>>

\* findNewlyUnblocked, first query: open tasks that depend on the one just done.
Candidates(a) ==
    /\ call[a].op = "candidates"
    /\ LET t == call[a].task IN
          call' = [call EXCEPT ![a] =
              [op |-> "others", task |-> t, found |-> {},
               check |-> {u \in Tasks : status[u] \in Open /\ t \in deps[u]}]]
    /\ UNCHANGED <<rows, started, history>>

\* Mutant: the completed task is not left out of its dependants' other tasks,
\* and a task with several dependencies is never reported.
OtherDepsNone(a, u) ==
    /\ call[a].op = "others" /\ u \in call[a].check
    /\ call' = [call EXCEPT ![a].check = @ \ {u},
                            ![a].found = @ \cup {v \in {u} : deps[u] = {call[a].task}}]
    /\ UNCHANGED <<rows, started, history>>

\* One query per candidate: it is found unblocked when no other dependency has
\* a status but done.  An id that no task has has no status at all.
OtherDeps(a, u) ==
    LET free == \A d \in deps[u] \ {call[a].task, Unknown} : status[d] = "done" IN
    /\ call[a].op = "others" /\ u \in call[a].check
    /\ call' = [call EXCEPT ![a].check = @ \ {u},
                            ![a].found = @ \cup {v \in {u} : free}]
    /\ UNCHANGED <<rows, started, history>>

OthersDone(a) ==
    /\ call[a].op = "others" /\ call[a].check = {}
    /\ call' = [call EXCEPT ![a] = [op |-> "plan", task |-> call[a].task,
                                    found |-> call[a].found]]
    /\ UNCHANGED <<rows, started, history>>

\* The call ends with an error, or with the daemon: what it was to announce is
\* lost, and the plan it had not checked is left as it is.
GiveUp(A) ==
    /\ lost' = lost \cup UNION {Owes(call[a]) : a \in A}
    /\ cut' = cut \cup {PlanOf[call[a].task] :
                          a \in {b \in A : call[b].op \in {"candidates", "others", "plan"}}}
    /\ UNCHANGED <<rows, started, notices, heard>>

\* A query of findNewlyUnblocked fails: UpdateTask returns before the plan check.
UnblockedFails(a) ==
    /\ call[a].op \in {"candidates", "others"}
    /\ call' = [call EXCEPT ![a] = Idle]
    /\ GiveUp({a})

\* Mutant: only pending tasks count as open.
PlanTerminalLoose(p) == \A t \in TasksOf(p) : status[t] # "pending"

PlanTerminal(p) == \A t \in TasksOf(p) : status[t] \in Terminal

\* The call has its results and replies with them.
ReplyWith(a) == call' = [call EXCEPT ![a] = [op |-> "reply", found |-> call[a].found]]

\* Mutant: the UPDATE has no condition on completed_at.
CheckPlanTwice(a) ==
    /\ call[a].op = "plan"
    /\ LET p == PlanOf[call[a].task] IN
          /\ completed' = [completed EXCEPT ![p] = @ \/ PlanTerminal(p)]
          /\ notices' = [notices EXCEPT ![p] = IF PlanTerminal(p) THEN @ + 1 ELSE @]
          /\ cut' = cut \ {p}
    /\ ReplyWith(a)
    /\ UNCHANGED <<status, deps, assigned, started, heard, lost>>

\* checkAndCompletePlan: one transaction.
CheckPlan(a) ==
    /\ call[a].op = "plan"
    /\ LET p == PlanOf[call[a].task] IN
          /\ completed' = [completed EXCEPT ![p] = @ \/ PlanTerminal(p)]
          /\ notices' = [notices EXCEPT ![p] =
                           IF PlanTerminal(p) /\ ~completed[p] THEN @ + 1 ELSE @]
          /\ cut' = cut \ {p}
    /\ ReplyWith(a)
    /\ UNCHANGED <<status, deps, assigned, started, heard, lost>>

\* The transaction fails, and the call with it.
CheckFails(a) ==
    /\ call[a].op = "plan"
    /\ call' = [call EXCEPT ![a] = Idle]
    /\ GiveUp({a})

\* The task's plan_id could not be read, an error UpdateTask ignores: without a
\* plan there is nothing to check.
CheckSkipped(a) ==
    /\ call[a].op = "plan"
    /\ ReplyWith(a)
    /\ cut' = cut \cup {PlanOf[call[a].task]}
    /\ UNCHANGED <<rows, started, notices, heard, lost>>

\* handleUpdateTask's reply.  A task that has to wait again by now has not been
\* announced.
Reply(a) ==
    /\ call[a].op = "reply"
    /\ heard' = heard \cup {u \in call[a].found : ~Blocked(u)}
    /\ call' = [call EXCEPT ![a] = Idle]
    /\ UNCHANGED <<rows, started, notices, lost, cut>>

-----------------------------------------------------------------------------
\* The daemon dies and is started again.
Crash ==
    /\ \E a \in Agents : call[a] # Idle
    /\ call' = [a \in Agents |-> Idle]
    /\ GiveUp(Agents)

Next ==
    \/ \E p \in Plans : CreatePlan(p)
    \/ \E a \in Agents :
          \/ List(a) \/ ListReplies(a)
          \/ \E t \in Tasks : Claim(a, t) \/ OtherDeps(a, t)
          \/ \E t \in Tasks, s \in Open \cup Terminal : UpdateStatus(a, t, s)
          \/ Candidates(a) \/ OthersDone(a) \/ CheckPlan(a) \/ Reply(a)
          \/ UnblockedFails(a) \/ CheckFails(a) \/ CheckSkipped(a)
    \/ Crash

Spec == Init /\ [][Next]_vars

-----------------------------------------------------------------------------
Calls ==
    {Idle}
      \cup [op: {"list"}, free: SUBSET Tasks, claims: SUBSET Tasks]
      \cup [op: {"candidates"}, task: Tasks]
      \cup [op: {"others"}, task: Tasks, check: SUBSET Tasks, found: SUBSET Tasks]
      \cup [op: {"plan"}, task: Tasks, found: SUBSET Tasks]
      \cup [op: {"reply"}, found: SUBSET Tasks]

\* Types of the variables.
TypeOK ==
    /\ status \in [Tasks -> {"absent"} \cup Open \cup Terminal]
    /\ deps \in [Tasks -> SUBSET (Tasks \cup {Unknown})]
    /\ assigned \in [Tasks -> Agents \cup {None}]
    /\ completed \in [Plans -> BOOLEAN]
    /\ call \in [Agents -> Calls]
    /\ started \in 0..MaxCalls
    /\ notices \in [Plans -> Nat]
    /\ heard \subseteq Tasks /\ lost \subseteq Tasks /\ cut \subseteq Plans

\* The check of plan p is still to come in some call.
CheckToCome(p) ==
    \E a \in Agents : /\ call[a].op \in {"candidates", "others", "plan"}
                      /\ PlanOf[call[a].task] = p

\* A plan whose tasks are all terminal is completed, or is still to be checked,
\* or an error or a crash took its last check away: two agents that end the last
\* two tasks at once cannot both leave it to the other, and a plan an error left
\* open is completed by the next update that ends one of its tasks.
PlanCompletes ==
    \A p \in Plans :
        TasksOf(p) # {} /\ PlanTerminal(p) => completed[p] \/ p \in cut \/ CheckToCome(p)

\* planCompleted is reported to one caller only, whoever finishes at once.
CompletedOnce == \A p \in Plans : notices[p] <= 1

\* A plan becomes completed only when all its tasks are terminal at that moment.
CompletesWhenTerminal ==
    [][\A p \in Plans : completed'[p] /\ ~completed[p]
                           => \A t \in TasksOf(p) : status'[t] \in Terminal]_vars

\* A task whose last dependencies are finished at once by several agents is
\* reported as unblocked by at least one of their calls, unless an error or a
\* crash lost the report of the last of them.
UnblockReported ==
    \A t \in Tasks :
        status[t] \in Open /\ ~Blocked(t) =>
            t \in heard \/ t \in lost \/ \E a \in Agents : t \in Owes(call[a])

\* Listing never takes a task away from the agent it is assigned to.
ListingNeverSteals ==
    [][\A t \in Tasks : assigned[t] # None /\ assigned'[t] # assigned[t]
                           => status'[t] = "in_progress" /\ started' > started]_vars
=============================================================================
