---------------------------- MODULE MCAgentTasks ----------------------------
(* Values for the constants of AgentTasks. *)
EXTENDS AgentTasks, TLC

CONSTANTS p1, p2, t1, t2, t3

\* The first plan has two tasks, the second one a single task.
MCPlanOf == [t \in Tasks |-> IF t = t3 THEN p2 ELSE p1]

\* Agents are interchangeable, and so are the two tasks of the first plan.
Symmetry == Permutations(Agents) \cup Permutations({t1, t2})
=============================================================================
