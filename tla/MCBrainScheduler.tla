-------------------------- MODULE MCBrainScheduler --------------------------
(* Values for the constants of BrainScheduler. *)
EXTENDS BrainScheduler, TLC

CONSTANTS p1, p2, i1, i2

\* Two keys for classification tasks, the others for ingest tasks.
MCPrio == [k \in Keys |-> IF k \in {p1, p2} THEN 1 ELSE 2]
MCTTL == [q \in {1, 2} |-> 0]
=============================================================================
