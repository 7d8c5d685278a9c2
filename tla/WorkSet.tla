-------------------------------- MODULE WorkSet --------------------------------
(***************************************************************************)
(* What those who Submit background work may rely on: of each key at most  *)
(* one piece of work waits, the last one taken; a piece waits, runs or is  *)
(* gone, and once it left it never comes back; a full set gives up work of *)
(* low priority only; what is handed out runs urgent work first, and work  *)
(* of one priority in the order of its submission.                         *)
(***************************************************************************)
EXTENDS Naturals, FiniteSets

CONSTANTS
    Keys,
    Prio,       \* key -> 1 (urgent) or 2
    Capacity,   \* pieces that may wait
    Ids         \* the numbers of the submissions

VARIABLES
    waiting,    \* the pieces of work that wait
    running,    \* those handed out that have not ended
    offered     \* the submissions so far: taken or turned away

Init ==
    /\ waiting = {}
    /\ running = {}
    /\ offered = {}

Ahead(v, w) ==
    \/ Prio[v.key] < Prio[w.key]
    \/ Prio[v.key] = Prio[w.key] /\ v.id < w.id

Same(k) == {w \in waiting : w.key = k}
HasRoom == Cardinality(waiting) < Capacity

Replace(gone, k, id) ==
    waiting' = (waiting \ gone) \cup {[key |-> k, id |-> id]}

\* A submission takes the place of the work with its key, or a free place, or the
\* place of low-priority work.
Take(k, id) ==
    \/ Same(k) # {} /\ Replace(Same(k), k, id)
    \/ Same(k) = {} /\ HasRoom /\ Replace({}, k, id)
    \/ /\ Same(k) = {} /\ ~HasRoom
       /\ \E w \in waiting : Prio[w.key] = 2 /\ Replace({w}, k, id)

\* It is turned away only where everything that waits is urgent.
TurnAway(k) ==
    /\ Same(k) = {} /\ ~HasRoom
    /\ \A w \in waiting : Prio[w.key] = 1
    /\ UNCHANGED waiting

Offer(k, id) ==
    /\ id \notin offered
    /\ offered' = offered \cup {id}
    /\ Take(k, id) \/ TurnAway(k)
    /\ UNCHANGED running

\* With nothing running, a batch is handed out; others that wait may be given up.
Hand ==
    /\ running = {}
    /\ running' \in SUBSET waiting
    /\ waiting' \in SUBSET (waiting \ running')
    /\ UNCHANGED offered

\* The first of the batch ends.
Finish ==
    \E w \in running :
        /\ \A v \in running \ {w} : Ahead(w, v)
        /\ running' = running \ {w}
        /\ UNCHANGED <<waiting, offered>>

Next ==
    \/ \E k \in Keys, id \in Ids : Offer(k, id)
    \/ Hand
    \/ Finish

Spec == Init /\ [][Next]_<<waiting, running, offered>>
=============================================================================
