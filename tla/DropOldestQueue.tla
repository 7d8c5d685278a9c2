---------------------------- MODULE DropOldestQueue ----------------------------
(***************************************************************************)
(* What the users of the pulse ring buffer may rely on: a queue of at most *)
(* Cap events that gives up its oldest event when a new one finds it full, *)
(* and that is emptied all at once, oldest event first.                    *)
(***************************************************************************)
EXTENDS Naturals, Sequences

CONSTANTS Events, Cap

VARIABLES
    queue,     \* the events held, oldest first
    drained    \* the batch taken out last

Init ==
    /\ queue = <<>>
    /\ drained = <<>>

\* The queue with e at its end, without its oldest event if it was full.
With(e) == Append(IF Len(queue) = Cap THEN Tail(queue) ELSE queue, e)

Put(e) ==
    /\ queue' = With(e)
    /\ UNCHANGED drained

TakeAll ==
    /\ queue # <<>>
    /\ drained' = queue
    /\ queue' = <<>>

\* A put that fills the queue far enough takes everything in the same step.
PutAndTakeAll(e) ==
    /\ drained' = With(e)
    /\ queue' = <<>>

Next ==
    \/ \E e \in Events : Put(e) \/ PutAndTakeAll(e)
    \/ TakeAll

Spec == Init /\ [][Next]_<<queue, drained>>
=============================================================================
