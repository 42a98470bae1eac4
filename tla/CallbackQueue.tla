--------------------------- MODULE CallbackQueue ---------------------------
(***************************************************************************)
(* What SingleThreadedSchedulerClient promises: the callbacks that were    *)
(* added run one at a time, in the order they were added, each of them     *)
(* once.                                                                   *)
(***************************************************************************)
EXTENDS Sequences

CONSTANTS Callback, NoCallback

VARIABLES
    pending,   \* added and not begun
    running    \* the one that runs

Init == pending = <<>> /\ running = NoCallback

\* AddToProcessQueue.
Enqueue(f) ==
    /\ pending' = Append(pending, f)
    /\ UNCHANGED running

Begin ==
    /\ running = NoCallback /\ pending # <<>>
    /\ running' = Head(pending) /\ pending' = Tail(pending)

Finish ==
    /\ running # NoCallback
    /\ running' = NoCallback
    /\ UNCHANGED pending

Next == (\E f \in Callback : Enqueue(f)) \/ Begin \/ Finish

vars == <<pending, running>>

Spec == Init /\ [][Next]_vars
=============================================================================
