----------------------------- MODULE CheckQueue -----------------------------
(***************************************************************************)
(* The queue of script checks: ConnectBlock hands the checks of a block to *)
(* CCheckQueue through a CCheckQueueControl, joins the worker threads with *)
(* Wait and takes their common verdict.                                    *)
(*                                                                         *)
(* A section under the queue's mutex is one action.  A thread asleep on a  *)
(* condition variable wakes when it is notified or for no reason at all,   *)
(* and takes the mutex again in a step of its own.  A check is the boolean *)
(* it will return.                                                         *)
(***************************************************************************)
EXTENDS Integers, Sequences, FiniteSets, FiniteSetsExt

CONSTANTS
    Worker,       \* the threads that run Thread()
    Controller,   \* the threads that hold a CCheckQueueControl, one at a time
    NoThread,
    Batch,        \* the argument of Add: the checks of one transaction
    nBatchSize,
    MaxSessions,  \* bound on the number of CCheckQueueControl objects
    MaxAdds       \* bound on the transactions of one block

ASSUME ThreadAssumption ==
    /\ IsFiniteSet(Worker) /\ IsFiniteSet(Controller)
    /\ Worker \cap Controller = {} /\ NoThread \notin Worker \cup Controller
    /\ Batch \subseteq Seq(BOOLEAN)
    /\ nBatchSize \in Nat \ {0}

Thread == Worker \cup Controller

VARIABLES
    queue, nIdle, nTotal, fAllOk, nTodo,  \* the members of CCheckQueue
    ControlMutex,                         \* its holder
    pc,        \* where each thread is
    vChecks, nNow, fOk,                   \* the locals of Loop
    fRet,      \* what the last Wait of each controller returned
    added,     \* every check of the current session
    sessions, adds

vars == <<queue, nIdle, nTotal, fAllOk, nTodo, ControlMutex, pc, vChecks, nNow,
          fOk, fRet, added, sessions, adds>>

Init ==
    /\ queue = <<>> /\ nIdle = 0 /\ nTotal = 0 /\ fAllOk = TRUE /\ nTodo = 0
    /\ ControlMutex = NoThread
    /\ pc = [t \in Thread |-> IF t \in Worker THEN "enter" ELSE "outside"]
    /\ vChecks = [t \in Thread |-> <<>>] /\ nNow = [t \in Thread |-> 0]
    /\ fOk = [t \in Thread |-> TRUE]
    /\ fRet = [m \in Controller |-> TRUE]
    /\ added = <<>> /\ sessions = 0 /\ adds = 0

Asleep(T) == {t \in T : pc[t] = "asleep"}

-----------------------------------------------------------------------------
(* The controlling thread *)

\* CCheckQueueControl control(&scriptcheckqueue).
OpenControl(m) ==
    /\ pc[m] = "outside" /\ ControlMutex = NoThread /\ sessions < MaxSessions
    /\ ControlMutex' = m
    /\ pc' = [pc EXCEPT ![m] = "adding"]
    /\ added' = <<>> /\ adds' = 0 /\ sessions' = sessions + 1
    /\ UNCHANGED <<queue, nIdle, nTotal, fAllOk, nTodo, vChecks, nNow, fOk, fRet>>

\* Faulty: a single check is left to whoever is awake.
NotifyWorkers_ManyOnly(n) == IF n > 1 THEN {Asleep(Worker)} ELSE {{}}

\* The sleeping workers that condWorker's notification for n checks may wake.
NotifyWorkers(n) ==
    CASE n = 0 \/ Asleep(Worker) = {} -> {{}}
      [] n = 1 /\ Asleep(Worker) # {} -> {{w} : w \in Asleep(Worker)}
      [] OTHER                        -> {Asleep(Worker)}

Add(m, batch) ==
    /\ pc[m] = "adding" /\ adds < MaxAdds
    /\ queue' = queue \o batch
    /\ nTodo' = nTodo + Len(batch)
    /\ \E W \in NotifyWorkers(Len(batch)) :
          pc' = [t \in Thread |-> IF t \in W THEN "woken" ELSE pc[t]]
    /\ added' = added \o batch /\ adds' = adds + 1
    /\ UNCHANGED <<nIdle, nTotal, fAllOk, ControlMutex, vChecks, nNow, fOk, fRet,
                   sessions>>

\* Wait, called at the end of the block or by the destructor when ConnectBlock
\* returns before: the controller enters Loop(true).
Wait(m) ==
    /\ pc[m] = "adding"
    /\ pc' = [pc EXCEPT ![m] = "enter"]
    /\ UNCHANGED <<queue, nIdle, nTotal, fAllOk, nTodo, ControlMutex, vChecks, nNow,
                   fOk, fRet, added, sessions, adds>>

\* The end of the destructor.
CloseControl(m) ==
    /\ pc[m] = "returned"
    /\ ControlMutex' = NoThread
    /\ pc' = [pc EXCEPT ![m] = "outside"]
    /\ UNCHANGED <<queue, nIdle, nTotal, fAllOk, nTodo, vChecks, nNow, fOk, fRet,
                   added, sessions, adds>>

-----------------------------------------------------------------------------
(* Loop *)

\* Faulty: a failed batch is only remembered when it was the last one.
Settled_LastVerdict(t) ==
    LET done == pc[t] = "done"
    IN  [idle  |-> IF pc[t] = "woken" THEN nIdle - 1 ELSE nIdle,
         total |-> IF pc[t] = "enter" THEN nTotal + 1 ELSE nTotal,
         ok    |-> IF done THEN fOk[t] ELSE fAllOk,
         todo  |-> IF done THEN nTodo - nNow[t] ELSE nTodo]

\* The members after the first part of the section that thread t enters: the
\* clean-up of the batch it has done, its first arrival, or its waking up.
Settled(t) ==
    LET done == pc[t] = "done"
    IN  [idle  |-> IF pc[t] = "woken" THEN nIdle - 1 ELSE nIdle,
         total |-> IF pc[t] = "enter" THEN nTotal + 1 ELSE nTotal,
         ok    |-> fAllOk /\ (done => fOk[t]),
         todo  |-> IF done THEN nTodo - nNow[t] ELSE nTodo]

\* Faulty: no notification.
NotifyMaster_Never(t) == {}

\* The controllers that the worker which did the last check wakes up.
NotifyMaster(t) ==
    IF pc[t] = "done" /\ t \in Worker /\ Settled(t).todo = 0
    THEN Asleep(Controller) ELSE {}

\* Thread t leaves its section for place p; whom it notifies wakes up.
Leave(t, p) ==
    pc' = [u \in Thread |-> IF u = t THEN p
                            ELSE IF u \in NotifyMaster(t) THEN "woken" ELSE pc[u]]

InSection(t) == pc[t] \in {"enter", "done", "woken"}

MayReturn(t) == t \in Controller /\ Settled(t).todo = 0

\* The queue is empty and there is nothing to return: wait.
Sleep(t) ==
    /\ InSection(t) /\ queue = <<>> /\ ~MayReturn(t)
    /\ nIdle' = Settled(t).idle + 1 /\ nTotal' = Settled(t).total
    /\ fAllOk' = Settled(t).ok /\ nTodo' = Settled(t).todo
    /\ Leave(t, "asleep")
    /\ UNCHANGED <<queue, ControlMutex, vChecks, nNow, fOk, fRet, added, sessions,
                   adds>>

\* Nothing is left anywhere: the controller takes the verdict and resets it.
\* Its locals go with its call of Loop.
Return(m) ==
    /\ InSection(m) /\ queue = <<>> /\ MayReturn(m)
    /\ nIdle' = Settled(m).idle /\ nTotal' = Settled(m).total - 1
    /\ fRet' = [fRet EXCEPT ![m] = Settled(m).ok]
    /\ fAllOk' = TRUE /\ nTodo' = Settled(m).todo
    /\ nNow' = [nNow EXCEPT ![m] = 0] /\ fOk' = [fOk EXCEPT ![m] = TRUE]
    /\ Leave(m, "returned")
    /\ UNCHANGED <<queue, ControlMutex, vChecks, added, sessions, adds>>

\* How many checks a thread takes at once.
Share(total, idle) ==
    Max({1, Min({nBatchSize, Len(queue) \div (total + idle + 1)})})

\* Take a batch from the back of the queue.
Take(t) ==
    /\ InSection(t) /\ queue # <<>>
    /\ LET n == Share(Settled(t).total, Settled(t).idle)
       IN  /\ nNow' = [nNow EXCEPT ![t] = n]
           /\ vChecks' = [vChecks EXCEPT
                  ![t] = [i \in 1..n |-> queue[Len(queue) - i + 1]]]
           /\ queue' = SubSeq(queue, 1, Len(queue) - n)
    /\ nIdle' = Settled(t).idle /\ nTotal' = Settled(t).total
    /\ fAllOk' = Settled(t).ok /\ nTodo' = Settled(t).todo
    /\ fOk' = [fOk EXCEPT ![t] = Settled(t).ok]
    /\ Leave(t, "working")
    /\ UNCHANGED <<ControlMutex, fRet, added, sessions, adds>>

\* Run the batch without the mutex; after a failure the rest is skipped.
Work(t) ==
    /\ pc[t] = "working"
    /\ fOk' = [fOk EXCEPT ![t] = @ /\ \A i \in DOMAIN vChecks[t] : vChecks[t][i]]
    /\ vChecks' = [vChecks EXCEPT ![t] = <<>>]
    /\ pc' = [pc EXCEPT ![t] = "done"]
    /\ UNCHANGED <<queue, nIdle, nTotal, fAllOk, nTodo, ControlMutex, nNow, fRet,
                   added, sessions, adds>>

\* A condition variable may wake a thread without a notification.
SpuriousWakeup(t) ==
    /\ pc[t] = "asleep"
    /\ pc' = [pc EXCEPT ![t] = "woken"]
    /\ UNCHANGED <<queue, nIdle, nTotal, fAllOk, nTodo, ControlMutex, vChecks, nNow,
                   fOk, fRet, added, sessions, adds>>

LoopStep(t) == Sleep(t) \/ Take(t) \/ Work(t) \/ (t \in Controller /\ Return(t))

ControlStep(m) ==
    \/ OpenControl(m) \/ Wait(m) \/ CloseControl(m)
    \/ \E batch \in Batch : Add(m, batch)

Next ==
    \/ \E t \in Thread : LoopStep(t) \/ SpuriousWakeup(t)
    \/ \E m \in Controller : ControlStep(m)

\* The operating system runs every thread that can run, and ConnectBlock comes
\* to the end of its block.
Fairness ==
    /\ \A t \in Thread : WF_vars(LoopStep(t))
    /\ \A m \in Controller : WF_vars(Wait(m)) /\ WF_vars(CloseControl(m))

Spec == Init /\ [][Next]_vars /\ Fairness

-----------------------------------------------------------------------------
(* Properties *)

\* The types of CCheckQueue's members and of the threads' locals; nIdle and nTotal never
\* count more threads than the workers and the one master.
TypeOK ==
    /\ queue \in Seq(BOOLEAN) /\ fAllOk \in BOOLEAN
    /\ nIdle \in 0..Cardinality(Thread) /\ nTotal \in 0..Cardinality(Worker) + 1
    /\ nTodo \in Nat
    /\ ControlMutex \in Controller \cup {NoThread}
    /\ pc \in [Thread -> {"outside", "adding", "enter", "asleep", "woken", "working",
                          "done", "returned"}]
    /\ vChecks \in [Thread -> Seq(BOOLEAN)] /\ nNow \in [Thread -> 0..nBatchSize]
    /\ fOk \in [Thread -> BOOLEAN] /\ fRet \in [Controller -> BOOLEAN]

\* What Wait returns is the conjunction of the results of exactly the checks
\* added since the control was opened: no failure is lost between threads, and
\* none is left over for the next block.  And the control "guarantees the passed
\* queue is finished before continuing": once Wait has returned, no check is queued
\* and no worker holds one, for the checks point into data of the block being
\* connected.  The queue's members are well typed throughout.
VerdictExact ==
    /\ TypeOK
    /\ \A m \in Controller :
          pc[m] = "returned" => fRet[m] = (\A i \in DOMAIN added : added[i])
    /\ (\A m \in Controller : pc[m] \in {"outside", "returned"})
          => queue = <<>> /\ nTodo = 0 /\ \A t \in Thread : vChecks[t] = <<>>

\* Queued checks never wait for the controller to call Wait: as long as there
\* are any, some worker is awake to take them.
WorkersAwake == queue # <<>> /\ Worker # {} => Asleep(Worker) # Worker

\* Wait always comes back, whichever notifications fall together and whatever
\* the checks return.
WaitReturns == \A m \in Controller : pc[m] = "enter" ~> pc[m] = "returned"
=============================================================================
