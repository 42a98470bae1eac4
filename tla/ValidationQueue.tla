-------------------------- MODULE ValidationQueue --------------------------
(***************************************************************************)
(* The background queue of validation callbacks and the list of their      *)
(* subscribers: AddToProcessQueue and ProcessQueue of                      *)
(* SingleThreadedSchedulerClient on top of the threads of CScheduler, and  *)
(* Register, Unregister and Iterate of MainSignalsInstance, down to        *)
(* FlushBackgroundCallbacks at shutdown.                                   *)
(*                                                                         *)
(* Every section under one lock is an action: m_cs_callbacks_pending,      *)
(* newTaskMutex or m_mutex.  The subscriber's own callback runs between    *)
(* two sections of Iterate.                                                *)
(***************************************************************************)
EXTENDS Integers, Sequences, FiniteSets

CONSTANTS
    Service,      \* threads in CScheduler::serviceQueue
    Producer,     \* threads that signal events or wait for the queue
    Main,         \* the thread that runs Shutdown
    Subscriber,   \* CValidationInterface objects
    NoEvent,
    MaxSignals, MaxRequests, MaxEntries  \* bounds on what producers and subscribers ask for

ASSUME ThreadAssumption ==
    /\ IsFiniteSet(Service) /\ IsFiniteSet(Producer)
    /\ Service \cap Producer = {} /\ Main \notin Service \cup Producer

ASSUME BoundAssumption == MaxSignals \in Nat /\ MaxEntries \in Nat

Thread == Service \cup Producer \cup {Main}

\* A queued function: the n-th signal, or the one that fulfils the promise of a
\* thread in SyncWithValidationInterfaceQueue.  A checked event is not queued.
Signal  == [kind : {"signal"}, n : 1..MaxSignals]
Sync    == [kind : {"sync"}, by : Producer]
Checked == [kind |-> "checked"]
Event   == Signal \cup Sync \cup {Checked}

ASSUME NoEventAssumption == NoEvent \notin Event

VARIABLES
    taskQueue,                \* ProcessQueue tasks in CScheduler::taskQueue
    stopRequested,
    m_callbacks_pending, m_are_callbacks_running,
    m_list,                   \* identity of an entry -> the subscriber, count
    m_map,                    \* subscriber -> identity of its entry, 0 if none
    pc, event, it,            \* of each thread: place, function, entry it calls
    synced,                   \* producers whose promise is fulfilled
    received,                 \* entry -> the signals it was called with
    signals, requests, entries   \* how many there were

queueVars  == <<taskQueue, stopRequested, m_callbacks_pending, m_are_callbacks_running>>
listVars   == <<m_list, m_map, received, entries>>
countVars  == <<signals, requests>>
vars == <<queueVars, listVars, countVars, pc, event, it, synced>>

Init ==
    /\ taskQueue = 0 /\ stopRequested = FALSE
    /\ m_callbacks_pending = <<>> /\ m_are_callbacks_running = FALSE
    /\ m_list = [e \in {} |-> 0] /\ m_map = [s \in Subscriber |-> 0]
    /\ pc = [t \in Thread |-> "idle"] /\ event = [t \in Thread |-> NoEvent]
    /\ it = [t \in Thread |-> 0]
    /\ synced = {} /\ received = [e \in 1..MaxEntries |-> <<>>]
    /\ signals = 0 /\ requests = 0 /\ entries = 0

Goto(t, p) == pc' = [pc EXCEPT ![t] = p]

\* A thread forgets its function when it is through with it.
GotoAndForget(t, p) ==
    /\ Goto(t, p)
    /\ event' = IF p = "idle" THEN [event EXCEPT ![t] = NoEvent] ELSE event

-----------------------------------------------------------------------------
(* The subscribers *)

\* A thread that works for the validation interface may still be started.
Alive == pc[Main] = "idle"

\* A new entry goes to the end of m_list.  Identities are given in this order, so
\* that the order of the list is the order of the identities.
Register(s) ==
    /\ Alive /\ m_map[s] = 0 /\ entries < MaxEntries
    /\ entries' = entries + 1
    /\ m_list' = [e \in DOMAIN m_list \cup {entries + 1} |->
                     IF e = entries + 1 THEN [callbacks |-> s, count |-> 1] ELSE m_list[e]]
    /\ m_map' = [m_map EXCEPT ![s] = entries + 1]
    /\ UNCHANGED <<queueVars, countVars, pc, event, it, synced, received>>

\* Faulty: the entry is erased although a callback is running on it.
Release_Always(list, id) == [e \in DOMAIN list \ {id} |-> list[e]]

\* The list with one reference to entry id less; an entry nobody refers to goes.
Release(list, id) ==
    IF list[id].count = 1 THEN [e \in DOMAIN list \ {id} |-> list[e]]
    ELSE [list EXCEPT ![id].count = @ - 1]

Unregister(s) ==
    /\ Alive /\ m_map[s] # 0
    /\ m_list' = Release(m_list, m_map[s])
    /\ m_map' = [m_map EXCEPT ![s] = 0]
    /\ UNCHANGED <<queueVars, countVars, pc, event, it, synced, received, entries>>

\* Thread t of Iterate, holding m_mutex, has the entries `rest' of the list before it:
\* it takes a reference to the first and calls the subscriber, or has come to the end.
Visit(t, list, rest, end) ==
    \/ /\ rest = {}
       /\ m_list' = list /\ it' = [it EXCEPT ![t] = 0]
       /\ GotoAndForget(t, end) /\ UNCHANGED received
    \/ \E e \in rest :
       /\ \A d \in rest : e <= d
       /\ m_list' = [list EXCEPT ![e].count = @ + 1]
       /\ it' = [it EXCEPT ![t] = e]
       /\ GotoAndForget(t, "calling")
       /\ received' = IF event[t] \in Signal
                      THEN [received EXCEPT ![e] = Append(@, event[t].n)] ELSE received

AfterIterate(t) == IF event[t] = Checked THEN "idle" ELSE "finish"

BeginIterate(t) ==
    /\ pc[t] = "iterate"
    /\ Visit(t, m_list, DOMAIN m_list, AfterIterate(t))
    /\ UNCHANGED <<queueVars, countVars, synced, m_map, entries>>

\* The entries behind entry id.
Behind(id) == {e \in DOMAIN m_list : e > id}

\* The subscriber's callback returns and Iterate has the mutex again.
CallbackReturns(t) ==
    /\ pc[t] = "calling"
    /\ Visit(t, Release(m_list, it[t]), Behind(it[t]), AfterIterate(t))
    /\ UNCHANGED <<queueVars, countVars, synced, m_map, entries>>

-----------------------------------------------------------------------------
(* Adding to the queue *)

\* The first section of AddToProcessQueue.
AddToProcessQueue(t, f) ==
    /\ m_callbacks_pending' = Append(m_callbacks_pending, f)
    /\ Goto(t, "check")
    /\ event' = [event EXCEPT ![t] = f]

\* BlockConnected and the other queued signals.  They are sent under cs_main,
\* so no two threads are sending at once.
SendSignal(p) ==
    /\ Alive /\ pc[p] = "idle" /\ signals < MaxSignals /\ requests < MaxRequests
    /\ \A q \in Producer : pc[q] \in {"check", "schedule"} => event[q] \notin Signal
    /\ AddToProcessQueue(p, [kind |-> "signal", n |-> signals + 1])
    /\ signals' = signals + 1 /\ requests' = requests + 1
    /\ UNCHANGED <<taskQueue, stopRequested, m_are_callbacks_running, listVars, it,
                   synced>>

\* SyncWithValidationInterfaceQueue.
SyncWithQueue(p) ==
    /\ Alive /\ pc[p] = "idle" /\ requests < MaxRequests
    /\ AddToProcessQueue(p, [kind |-> "sync", by |-> p])
    /\ requests' = requests + 1
    /\ UNCHANGED <<taskQueue, stopRequested, m_are_callbacks_running, listVars, it,
                   synced, signals>>

\* The promise is fulfilled.
SyncReturns(p) ==
    /\ pc[p] = "waiting" /\ p \in synced
    /\ GotoAndForget(p, "idle")
    /\ synced' = synced \ {p}
    /\ UNCHANGED <<queueVars, listVars, signals, requests, it>>

\* BlockChecked and NewPoWValidBlock iterate in the thread that sends them.
SendChecked(p) ==
    /\ Alive /\ pc[p] = "idle" /\ requests < MaxRequests
    /\ Goto(p, "iterate")
    /\ event' = [event EXCEPT ![p] = Checked]
    /\ requests' = requests + 1
    /\ UNCHANGED <<queueVars, listVars, it, synced, signals>>

\* Where MaybeScheduleProcessQueue returns to.  On the main thread that is the
\* loop of EmptyQueue.
Caller(t) ==
    IF t \in Producer /\ event[t] \in Sync THEN "waiting"
    ELSE IF t = Main THEN "empty" ELSE "idle"

\* MaybeScheduleProcessQueue: the section that decides ...
MustSchedule == ~m_are_callbacks_running /\ m_callbacks_pending # <<>>

MaybeSchedule(t) ==
    /\ pc[t] = "check"
    /\ GotoAndForget(t, IF MustSchedule THEN "schedule" ELSE Caller(t))
    /\ UNCHANGED <<queueVars, listVars, countVars, it, synced>>

\* ... and CScheduler::schedule.
Schedule(t) ==
    /\ pc[t] = "schedule"
    /\ taskQueue' = taskQueue + 1
    /\ GotoAndForget(t, Caller(t))
    /\ UNCHANGED <<stopRequested, m_callbacks_pending, m_are_callbacks_running, listVars,
                   countVars, it, synced>>

-----------------------------------------------------------------------------
(* Running the queue *)

\* serviceQueue takes a task.
ServiceTask(t) ==
    /\ pc[t] = "idle" /\ taskQueue > 0 /\ ~stopRequested
    /\ taskQueue' = taskQueue - 1
    /\ Goto(t, "process")
    /\ UNCHANGED <<stopRequested, m_callbacks_pending, m_are_callbacks_running, listVars,
                   countVars, event, it, synced>>

\* Faulty: a function is taken while another one runs.
MayProcess_Nonempty == m_callbacks_pending # <<>>

\* The first section of ProcessQueue returns at once, or takes a function.
MayProcess == ~m_are_callbacks_running /\ m_callbacks_pending # <<>>

ProcessQueue(t) ==
    /\ pc[t] = "process"
    /\ IF MayProcess
       THEN /\ m_are_callbacks_running' = TRUE
            /\ m_callbacks_pending' = Tail(m_callbacks_pending)
            /\ event' = [event EXCEPT ![t] = Head(m_callbacks_pending)]
            /\ Goto(t, IF Head(m_callbacks_pending) \in Signal THEN "iterate" ELSE "fulfil")
       ELSE /\ Goto(t, IF t = Main THEN "empty" ELSE "idle")
            /\ UNCHANGED <<m_are_callbacks_running, m_callbacks_pending, event>>
    /\ UNCHANGED <<taskQueue, stopRequested, listVars, countVars, it, synced>>

\* promise.set_value().
Fulfil(t) ==
    /\ pc[t] = "fulfil"
    /\ synced' = synced \cup {event[t].by}
    /\ Goto(t, "finish")
    /\ UNCHANGED <<queueVars, listVars, countVars, event, it>>

\* Faulty: MaybeScheduleProcessQueue is not called when a callback is over.
FinishCallback_NoSchedule(t) ==
    /\ pc[t] = "finish"
    /\ m_are_callbacks_running' = FALSE
    /\ Goto(t, IF t = Main THEN "empty" ELSE "idle")
    /\ event' = [event EXCEPT ![t] = NoEvent]
    /\ UNCHANGED <<taskQueue, stopRequested, m_callbacks_pending, listVars, countVars, it,
                   synced>>

\* ~RAIICallbacksRunning, which goes on to MaybeScheduleProcessQueue.
FinishCallback(t) ==
    /\ pc[t] = "finish"
    /\ m_are_callbacks_running' = FALSE
    /\ Goto(t, "check")
    /\ event' = [event EXCEPT ![t] = NoEvent]
    /\ UNCHANGED <<taskQueue, stopRequested, m_callbacks_pending, listVars, countVars, it,
                   synced>>

-----------------------------------------------------------------------------
(* Shutdown *)

\* scheduler->stop(); the threads that produce events are joined after it.
StopScheduler ==
    /\ pc[Main] = "idle" /\ ~stopRequested
    /\ stopRequested' = TRUE
    /\ UNCHANGED <<taskQueue, m_callbacks_pending, m_are_callbacks_running, listVars,
                   countVars, pc, event, it, synced>>

\* All other threads are joined: FlushBackgroundCallbacks.
FlushBackgroundCallbacks ==
    /\ pc[Main] = "idle" /\ stopRequested
    /\ \A t \in Service \cup Producer : pc[t] = "idle"
    /\ Goto(Main, "process")
    /\ UNCHANGED <<queueVars, listVars, countVars, event, it, synced>>

\* Faulty: one function is thought to be all.
EmptyQueue_Once ==
    /\ pc[Main] = "empty"
    /\ Goto(Main, "flushed")
    /\ UNCHANGED <<queueVars, listVars, countVars, event, it, synced>>

\* The loop condition of EmptyQueue.
EmptyQueue ==
    /\ pc[Main] = "empty"
    /\ Goto(Main, IF m_callbacks_pending # <<>> THEN "process" ELSE "flushed")
    /\ UNCHANGED <<queueVars, listVars, countVars, event, it, synced>>

-----------------------------------------------------------------------------
Step(t) ==
    \/ BeginIterate(t) \/ CallbackReturns(t) \/ MaybeSchedule(t) \/ Schedule(t)
    \/ ProcessQueue(t) \/ Fulfil(t) \/ FinishCallback(t)

Next ==
    \/ \E s \in Subscriber : Register(s) \/ Unregister(s)
    \/ \E p \in Producer : SendSignal(p) \/ SyncWithQueue(p) \/ SyncReturns(p) \/ SendChecked(p)
    \/ \E t \in Service : ServiceTask(t)
    \/ \E t \in Thread : Step(t)
    \/ StopScheduler \/ FlushBackgroundCallbacks \/ EmptyQueue

\* Threads that can run do run, subscribers return from their callbacks, and a
\* shutdown that has begun goes on.
Fairness ==
    /\ \A t \in Thread : WF_vars(Step(t))
    /\ \A t \in Service : WF_vars(ServiceTask(t))
    /\ \A p \in Producer : WF_vars(SyncReturns(p))
    /\ WF_vars(FlushBackgroundCallbacks) /\ WF_vars(EmptyQueue)

Spec == Init /\ [][Next]_vars /\ Fairness

-----------------------------------------------------------------------------
(* Properties *)

\* The types of the scheduler's queue and of MainSignalsInstance; an entry of m_list goes
\* when its count drops to zero.
TypeOK ==
    /\ taskQueue \in Nat /\ stopRequested \in BOOLEAN
    /\ m_callbacks_pending \in Seq(Signal \cup Sync)
    /\ m_are_callbacks_running \in BOOLEAN
    /\ DOMAIN m_list \subseteq 1..MaxEntries
    /\ m_list \in [DOMAIN m_list ->
                      [callbacks : Subscriber, count : 1..Cardinality(Thread) + 1]]
    /\ m_map \in [Subscriber -> 0..MaxEntries]
    /\ event \in [Thread -> Event \cup {NoEvent}] /\ it \in [Thread -> 0..MaxEntries]
    /\ synced \subseteq Producer

\* The comment on ListEntry: an entry's count is the number of its current
\* executions, plus one if it is registered; and the entry a thread is calling
\* is in the list, so that the iterator is still valid when the call returns.  The
\* queue and the list are well typed throughout.
CountExact ==
    /\ TypeOK
    /\ \A e \in DOMAIN m_list :
          m_list[e].count = Cardinality({t \in Thread : it[t] = e})
                              + IF m_map[m_list[e].callbacks] = e THEN 1 ELSE 0
    /\ \A t \in Thread : it[t] # 0 => it[t] \in DOMAIN m_list

\* A subscriber gets the signals in the order they were sent and, from the first
\* one it gets to the last, gets every one of them exactly once, whatever other
\* subscribers come and go meanwhile.
ReceivedWithoutGap ==
    \A e \in 1..MaxEntries : \A i \in 2..Len(received[e]) :
        received[e][i] = received[e][i - 1] + 1

\* SingleThreadedSchedulerClient: the functions run serially in the order they
\* were added, although several tasks may be scheduled for them and several
\* threads serve the scheduler.
Running ==
    IF \E t \in Service \cup {Main} : pc[t] \in {"iterate", "calling", "fulfil", "finish"}
    THEN event[CHOOSE t \in Service \cup {Main} :
                   pc[t] \in {"iterate", "calling", "fulfil", "finish"}]
    ELSE NoEvent

Serial == INSTANCE CallbackQueue WITH
    Callback <- Signal \cup Sync, NoCallback <- NoEvent,
    pending <- m_callbacks_pending, running <- Running

ImplementsCallbackQueue == Serial!Spec

\* The queue never goes to sleep on pending functions: as long as the scheduler
\* is not stopped they all run, so a thread that syncs with the queue goes on.
QueueDrains ==
    m_callbacks_pending # <<>> \/ (\E p \in Producer : pc[p] = "waiting")
        ~> \/ stopRequested
           \/ m_callbacks_pending = <<>> /\ \A p \in Producer : pc[p] # "waiting"

\* Shutdown delivers what is left in the queue when the scheduler has stopped,
\* unless a thread that it must join is waiting for the queue at that moment.
FlushedAtShutdown ==
    stopRequested ~> \/ pc[Main] = "flushed" /\ m_callbacks_pending = <<>>
                     \/ \E p \in Producer : pc[p] = "waiting"
=============================================================================
