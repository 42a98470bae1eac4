----------------------- MODULE ValidationQueueProofs -----------------------
(***************************************************************************)
(* Proofs about ValidationQueue, for any number of scheduler threads,      *)
(* producers and subscribers and any bounds: the queue is serial and in    *)
(* order, the reference counts are exact, and no subscriber misses a       *)
(* signal between two that it gets.                                        *)
(*                                                                         *)
(* The invariant comes in three layers, each of which uses the ones        *)
(* before: Roles, References and Delivery.                                 *)
(***************************************************************************)
EXTENDS ValidationQueue, FiniteSetTheorems, TLAPS

-----------------------------------------------------------------------------
(* The invariant *)

\* The threads that run callbacks, and where they are while they do.
Server == Service \cup {Main}

InCallback == {"iterate", "calling", "fulfil", "finish"}

Places == InCallback \cup {"idle", "check", "schedule", "waiting", "process", "empty",
                           "flushed"}

Entry == [callbacks : Subscriber, count : Nat \ {0}]

IsList(l) == DOMAIN l \subseteq 1..entries /\ l \in [DOMAIN l -> Entry]

Types ==
    /\ taskQueue \in Nat /\ stopRequested \in BOOLEAN
    /\ m_callbacks_pending \in Seq(Signal \cup Sync) /\ m_are_callbacks_running \in BOOLEAN
    /\ entries \in 0..MaxEntries /\ signals \in 0..MaxSignals
    /\ IsList(m_list) /\ m_map \in [Subscriber -> 0..entries]
    /\ received \in [1..MaxEntries -> Seq(Nat)]
    /\ pc \in [Thread -> Places] /\ event \in [Thread -> Event \cup {NoEvent}]
    /\ it \in [Thread -> 0..MaxEntries] /\ synced \subseteq Producer

\* m_are_callbacks_running is the one thread that runs a callback, and each thread is
\* where its kind may be, with a function that belongs there.
Roles ==
    /\ \A p \in Producer : /\ pc[p] \notin {"process", "fulfil", "finish", "empty", "flushed"}
                           /\ pc[p] \in {"iterate", "calling"} => event[p] = Checked
    /\ \A t \in Server : /\ pc[t] \in {"iterate", "calling"} => event[t] \in Signal
                         /\ pc[t] = "fulfil" => event[t] \in Sync
                         /\ pc[t] = "finish" => event[t] \in Signal \cup Sync
    /\ m_are_callbacks_running <=> \E t \in Server : pc[t] \in InCallback
    /\ \A t, u \in Server : pc[t] \in InCallback /\ pc[u] \in InCallback => t = u

\* A thread holds an entry exactly while it calls the subscriber; what is held or
\* registered is in the list, and is counted.
References ==
    /\ \A t \in Thread : /\ it[t] # 0 <=> pc[t] = "calling"
                         /\ it[t] # 0 => it[t] \in DOMAIN m_list
    /\ \A s \in Subscriber :
          m_map[s] # 0 => m_map[s] \in DOMAIN m_list /\ m_list[m_map[s]].callbacks = s
    /\ \A e \in DOMAIN m_list :
          m_list[e].count = Cardinality({t \in Thread : it[t] = e})
                              + IF m_map[m_list[e].callbacks] = e THEN 1 ELSE 0

Sent(k) == [kind |-> "signal", n |-> k]

IsPending(f) == \E i \in DOMAIN m_callbacks_pending : m_callbacks_pending[i] = f

\* The callback that runs has still to come to entry e.
Ahead(e) == \E t \in Server : \/ pc[t] = "iterate"
                              \/ pc[t] = "calling" /\ it[t] < e

\* d signals have been taken from the queue, the last perhaps still running: the
\* others are in the queue, in order, and every entry of the list that got a signal
\* got d last, or d - 1 if its turn is still to come.
Delivered(d) ==
    /\ \A k \in 1..MaxSignals : IsPending(Sent(k)) <=> d < k /\ k <= signals
    /\ \A t \in Server : pc[t] \in {"iterate", "calling"} => event[t] = Sent(d)
    /\ \A e \in DOMAIN m_list :
          received[e] # <<>> =>
              received[e][Len(received[e])] = IF Ahead(e) THEN d - 1 ELSE d

InOrder ==
    \A i, j \in DOMAIN m_callbacks_pending :
        i < j /\ m_callbacks_pending[i] \in Signal /\ m_callbacks_pending[j] \in Signal
            => m_callbacks_pending[i].n < m_callbacks_pending[j].n

Delivery ==
    /\ InOrder
    /\ \E d \in 0..signals : Delivered(d)
    /\ \A e \in 1..MaxEntries : e > entries => received[e] = <<>>
    /\ ReceivedWithoutGap

-----------------------------------------------------------------------------
(* The first layer: types and roles *)

\* What the provers know of the queue and of the lists of signals.
LEMMA LengthOf ==
    ASSUME NEW S, NEW q \in Seq(S)
    PROVE  Len(q) \in Nat /\ DOMAIN q = 1..Len(q) /\ (q = <<>> <=> Len(q) = 0)
  OBVIOUS

LEMMA AppendTo ==
    ASSUME NEW S, NEW q \in Seq(S), NEW x \in S
    PROVE  /\ Append(q, x) \in Seq(S) /\ Len(Append(q, x)) = Len(q) + 1
           /\ DOMAIN Append(q, x) = 1..Len(q) + 1
           /\ \A i \in 1..Len(q) : Append(q, x)[i] = q[i]
           /\ Append(q, x)[Len(q) + 1] = x
  OBVIOUS

LEMMA HeadAndTail ==
    ASSUME NEW S, NEW q \in Seq(S), q # <<>>
    PROVE  /\ Head(q) \in S /\ Head(q) = q[1]
           /\ Tail(q) \in Seq(S) /\ Len(Tail(q)) = Len(q) - 1
           /\ \A i \in 1..Len(q) - 1 : Tail(q)[i] = q[i + 1]
  OBVIOUS

LEMMA Moved ==
    ASSUME Types, NEW t \in Thread, NEW p \in Places, Goto(t, p)
    PROVE  /\ pc' \in [Thread -> Places] /\ pc'[t] = p
           /\ \A u \in Thread \ {t} : pc'[u] = pc[u]
  BY Zenon DEF Types, Goto

LEMMA MovedAndForgot ==
    ASSUME Types, NEW t \in Thread, NEW p \in Places, GotoAndForget(t, p)
    PROVE  /\ pc' \in [Thread -> Places] /\ pc'[t] = p
           /\ \A u \in Thread \ {t} : pc'[u] = pc[u]
           /\ event' \in [Thread -> Event \cup {NoEvent}]
           /\ p # "idle" => event'[t] = event[t]
           /\ \A u \in Thread \ {t} : event'[u] = event[u]
  <1>1. Goto(t, p)
    BY Zenon DEF GotoAndForget
  <1>2. event' \in [Thread -> Event \cup {NoEvent}]
    BY Zenon DEF GotoAndForget, Types
  <1>3. /\ p # "idle" => event'[t] = event[t]
        /\ \A u \in Thread \ {t} : event'[u] = event[u]
    BY Zenon DEF GotoAndForget, Types
  <1> QED  BY <1>1, <1>2, <1>3, Moved, Zenon

\* The functions in the queue are the three kinds of events, told apart by kind.
LEMMA Kinds ==
    /\ \A f \in Signal : f # Checked /\ f \notin Sync /\ f # NoEvent
                         /\ f.n \in 1..MaxSignals /\ f = Sent(f.n)
    /\ \A f \in Sync : f # Checked /\ f # NoEvent /\ f.by \in Producer
  BY NoEventAssumption DEF Signal, Sync, Checked, Sent, Event

\* When one thread moves, the roles are kept if the flag follows it.
LEMMA RolesKept ==
    ASSUME Types, Roles, NEW t \in Thread,
           \A u \in Thread \ {t} : pc'[u] = pc[u] /\ event'[u] = event[u],
           t \in Producer =>
               /\ pc'[t] \notin {"process", "fulfil", "finish", "empty", "flushed"}
               /\ pc'[t] \in {"iterate", "calling"} => event'[t] = Checked,
           t \in Server =>
               /\ pc'[t] \in {"iterate", "calling"} => event'[t] \in Signal
               /\ pc'[t] = "fulfil" => event'[t] \in Sync
               /\ pc'[t] = "finish" => event'[t] \in Signal \cup Sync,
           t \in Server /\ pc'[t] \in InCallback =>
               /\ m_are_callbacks_running'
               /\ m_are_callbacks_running => pc[t] \in InCallback,
           ~(t \in Server /\ pc'[t] \in InCallback) =>
               (m_are_callbacks_running' <=>
                   m_are_callbacks_running /\ ~(t \in Server /\ pc[t] \in InCallback))
    PROVE  Roles'
  <1>1. \A p \in Producer : /\ pc'[p] \notin {"process", "fulfil", "finish", "empty", "flushed"}
                            /\ pc'[p] \in {"iterate", "calling"} => event'[p] = Checked
    BY Zenon DEF Roles, Thread
  <1>2. \A u \in Server : /\ pc'[u] \in {"iterate", "calling"} => event'[u] \in Signal
                          /\ pc'[u] = "fulfil" => event'[u] \in Sync
                          /\ pc'[u] = "finish" => event'[u] \in Signal \cup Sync
    BY Zenon DEF Roles, Thread, Server
  <1>3. \A u, v \in Server : pc'[u] \in InCallback /\ pc'[v] \in InCallback => u = v
    BY Zenon DEF Roles, Thread, Server
  <1>4. m_are_callbacks_running' <=> \E u \in Server : pc'[u] \in InCallback
    BY Zenon DEF Roles, Thread, Server
  <1> QED  BY <1>1, <1>2, <1>3, <1>4, Zenon DEF Roles

\* A list with entry e counted as c.
Recount(l, e, c) == [l EXCEPT ![e].count = c]

LEMMA Recounted ==
    ASSUME NEW l, IsList(l), NEW e \in DOMAIN l, NEW c \in Nat \ {0}
    PROVE  /\ DOMAIN Recount(l, e, c) = DOMAIN l /\ IsList(Recount(l, e, c))
           /\ \A d \in DOMAIN l :
                 /\ Recount(l, e, c)[d].callbacks = l[d].callbacks
                 /\ Recount(l, e, c)[d].count = IF d = e THEN c ELSE l[d].count
  <1>1. l \in [DOMAIN l -> Entry] /\ l[e] \in Entry
    BY Zenon DEF IsList
  <1>2. [l[e] EXCEPT !.count = c] \in Entry
    BY <1>1, Zenon DEF Entry
  <1>3. /\ [l[e] EXCEPT !.count = c].count = c
        /\ [l[e] EXCEPT !.count = c].callbacks = l[e].callbacks
    BY <1>1, Zenon DEF Entry
  <1>4. Recount(l, e, c) = [d \in DOMAIN l |-> IF d = e THEN [l[e] EXCEPT !.count = c]
                                               ELSE l[d]]
    BY Zenon DEF Recount
  <1>5. DOMAIN Recount(l, e, c) = DOMAIN l /\ Recount(l, e, c) \in [DOMAIN l -> Entry]
    BY <1>1, <1>2, <1>4, Zenon
  <1> QED  BY <1>3, <1>4, <1>5, Zenon DEF IsList

\* List r is list l with one reference to entry id less.
LessOne(l, id, r) ==
    /\ IsList(r)
    /\ DOMAIN r = IF l[id].count = 1 THEN DOMAIN l \ {id} ELSE DOMAIN l
    /\ \A e \in DOMAIN r :
          /\ r[e].callbacks = l[e].callbacks
          /\ r[e].count = IF e = id THEN l[e].count - 1 ELSE l[e].count

LEMMA Released ==
    ASSUME NEW l, IsList(l), NEW id, id \in DOMAIN l
    PROVE  LessOne(l, id, Release(l, id))
  <1>1. l[id].count \in Nat \ {0} /\ l \in [DOMAIN l -> Entry] /\ DOMAIN l \subseteq 1..entries
    BY Zenon DEF IsList, Entry
  <1>2. CASE l[id].count = 1
    <2>1. Release(l, id) = [e \in DOMAIN l \ {id} |-> l[e]]
      BY <1>2, Zenon DEF Release
    <2> QED  BY <1>1, <1>2, <2>1, Zenon DEF IsList, LessOne
  <1>3. CASE l[id].count # 1
    <2> DEFINE c == l[id].count - 1
    <2>1. c \in Nat \ {0}
      BY <1>1, <1>3
    <2>2. Release(l, id) = Recount(l, id, c)
      BY <1>3, Zenon DEF Release, Recount
    <2> HIDE DEF c
    <2>3. /\ DOMAIN Recount(l, id, c) = DOMAIN l /\ IsList(Recount(l, id, c))
          /\ \A d \in DOMAIN l :
                /\ Recount(l, id, c)[d].callbacks = l[d].callbacks
                /\ Recount(l, id, c)[d].count = IF d = id THEN c ELSE l[d].count
      BY <2>1, Recounted
    <2> QED  BY <1>3, <2>2, <2>3, Zenon DEF c, LessOne
  <1> QED  BY <1>2, <1>3, Zenon

\* One stop of Iterate.
LEMMA Visited ==
    ASSUME Types, NEW t \in Thread, NEW l, IsList(l), NEW R \in SUBSET (DOMAIN l),
           NEW end \in Places, Visit(t, l, R, end), UNCHANGED entries
    PROVE  /\ pc' \in [Thread -> Places] /\ pc'[t] \in {"calling", end}
           /\ \A u \in Thread \ {t} : pc'[u] = pc[u]
           /\ event' \in [Thread -> Event \cup {NoEvent}]
           /\ pc'[t] # "idle" => event'[t] = event[t]
           /\ \A u \in Thread \ {t} : event'[u] = event[u]
           /\ it' \in [Thread -> 0..MaxEntries] /\ IsList(m_list)'
           /\ received' \in [1..MaxEntries -> Seq(Nat)]
  <1>1. "calling" \in Places
    BY Zenon DEF Places, InCallback
  <1>2. entries \in 0..MaxEntries /\ it \in [Thread -> 0..MaxEntries]
    BY Zenon DEF Types
  <1>3. CASE R = {}
    <2>1. /\ m_list' = l /\ it' = [it EXCEPT ![t] = 0] /\ GotoAndForget(t, end)
          /\ received' = received
      BY <1>3, Zenon DEF Visit
    <2>2. it' \in [Thread -> 0..MaxEntries]
      BY <1>2, <2>1, BoundAssumption
    <2>3. IsList(m_list)' /\ received' \in [1..MaxEntries -> Seq(Nat)]
      BY <2>1, Zenon DEF IsList, Types
    <2> QED  BY <2>1, <2>2, <2>3, MovedAndForgot, Zenon
  <1>4. CASE R # {}
    <2>1. PICK e \in R :
              /\ m_list' = [l EXCEPT ![e].count = @ + 1]
              /\ it' = [it EXCEPT ![t] = e]
              /\ GotoAndForget(t, "calling")
              /\ received' = IF event[t] \in Signal
                             THEN [received EXCEPT ![e] = Append(@, event[t].n)] ELSE received
      BY <1>4, Zenon DEF Visit
    <2>2. e \in 1..MaxEntries
      BY <1>2, BoundAssumption DEF IsList
    <2>3. it' \in [Thread -> 0..MaxEntries]
      BY <1>2, <2>1, <2>2
    <2>4. IsList(m_list)'
      <3>1. l[e].count + 1 \in Nat \ {0}
        BY DEF IsList, Entry
      <3>2. m_list' = Recount(l, e, l[e].count + 1)
        BY <2>1, Zenon DEF Recount
      <3>3. DOMAIN m_list' = DOMAIN l /\ IsList(m_list')
        BY <3>1, <3>2, Recounted, Zenon
      <3> QED  BY <3>3, Zenon DEF IsList
    <2>5. received' \in [1..MaxEntries -> Seq(Nat)]
      <3>1. received \in [1..MaxEntries -> Seq(Nat)] /\ received[e] \in Seq(Nat)
        BY <2>2, Zenon DEF Types
      <3>2. event[t] \in Signal => event[t].n \in Nat
        BY BoundAssumption, Kinds
      <3>3. event[t] \in Signal => Append(received[e], event[t].n) \in Seq(Nat)
        BY <3>1, <3>2, AppendTo, Zenon
      <3> QED  BY <2>1, <3>1, <3>3, Zenon
    <2> QED  BY <1>1, <2>1, <2>3, <2>4, <2>5, MovedAndForgot, Zenon
  <1> QED  BY <1>3, <1>4, Zenon

Inv == Types /\ Roles /\ References

LEMMA InitInv == Init => Inv
  <1> SUFFICES ASSUME Init PROVE Inv
    BY Zenon
  <1>1. IsList(m_list) /\ DOMAIN m_list = {}
    BY Zenon DEF Init, IsList
  <1>2. Types
    <2>1. <<>> \in Seq(Signal \cup Sync) /\ <<>> \in Seq(Nat)
      BY LengthOf
    <2>2. received \in [1..MaxEntries -> Seq(Nat)] /\ m_callbacks_pending \in Seq(Signal \cup Sync)
      BY <2>1, Zenon DEF Init
    <2>3. /\ pc \in [Thread -> Places] /\ event \in [Thread -> Event \cup {NoEvent}]
          /\ it \in [Thread -> 0..MaxEntries] /\ m_map \in [Subscriber -> 0..entries]
      BY BoundAssumption DEF Init, Places
    <2>4. /\ stopRequested \in BOOLEAN /\ synced \subseteq Producer
          /\ m_are_callbacks_running \in BOOLEAN
      BY Zenon DEF Init
    <2>5. taskQueue \in Nat /\ entries \in 0..MaxEntries /\ signals \in 0..MaxSignals
      BY BoundAssumption DEF Init
    <2> QED  BY <1>1, <2>2, <2>3, <2>4, <2>5, Zenon DEF Types
  <1>3. Roles
    BY Zenon DEF Init, Roles, Thread, Server, InCallback
  <1>4. References
    BY <1>1, Zenon DEF Init, References
  <1> QED  BY <1>2, <1>3, <1>4, Zenon DEF Inv

\* The steps that concern the list of subscribers alone.
LEMMA SubscriberRoles ==
    ASSUME Inv, NEW s \in Subscriber, Register(s) \/ Unregister(s)
    PROVE  Types' /\ Roles'
  <1> USE DEF Inv
  <1>1. /\ UNCHANGED <<taskQueue, stopRequested, m_callbacks_pending, m_are_callbacks_running>>
        /\ UNCHANGED <<signals, pc, event, it, synced, received>>
    BY Zenon DEF Register, Unregister, queueVars, countVars
  <1>2. Roles'
    BY <1>1, Zenon DEF Roles
  <1>3. entries' \in 0..MaxEntries /\ entries <= entries'
    BY BoundAssumption DEF Register, Unregister, Types
  <1>4. m_map' \in [Subscriber -> 0..entries'] /\ IsList(m_list)'
    <2>1. CASE Register(s)
      <3>1. entries' = entries + 1 /\ entries \in Nat /\ m_map \in [Subscriber -> 0..entries]
        BY <2>1 DEF Register, Types
      <3>2. m_map' \in [Subscriber -> 0..entries']
        BY <2>1, <3>1 DEF Register
      <3>3. [callbacks |-> s, count |-> 1] \in Entry
        BY DEF Entry
      <3>4. DOMAIN m_list \subseteq 1..entries /\ m_list \in [DOMAIN m_list -> Entry]
        BY Zenon DEF Types, IsList
      <3>5. m_list' \in [DOMAIN m_list \cup {entries + 1} -> Entry]
        BY <2>1, <3>3, <3>4, Zenon DEF Register
      <3>6. DOMAIN m_list \cup {entries + 1} \subseteq 1..entries'
        BY <3>1, <3>4
      <3> QED  BY <3>2, <3>5, <3>6, Zenon DEF IsList
    <2>2. CASE Unregister(s)
      <3>1. IsList(m_list) /\ m_map[s] \in DOMAIN m_list
        BY <2>2, Zenon DEF Unregister, References, Types
      <3>2. m_list' = Release(m_list, m_map[s]) /\ entries' = entries
        BY <2>2, Zenon DEF Unregister
      <3>3. IsList(m_list')
        BY <3>1, <3>2, Released, Zenon DEF LessOne
      <3>4. m_map' \in [Subscriber -> 0..entries']
        BY <2>2 DEF Unregister, Types
      <3> QED  BY <3>2, <3>3, <3>4, Zenon DEF IsList
    <2> QED  BY <2>1, <2>2, Zenon
  <1>5. Types'
    BY <1>1, <1>3, <1>4, Zenon DEF Types
  <1> QED  BY <1>2, <1>5, Zenon

\* Where Iterate leaves a thread.
LEMMA AfterIterateRole ==
    ASSUME Inv, NEW t \in Thread, pc[t] \in {"iterate", "calling"}
    PROVE  /\ t \in Producer => AfterIterate(t) = "idle" /\ t \notin Server
           /\ t \in Server => AfterIterate(t) = "finish" /\ t \notin Producer
           /\ AfterIterate(t) \in Places
           /\ t \in Producer \/ t \in Server
  BY Kinds, ThreadAssumption, Zenon DEF Inv, Roles, AfterIterate, Thread, Server, Places, InCallback

\* What a stop of Iterate does to the list, in the terms of the two sections.
LEMMA IterateStops ==
    ASSUME Inv, NEW t \in Thread, BeginIterate(t) \/ CallbackReturns(t)
    PROVE  \E l, R :
              /\ IsList(l) /\ R \in SUBSET (DOMAIN l) /\ Visit(t, l, R, AfterIterate(t))
              /\ \/ pc[t] = "iterate" /\ l = m_list /\ R = DOMAIN m_list
                 \/ /\ pc[t] = "calling" /\ it[t] \in DOMAIN m_list
                    /\ l = Release(m_list, it[t]) /\ R = Behind(it[t])
  <1> USE DEF Inv
  <1>1. IsList(m_list)
    BY Zenon DEF Types
  <1>2. CASE BeginIterate(t)
    BY <1>1, <1>2, Zenon DEF BeginIterate
  <1>3. CASE CallbackReturns(t)
    <2>1. pc[t] = "calling" /\ it[t] # 0 /\ it[t] \in DOMAIN m_list
      BY <1>3, Zenon DEF CallbackReturns, References
    <2>2. /\ IsList(Release(m_list, it[t]))
          /\ DOMAIN m_list \ {it[t]} \subseteq DOMAIN Release(m_list, it[t])
      BY <1>1, <2>1, Released, Zenon DEF LessOne
    <2>3. Behind(it[t]) \subseteq DOMAIN m_list \ {it[t]}
      <3>1. \A e \in DOMAIN m_list : e \in Int
        BY <1>1 DEF IsList
      <3> QED  BY <2>1, <3>1 DEF Behind
    <2> QED  BY <1>3, <2>1, <2>2, <2>3, Zenon DEF CallbackReturns
  <1> QED  BY <1>2, <1>3, Zenon

LEMMA IterateRoles ==
    ASSUME Inv, NEW t \in Thread, BeginIterate(t) \/ CallbackReturns(t)
    PROVE  Types' /\ Roles'
  <1> USE DEF Inv
  <1>1. PICK l, R :
            /\ IsList(l) /\ R \in SUBSET (DOMAIN l) /\ Visit(t, l, R, AfterIterate(t))
    BY IterateStops, Zenon
  <1>2. pc[t] \in {"iterate", "calling"}
    BY Zenon DEF BeginIterate, CallbackReturns
  <1>3. /\ UNCHANGED <<taskQueue, stopRequested, m_callbacks_pending, m_are_callbacks_running>>
        /\ UNCHANGED <<signals, m_map, synced, entries>>
    BY Zenon DEF BeginIterate, CallbackReturns, queueVars, countVars
  <1>4. AfterIterate(t) \in Places
    BY <1>2, AfterIterateRole, Zenon
  <1>5. /\ pc' \in [Thread -> Places] /\ pc'[t] \in {"calling", AfterIterate(t)}
        /\ \A u \in Thread \ {t} : pc'[u] = pc[u]
        /\ event' \in [Thread -> Event \cup {NoEvent}]
        /\ pc'[t] # "idle" => event'[t] = event[t]
        /\ \A u \in Thread \ {t} : event'[u] = event[u]
        /\ it' \in [Thread -> 0..MaxEntries] /\ IsList(m_list)'
        /\ received' \in [1..MaxEntries -> Seq(Nat)]
    BY <1>1, <1>3, <1>4, Visited, Zenon
  <1>6. Types'
    BY <1>3, <1>5, Zenon DEF Types
  <1>7. CASE t \in Producer
    <2>1. t \notin Server /\ pc'[t] \in {"calling", "idle"} /\ event[t] = Checked
      BY <1>2, <1>5, <1>7, AfterIterateRole, Zenon DEF Roles
    <2> QED  BY <1>3, <1>5, <1>6, <1>7, <2>1, RolesKept, Zenon
  <1>8. CASE t \in Server
    <2>1. /\ t \notin Producer /\ pc'[t] \in {"calling", "finish"} /\ event[t] \in Signal
          /\ pc[t] \in InCallback /\ pc'[t] \in InCallback /\ m_are_callbacks_running
      BY <1>2, <1>5, <1>8, AfterIterateRole, Zenon DEF Roles, InCallback
    <2> QED  BY <1>3, <1>5, <1>6, <1>8, <2>1, RolesKept, Zenon
  <1> QED  BY <1>2, <1>6, <1>7, <1>8, AfterIterateRole, Zenon

\* What the steps that leave the list alone keep of Types.
LEMMA OtherTypes ==
    ASSUME Types, UNCHANGED <<m_list, m_map, received, entries, it>>
    PROVE  /\ entries' \in 0..MaxEntries /\ it' \in [Thread -> 0..MaxEntries]
           /\ IsList(m_list)' /\ m_map' \in [Subscriber -> 0..entries']
           /\ received' \in [1..MaxEntries -> Seq(Nat)]
  BY Zenon DEF Types, IsList

LEMMA SendRoles ==
    ASSUME Inv, NEW p \in Producer, SendSignal(p) \/ SyncWithQueue(p)
    PROVE  Types' /\ Roles'
  <1> USE DEF Inv
  <1>1. PICK f \in Signal \cup Sync : AddToProcessQueue(p, f)
    <2>1. SendSignal(p) => Sent(signals + 1) \in Signal
      BY BoundAssumption DEF SendSignal, Signal, Sent, Types
    <2>2. [kind |-> "sync", by |-> p] \in Sync
      BY Zenon DEF Sync
    <2> QED  BY <2>1, <2>2, Zenon DEF SendSignal, SyncWithQueue, Sent
  <1>2. /\ UNCHANGED <<taskQueue, stopRequested, m_are_callbacks_running, it, synced>>
        /\ UNCHANGED <<m_list, m_map, received, entries>>
    BY Zenon DEF SendSignal, SyncWithQueue, listVars
  <1>3. signals' \in 0..MaxSignals
    BY BoundAssumption DEF SendSignal, SyncWithQueue, Types
  <1>4. p \in Thread /\ "check" \in Places /\ p \notin Server
    BY ThreadAssumption, Zenon DEF Thread, Places, Server
  <1>5. /\ pc' \in [Thread -> Places] /\ pc'[p] = "check"
        /\ \A u \in Thread \ {p} : pc'[u] = pc[u]
    BY <1>1, <1>4, Moved, Zenon DEF AddToProcessQueue
  <1>6. /\ event' \in [Thread -> Event \cup {NoEvent}]
        /\ \A u \in Thread \ {p} : event'[u] = event[u]
    BY <1>1, <1>4, Zenon DEF AddToProcessQueue, Types, Event
  <1>7. m_callbacks_pending' \in Seq(Signal \cup Sync)
    <2>1. m_callbacks_pending \in Seq(Signal \cup Sync)
      BY Zenon DEF Types
    <2> QED  BY <1>1, <2>1, AppendTo, Zenon DEF AddToProcessQueue
  <1>8. Types'
    BY <1>2, <1>3, <1>5, <1>6, <1>7, OtherTypes, Zenon DEF Types
  <1>9. Roles'
    BY <1>2, <1>4, <1>5, <1>6, RolesKept, Zenon
  <1> QED  BY <1>8, <1>9, Zenon

LEMMA ProducerRoles ==
    ASSUME Inv, NEW p \in Producer, SyncReturns(p) \/ SendChecked(p)
    PROVE  Types' /\ Roles'
  <1> USE DEF Inv
  <1>1. p \in Thread /\ p \notin Server /\ "idle" \in Places /\ "iterate" \in Places
    BY ThreadAssumption, Zenon DEF Thread, Places, Server, InCallback
  <1>2. /\ UNCHANGED <<taskQueue, stopRequested, m_callbacks_pending, m_are_callbacks_running>>
        /\ UNCHANGED <<m_list, m_map, received, entries, signals, it>>
        /\ synced' \subseteq Producer
    BY Zenon DEF SyncReturns, SendChecked, queueVars, listVars, Types
  <1>3. /\ pc' \in [Thread -> Places] /\ \A u \in Thread \ {p} : pc'[u] = pc[u]
        /\ event' \in [Thread -> Event \cup {NoEvent}]
        /\ \A u \in Thread \ {p} : event'[u] = event[u]
        /\ pc'[p] \in {"idle", "iterate"} /\ (pc'[p] = "iterate" => event'[p] = Checked)
    <2>1. CASE SyncReturns(p)
      BY <1>1, <2>1, MovedAndForgot, Zenon DEF SyncReturns
    <2>2. CASE SendChecked(p)
      <3>1. Goto(p, "iterate") /\ event' = [event EXCEPT ![p] = Checked] /\ Checked \in Event
        BY <2>2, Zenon DEF SendChecked, Event
      <3>2. event' \in [Thread -> Event \cup {NoEvent}] /\ event'[p] = Checked
            /\ \A u \in Thread \ {p} : event'[u] = event[u]
        BY <1>1, <3>1, Zenon DEF Types
      <3> QED  BY <1>1, <3>1, <3>2, Moved, Zenon
    <2> QED  BY <2>1, <2>2, Zenon
  <1>4. Types'
    BY <1>2, <1>3, OtherTypes, Zenon DEF Types
  <1>5. Roles'
    BY <1>1, <1>2, <1>3, RolesKept, Zenon
  <1> QED  BY <1>4, <1>5, Zenon

\* MaybeScheduleProcessQueue, CScheduler::schedule and serviceQueue.
LEMMA ScheduleRoles ==
    ASSUME Inv, NEW t \in Thread,
           MaybeSchedule(t) \/ Schedule(t) \/ (t \in Service /\ ServiceTask(t))
    PROVE  Types' /\ Roles'
  <1> USE DEF Inv
  <1>1. /\ Caller(t) \in Places \ InCallback /\ "schedule" \in Places \ InCallback
        /\ "process" \in Places \ InCallback
        /\ t \in Producer => Caller(t) \notin {"process", "empty", "flushed"}
    BY ThreadAssumption, Zenon DEF Caller, Places, InCallback
  <1>2. /\ UNCHANGED <<stopRequested, m_callbacks_pending, m_are_callbacks_running>>
        /\ UNCHANGED <<m_list, m_map, received, entries, signals, it, synced>>
    BY Zenon DEF MaybeSchedule, Schedule, ServiceTask, queueVars, listVars, countVars
  <1>3. taskQueue' \in Nat
    BY DEF MaybeSchedule, Schedule, ServiceTask, queueVars, Types
  <1>4. pc[t] \notin InCallback
    BY Zenon DEF MaybeSchedule, Schedule, ServiceTask, InCallback
  <1>5. /\ pc' \in [Thread -> Places] /\ \A u \in Thread \ {t} : pc'[u] = pc[u]
        /\ event' \in [Thread -> Event \cup {NoEvent}]
        /\ \A u \in Thread \ {t} : event'[u] = event[u]
        /\ pc'[t] \notin InCallback
        /\ t \in Producer => pc'[t] \notin {"process", "empty", "flushed"}
    <2>1. CASE MaybeSchedule(t)
      <3>1. PICK p \in {Caller(t), "schedule"} : GotoAndForget(t, p)
        BY <2>1, Zenon DEF MaybeSchedule
      <3> QED  BY <1>1, <3>1, MovedAndForgot
    <2>2. CASE Schedule(t)
      BY <1>1, <2>2, MovedAndForgot, Zenon DEF Schedule
    <2>3. CASE t \in Service /\ ServiceTask(t)
      BY <1>1, <2>3, Moved, ThreadAssumption, Zenon DEF ServiceTask, Types
    <2> QED  BY <2>1, <2>2, <2>3, Zenon
  <1>6. Types'
    BY <1>2, <1>3, <1>5, OtherTypes, Zenon DEF Types
  <1>7. Roles'
    BY <1>2, <1>4, <1>5, RolesKept, Zenon DEF InCallback
  <1> QED  BY <1>6, <1>7, Zenon

LEMMA ProcessRoles ==
    ASSUME Inv, NEW t \in Thread, ProcessQueue(t)
    PROVE  /\ Types' /\ Roles' /\ t \in Server /\ t \notin Producer
           /\ pc[t] \notin InCallback
           /\ \A u \in Thread \ {t} : pc'[u] = pc[u] /\ event'[u] = event[u]
           /\ MayProcess => /\ event'[t] = Head(m_callbacks_pending)
                            /\ IF Head(m_callbacks_pending) \in Signal THEN pc'[t] = "iterate"
                               ELSE pc'[t] = "fulfil"
           /\ ~MayProcess => pc'[t] \in {"empty", "idle"}
  <1> USE DEF Inv
  <1>1. /\ UNCHANGED <<taskQueue, stopRequested, signals, it, synced>>
        /\ UNCHANGED <<m_list, m_map, received, entries>>
        /\ pc[t] = "process"
    BY Zenon DEF ProcessQueue, listVars, countVars
  <1>2. t \in Server /\ t \notin Producer /\ pc[t] \notin InCallback
    BY <1>1, Zenon DEF Roles, Thread, Server, InCallback
  <1>3. {"iterate", "fulfil", "empty", "idle"} \subseteq Places
    BY Zenon DEF Places, InCallback
  <1>4. CASE MayProcess
    <2> DEFINE f == Head(m_callbacks_pending)
    <2>1. /\ m_callbacks_pending \in Seq(Signal \cup Sync) /\ m_callbacks_pending # <<>>
          /\ ~m_are_callbacks_running
      BY <1>4, Zenon DEF MayProcess, Types
    <2>2. f \in Signal \cup Sync /\ Tail(m_callbacks_pending) \in Seq(Signal \cup Sync)
      BY <2>1, HeadAndTail, Zenon
    <2>3. /\ m_are_callbacks_running' = TRUE
          /\ m_callbacks_pending' = Tail(m_callbacks_pending)
          /\ event' = [event EXCEPT ![t] = f]
          /\ Goto(t, IF f \in Signal THEN "iterate" ELSE "fulfil")
      BY <1>4, Zenon DEF ProcessQueue
    <2> HIDE DEF f
    <2>4. /\ event' \in [Thread -> Event \cup {NoEvent}] /\ event'[t] = f
          /\ \A u \in Thread \ {t} : event'[u] = event[u]
      BY <2>2, <2>3, Zenon DEF Types, Event
    <2>5. PICK p \in {"iterate", "fulfil"} : Goto(t, p) /\ (p = "iterate" <=> f \in Signal)
      BY <2>3, Zenon
    <2>6. /\ pc' \in [Thread -> Places] /\ pc'[t] = p
          /\ \A u \in Thread \ {t} : pc'[u] = pc[u]
      BY <1>3, <2>5, Moved, Zenon
    <2>7. Types'
      BY <1>1, <2>2, <2>3, <2>4, <2>6, OtherTypes, Zenon DEF Types
    <2>8. Roles'
      <3>1. /\ pc'[t] \in {"iterate", "calling"} => event'[t] \in Signal
            /\ pc'[t] = "fulfil" => event'[t] \in Sync
            /\ pc'[t] # "finish" /\ pc'[t] \in InCallback
        BY <2>2, <2>4, <2>5, <2>6, Zenon DEF InCallback
      <3> QED  BY <1>2, <2>1, <2>3, <2>4, <2>6, <3>1, RolesKept, Zenon
    <2> QED  BY <1>2, <1>4, <2>4, <2>5, <2>6, <2>7, <2>8, Zenon DEF f
  <1>5. CASE ~MayProcess
    <2>1. /\ UNCHANGED <<m_are_callbacks_running, m_callbacks_pending, event>>
          /\ Goto(t, IF t = Main THEN "empty" ELSE "idle")
      BY <1>5, Zenon DEF ProcessQueue
    <2>2. PICK p \in {"empty", "idle"} : Goto(t, p)
      BY <2>1, Zenon
    <2>3. /\ pc' \in [Thread -> Places] /\ pc'[t] = p
          /\ \A u \in Thread \ {t} : pc'[u] = pc[u]
      BY <1>3, <2>2, Moved, Zenon
    <2>4. Types'
      BY <1>1, <2>1, <2>3, OtherTypes, Zenon DEF Types
    <2>5. Roles'
      BY <1>2, <2>1, <2>3, RolesKept, Zenon DEF InCallback
    <2> QED  BY <1>2, <1>5, <2>1, <2>3, <2>4, <2>5, Zenon
  <1> QED  BY <1>4, <1>5, Zenon

LEMMA CallbackRoles ==
    ASSUME Inv, NEW t \in Thread, Fulfil(t) \/ FinishCallback(t)
    PROVE  /\ Types' /\ Roles' /\ t \in Server
           /\ \A u \in Thread \ {t} : pc'[u] = pc[u] /\ event'[u] = event[u]
           /\ Fulfil(t) => pc'[t] = "finish" /\ event'[t] = event[t]
           /\ FinishCallback(t) => pc'[t] = "check"
  <1> USE DEF Inv
  <1>1. /\ UNCHANGED <<taskQueue, stopRequested, m_callbacks_pending, signals, it>>
        /\ UNCHANGED <<m_list, m_map, received, entries>>
    BY Zenon DEF Fulfil, FinishCallback, queueVars, listVars, countVars
  <1>2. t \in Server /\ t \notin Producer /\ pc[t] \in InCallback /\ m_are_callbacks_running
    BY Zenon DEF Roles, Thread, Server, InCallback, Fulfil, FinishCallback
  <1>3. {"finish", "check"} \subseteq Places
    BY Zenon DEF Places, InCallback
  <1>4. CASE Fulfil(t)
    <2>1. /\ Goto(t, "finish") /\ UNCHANGED <<event, m_are_callbacks_running>>
          /\ synced' = synced \cup {event[t].by} /\ event[t] \in Sync
      BY <1>2, <1>4, Zenon DEF Fulfil, queueVars, Roles
    <2>2. /\ pc' \in [Thread -> Places] /\ pc'[t] = "finish"
          /\ \A u \in Thread \ {t} : pc'[u] = pc[u]
      BY <1>3, <2>1, Moved, Zenon
    <2>3. synced' \subseteq Producer
      BY <2>1, Kinds, Zenon DEF Types
    <2>4. Types'
      BY <1>1, <2>1, <2>2, <2>3, OtherTypes, Zenon DEF Types
    <2>5. Roles'
      <3>1. /\ event'[t] \in Sync /\ m_are_callbacks_running' /\ "finish" \in InCallback
            /\ \A u \in Thread \ {t} : pc'[u] = pc[u] /\ event'[u] = event[u]
        BY <1>2, <2>1, <2>2, Zenon DEF InCallback
      <3> QED  BY <1>2, <2>2, <3>1, RolesKept, Zenon
    <2>6. ~FinishCallback(t)
      BY <1>4, Zenon DEF Fulfil, FinishCallback
    <2> QED  BY <1>2, <2>1, <2>2, <2>4, <2>5, <2>6, Zenon
  <1>5. CASE FinishCallback(t)
    <2>1. /\ Goto(t, "check") /\ event' = [event EXCEPT ![t] = NoEvent]
          /\ UNCHANGED synced /\ m_are_callbacks_running' = FALSE
      BY <1>5, Zenon DEF FinishCallback
    <2>2. /\ pc' \in [Thread -> Places] /\ pc'[t] = "check"
          /\ \A u \in Thread \ {t} : pc'[u] = pc[u]
      BY <1>3, <2>1, Moved, Zenon
    <2>3. /\ event' \in [Thread -> Event \cup {NoEvent}]
          /\ \A u \in Thread \ {t} : event'[u] = event[u]
      BY <2>1, Zenon DEF Types
    <2>4. Types'
      BY <1>1, <2>1, <2>2, <2>3, OtherTypes, Zenon DEF Types
    <2>5. Roles'
      BY <1>2, <2>1, <2>2, <2>3, RolesKept, Zenon DEF InCallback
    <2>6. ~Fulfil(t)
      BY <1>5, Zenon DEF Fulfil, FinishCallback
    <2> QED  BY <1>2, <2>2, <2>3, <2>4, <2>5, <2>6, Zenon
  <1> QED  BY <1>4, <1>5, Zenon

LEMMA ShutdownRoles ==
    ASSUME Inv, StopScheduler \/ FlushBackgroundCallbacks \/ EmptyQueue
    PROVE  /\ Types' /\ Roles'
           /\ \A u \in Thread : /\ event'[u] = event[u]
                                /\ pc'[u] = pc[u] \/ (u = Main /\ pc[u] \notin InCallback
                                                               /\ pc'[u] \notin InCallback)
  <1> USE DEF Inv
  <1>1. /\ UNCHANGED <<taskQueue, m_callbacks_pending, m_are_callbacks_running, signals>>
        /\ UNCHANGED <<m_list, m_map, received, entries, event, it, synced>>
        /\ stopRequested' \in BOOLEAN
    BY Zenon DEF StopScheduler, FlushBackgroundCallbacks, EmptyQueue, queueVars, listVars, countVars,
           Types
  <1>2. Main \in Thread /\ Main \in Server /\ Main \notin Producer
    BY ThreadAssumption, Zenon DEF Thread, Server
  <1>3. /\ pc' \in [Thread -> Places]
        /\ \A u \in Thread : pc'[u] = pc[u] \/ (u = Main /\ pc[u] \notin InCallback
                                                         /\ pc'[u] \notin InCallback)
    <2>1. CASE StopScheduler
      BY <2>1, Zenon DEF StopScheduler, Types
    <2>2. CASE FlushBackgroundCallbacks \/ EmptyQueue
      <3>1. PICK p \in {"process", "flushed"} : Goto(Main, p)
        BY <2>2, Zenon DEF FlushBackgroundCallbacks, EmptyQueue
      <3>2. p \in Places /\ p \notin InCallback
        BY Zenon DEF Places, InCallback
      <3>3. pc[Main] \notin InCallback
        BY <2>2, Zenon DEF FlushBackgroundCallbacks, EmptyQueue, InCallback
      <3> QED  BY <1>2, <3>1, <3>2, <3>3, Moved, Zenon
    <2> QED  BY <2>1, <2>2, Zenon
  <1>4. Types'
    BY <1>1, <1>3, OtherTypes, Zenon DEF Types
  <1>5. Roles'
    <2>1. CASE pc'[Main] = pc[Main]
      <3>1. \A u \in Thread : pc'[u] = pc[u] /\ event'[u] = event[u]
        BY <1>1, <1>3, <2>1, Zenon
      <3> QED  BY <1>1, <3>1, Zenon DEF Roles, Server, Thread
    <2>2. CASE pc'[Main] # pc[Main]
      <3>1. pc[Main] \notin InCallback /\ pc'[Main] \notin InCallback
        BY <1>2, <1>3, <2>2, Zenon
      <3>2. \A u \in Thread \ {Main} : pc'[u] = pc[u] /\ event'[u] = event[u]
        BY <1>1, <1>3, Zenon
      <3>3. {"iterate", "calling", "fulfil", "finish"} = InCallback
        BY Zenon DEF InCallback
      <3> QED  BY <1>1, <1>2, <3>1, <3>2, <3>3, RolesKept, Zenon
    <2> QED  BY <2>1, <2>2, Zenon
  <1> QED  BY <1>1, <1>3, <1>4, <1>5, Zenon

-----------------------------------------------------------------------------
(* The second layer: the reference counts *)

\* The threads that hold entry e, and those other than t, if f gives the entry each
\* thread holds.
Holders(f, e) == {u \in Thread : f[u] = e}
Others(f, t, e) == {u \in Thread \ {t} : f[u] = e}

LEMMA HoldersSplit ==
    ASSUME NEW f, NEW t \in Thread, NEW e
    PROVE  /\ Cardinality(Others(f, t, e)) \in Nat
           /\ Cardinality(Holders(f, e))
                = Cardinality(Others(f, t, e)) + IF f[t] = e THEN 1 ELSE 0
           /\ \A u \in Thread \ {t} : f[u] = e => Cardinality(Others(f, t, e)) # 0
  <1>1. IsFiniteSet(Thread)
    BY ThreadAssumption, FS_Union, FS_AddElement, Zenon DEF Thread
  <1>2. IsFiniteSet(Others(f, t, e)) /\ Cardinality(Others(f, t, e)) \in Nat
    <2>1. Others(f, t, e) \subseteq Thread
      BY Zenon DEF Others
    <2> QED  BY <1>1, <2>1, FS_Subset, FS_CardinalityType, Zenon
  <1>3. Cardinality(Holders(f, e)) = Cardinality(Others(f, t, e)) + IF f[t] = e THEN 1 ELSE 0
    <2>1. CASE f[t] = e
      <3>1. Holders(f, e) = Others(f, t, e) \cup {t} /\ t \notin Others(f, t, e)
        BY <2>1, Zenon DEF Others, Holders
      <3>2. Cardinality(Others(f, t, e) \cup {t}) = Cardinality(Others(f, t, e)) + 1
        BY <1>2, <3>1, FS_AddElement, Zenon
      <3> QED  BY <2>1, <3>1, <3>2, Zenon
    <2>2. CASE f[t] # e
      <3>1. Holders(f, e) = Others(f, t, e)
        BY <2>2, Zenon DEF Others, Holders
      <3> QED  BY <1>2, <2>2, <3>1
    <2> QED  BY <2>1, <2>2, Zenon
  <1>4. ASSUME NEW u \in Thread \ {t}, f[u] = e PROVE Cardinality(Others(f, t, e)) # 0
    <2>1. Others(f, t, e) # {}
      BY <1>4, Zenon DEF Others
    <2> QED  BY <1>2, <2>1, FS_EmptySet, Zenon
  <1> QED  BY <1>2, <1>3, <1>4, Zenon

\* A step away from the list, of threads that do not call a subscriber.
LEMMA ReferencesKept ==
    ASSUME References, UNCHANGED <<m_list, m_map, it>>,
           \A t \in Thread : pc'[t] = "calling" <=> pc[t] = "calling"
    PROVE  References'
  BY DEF References

LEMMA RegisterReferences ==
    ASSUME Inv, NEW s \in Subscriber, Register(s)
    PROVE  References'
  <1> USE DEF Inv
  <1> DEFINE new == entries + 1
  <1>1. /\ entries \in Nat /\ DOMAIN m_list \subseteq 1..entries
        /\ m_map \in [Subscriber -> 0..entries] /\ m_list \in [DOMAIN m_list -> Entry]
    BY DEF Types, IsList
  <1>2. /\ m_map' = [m_map EXCEPT ![s] = new] /\ UNCHANGED <<pc, it>> /\ m_map[s] = 0
        /\ m_list' = [e \in DOMAIN m_list \cup {new} |->
                        IF e = new THEN [callbacks |-> s, count |-> 1] ELSE m_list[e]]
    BY Zenon DEF Register
  <1>3. new \in Nat /\ new # 0 /\ new \notin DOMAIN m_list /\ 0 \notin DOMAIN m_list
    BY <1>1
  <1> HIDE DEF new
  <1>4. /\ DOMAIN m_list' = DOMAIN m_list \cup {new}
        /\ m_list'[new].callbacks = s /\ m_list'[new].count = 1
        /\ \A e \in DOMAIN m_list : m_list'[e] = m_list[e]
    BY <1>2, <1>3, Zenon
  <1>5. m_map'[s] = new /\ \A r \in Subscriber \ {s} : m_map'[r] = m_map[r]
    BY <1>1, <1>2, Zenon
  <1>6. {t \in Thread : it[t] = new} = {}
    BY <1>3 DEF References
  <1>7. ASSUME NEW e \in DOMAIN m_list
        PROVE  m_map'[m_list[e].callbacks] = e <=> m_map[m_list[e].callbacks] = e
    <2>1. m_list[e].callbacks \in Subscriber
      BY <1>1, Zenon DEF Entry
    <2> QED  BY <1>2, <1>3, <1>5, <2>1, Zenon
  <1>8. ASSUME NEW e \in DOMAIN m_list'
        PROVE  m_list'[e].count = Cardinality({t \in Thread : it'[t] = e})
                                    + IF m_map'[m_list'[e].callbacks] = e THEN 1 ELSE 0
    <2>1. CASE e = new
      <3>1. Cardinality({t \in Thread : it'[t] = e}) = 0
        BY <1>2, <1>6, <2>1, FS_EmptySet, Zenon
      <3> QED  BY <1>4, <1>5, <2>1, <3>1
    <2>2. CASE e # new
      <3>1. e \in DOMAIN m_list /\ m_list'[e] = m_list[e]
        BY <1>4, <2>2, Zenon
      <3> QED  BY <1>2, <1>7, <3>1 DEF References
    <2> QED  BY <2>1, <2>2, Zenon
  <1>9. \A r \in Subscriber :
            m_map'[r] # 0 => m_map'[r] \in DOMAIN m_list' /\ m_list'[m_map'[r]].callbacks = r
    BY <1>4, <1>5 DEF References
  <1>10. \A t \in Thread : /\ it'[t] # 0 <=> pc'[t] = "calling"
                           /\ it'[t] # 0 => it'[t] \in DOMAIN m_list'
    BY <1>2, <1>4, Zenon DEF References
  <1> QED  BY <1>8, <1>9, <1>10, Zenon DEF References

LEMMA UnregisterReferences ==
    ASSUME Inv, NEW s \in Subscriber, Unregister(s)
    PROVE  References'
  <1> USE DEF Inv
  <1> DEFINE id == m_map[s]
             l == Release(m_list, id)
  <1>1. /\ IsList(m_list) /\ m_map \in [Subscriber -> 0..entries]
        /\ id \in DOMAIN m_list /\ id # 0 /\ m_list[id].callbacks = s
    BY Zenon DEF Unregister, Types, References
  <1>2. m_map' = [m_map EXCEPT ![s] = 0] /\ UNCHANGED <<pc, it>> /\ m_list' = l
    BY Zenon DEF Unregister
  <1> HIDE DEF id
  <1>3. LessOne(m_list, id, l)
    BY <1>1, Released, Zenon
  <1> HIDE DEF l
  <1>4. /\ m_map'[s] = 0 /\ \A r \in Subscriber \ {s} : m_map'[r] = m_map[r]
        /\ \A r \in Subscriber \ {s} : m_map[r] # id
        /\ 0 \notin DOMAIN m_list /\ DOMAIN m_list \subseteq Int
        /\ \A e \in DOMAIN m_list : m_list[e].callbacks \in Subscriber /\ m_list[e].count \in Nat
    <2>1. m_map'[s] = 0 /\ \A r \in Subscriber \ {s} : m_map'[r] = m_map[r]
      BY <1>1, <1>2, Zenon
    <2>2. \A r \in Subscriber \ {s} : m_map[r] # id
      BY <1>1, Zenon DEF References, id
    <2>3. entries \in Nat
      BY DEF Types
    <2> QED  BY <1>1, <2>1, <2>2, <2>3 DEF IsList, Entry
  <1>5. m_list[id].count = Cardinality(Holders(it, id)) + 1
    BY <1>1, Zenon DEF References, Holders, id
  <1>6. Main \in Thread
    BY Zenon DEF Thread
  <1>7. m_list[id].count = 1 => \A t \in Thread : it[t] # id
    <2>1. ASSUME NEW t \in Thread, it[t] = id PROVE m_list[id].count # 1
      <3>1. /\ Cardinality(Holders(it, id)) = Cardinality(Others(it, t, id)) + 1
            /\ Cardinality(Others(it, t, id)) \in Nat
        BY <2>1, HoldersSplit, Zenon
      <3> QED  BY <1>5, <3>1
    <2> QED  BY <2>1, Zenon
  <1>8. ASSUME NEW e \in DOMAIN l
        PROVE  l[e].count = Cardinality(Holders(it, e))
                              + IF m_map'[l[e].callbacks] = e THEN 1 ELSE 0
    <2>1. e \in DOMAIN m_list /\ l[e].callbacks = m_list[e].callbacks
      BY <1>3, Zenon DEF LessOne
    <2>2. CASE e = id
      <3>1. m_map'[l[e].callbacks] # e
        BY <1>1, <1>4, <2>1, <2>2, Zenon
      <3>2. Cardinality(Holders(it, id)) \in Nat
        <4>1. /\ Cardinality(Others(it, Main, id)) \in Nat
              /\ Cardinality(Holders(it, id))
                   = Cardinality(Others(it, Main, id)) + IF it[Main] = id THEN 1 ELSE 0
          BY <1>6, HoldersSplit, Zenon
        <4> QED  BY <4>1
      <3> QED  BY <1>3, <1>5, <2>1, <2>2, <3>1, <3>2 DEF LessOne
    <2>3. CASE e # id
      <3>1. m_map'[l[e].callbacks] = e <=> m_map[m_list[e].callbacks] = e
        BY <1>4, <2>1, <2>3, Zenon DEF id
      <3> QED  BY <1>3, <2>1, <2>3, <3>1 DEF References, Holders, LessOne
    <2> QED  BY <2>2, <2>3, Zenon
  <1>9. \A r \in Subscriber :
            m_map'[r] # 0 => m_map'[r] \in DOMAIN l /\ l[m_map'[r]].callbacks = r
    BY <1>3, <1>4 DEF References, LessOne
  <1>10. \A t \in Thread : /\ it[t] # 0 <=> pc[t] = "calling"
                           /\ it[t] # 0 => it[t] \in DOMAIN l
    BY <1>3, <1>7, Zenon DEF References, LessOne
  <1> QED  BY <1>2, <1>8, <1>9, <1>10 DEF References, Holders

\* List l counts the references of all threads but t, which is between two entries.
Between(l, t) ==
    /\ \A u \in Thread \ {t} : it[u] # 0 => it[u] \in DOMAIN l
    /\ \A s \in Subscriber :
          m_map[s] # 0 => m_map[s] \in DOMAIN l /\ l[m_map[s]].callbacks = s
    /\ \A e \in DOMAIN l :
          l[e].count = Cardinality(Others(it, t, e))
                         + IF m_map[l[e].callbacks] = e THEN 1 ELSE 0

LEMMA CountSplit ==
    ASSUME Inv, NEW t \in Thread, NEW e \in DOMAIN m_list
    PROVE  /\ Cardinality(Others(it, t, e)) \in Nat
           /\ m_list[e].count = Cardinality(Others(it, t, e)) + (IF it[t] = e THEN 1 ELSE 0)
                                  + IF m_map[m_list[e].callbacks] = e THEN 1 ELSE 0
  <1>1. m_list[e].count = Cardinality(Holders(it, e))
                            + IF m_map[m_list[e].callbacks] = e THEN 1 ELSE 0
    BY Zenon DEF Inv, References, Holders
  <1>2. /\ Cardinality(Others(it, t, e)) \in Nat
        /\ Cardinality(Holders(it, e)) = Cardinality(Others(it, t, e))
                                           + IF it[t] = e THEN 1 ELSE 0
    BY HoldersSplit, Zenon
  <1> QED  BY <1>1, <1>2, Zenon

LEMMA BetweenStops ==
    ASSUME Inv, NEW t \in Thread, NEW l,
           \/ pc[t] = "iterate" /\ l = m_list
           \/ pc[t] = "calling" /\ it[t] \in DOMAIN m_list /\ l = Release(m_list, it[t])
    PROVE  Between(l, t)
  <1> USE DEF Inv
  <1>1. CASE pc[t] = "iterate" /\ l = m_list
    <2>1. it[t] = 0 /\ 0 \notin DOMAIN m_list
      BY <1>1 DEF References, Types, IsList
    <2>2. ASSUME NEW e \in DOMAIN l
          PROVE  l[e].count = Cardinality(Others(it, t, e))
                                + IF m_map[l[e].callbacks] = e THEN 1 ELSE 0
      <3>1. it[t] # e /\ e \in DOMAIN m_list
        BY <1>1, <2>1, Zenon
      <3> QED  BY <1>1, <3>1, CountSplit
    <2> QED  BY <1>1, <2>2, Zenon DEF References, Between
  <1>2. CASE pc[t] = "calling" /\ it[t] \in DOMAIN m_list /\ l = Release(m_list, it[t])
    <2> DEFINE id == it[t]
    <2>1. LessOne(m_list, id, l) /\ id \in DOMAIN m_list
      BY <1>2, Released, Zenon DEF Types
    <2>2. /\ Cardinality(Others(it, t, id)) \in Nat
          /\ m_list[id].count = Cardinality(Others(it, t, id)) + 1
                                  + IF m_map[m_list[id].callbacks] = id THEN 1 ELSE 0
      BY <1>2, CountSplit, Zenon
    <2>3. ASSUME NEW e \in DOMAIN l
          PROVE  l[e].count = Cardinality(Others(it, t, e))
                                + IF m_map[l[e].callbacks] = e THEN 1 ELSE 0
      <3>1. e \in DOMAIN m_list /\ l[e].callbacks = m_list[e].callbacks
        BY <2>1, Zenon DEF LessOne
      <3>2. CASE e = id
        <4>1. l[e].count = m_list[id].count - 1
          BY <2>1, <3>2, Zenon DEF LessOne
        <4> QED  BY <2>2, <3>1, <3>2, <4>1
      <3>3. CASE e # id
        <4>1. l[e].count = m_list[e].count
          BY <2>1, <3>3, Zenon DEF LessOne
        <4> QED  BY <3>1, <3>3, <4>1, CountSplit
      <3> QED  BY <3>2, <3>3, Zenon
    <2>4. ASSUME NEW u \in Thread \ {t}, it[u] # 0 PROVE it[u] \in DOMAIN l
      <3>1. it[u] \in DOMAIN m_list
        BY <2>4, Zenon DEF References
      <3>2. CASE it[u] = id
        <4>1. Cardinality(Others(it, t, id)) # 0
          BY <3>2, HoldersSplit, Zenon
        <4>2. m_list[id].count # 1
          BY <2>2, <4>1
        <4> QED  BY <2>1, <3>1, <4>2, Zenon DEF LessOne
      <3> QED  BY <2>1, <3>1, <3>2, Zenon DEF LessOne
    <2>5. ASSUME NEW s \in Subscriber, m_map[s] # 0
          PROVE  m_map[s] \in DOMAIN l /\ l[m_map[s]].callbacks = s
      <3>1. m_map[s] \in DOMAIN m_list /\ m_list[m_map[s]].callbacks = s
        BY <2>5, Zenon DEF References
      <3>2. m_map[s] = id => m_list[id].count # 1
        BY <2>2, <3>1
      <3> QED  BY <2>1, <3>1, <3>2, Zenon DEF LessOne
    <2> QED  BY <2>3, <2>4, <2>5, Zenon DEF Between
  <1> QED  BY <1>1, <1>2, Zenon

LEMMA IterateReferences ==
    ASSUME Inv, NEW t \in Thread, BeginIterate(t) \/ CallbackReturns(t)
    PROVE  References'
  <1> USE DEF Inv
  <1>1. PICK l, R :
            /\ IsList(l) /\ R \in SUBSET (DOMAIN l) /\ Visit(t, l, R, AfterIterate(t))
            /\ Between(l, t)
    <2>1. PICK l, R :
              /\ IsList(l) /\ R \in SUBSET (DOMAIN l) /\ Visit(t, l, R, AfterIterate(t))
              /\ \/ pc[t] = "iterate" /\ l = m_list /\ R = DOMAIN m_list
                 \/ /\ pc[t] = "calling" /\ it[t] \in DOMAIN m_list
                    /\ l = Release(m_list, it[t]) /\ R = Behind(it[t])
      BY IterateStops, Zenon
    <2>2. Between(l, t)
      BY <2>1, BetweenStops, Zenon
    <2> QED  BY <2>1, <2>2, Zenon
  <1>2. pc[t] \in {"iterate", "calling"} /\ UNCHANGED m_map
    BY Zenon DEF BeginIterate, CallbackReturns
  <1>3. AfterIterate(t) \in Places /\ AfterIterate(t) # "calling" /\ "calling" \in Places
    BY <1>2, AfterIterateRole, Zenon DEF Places, InCallback
  <1>4. it \in [Thread -> 0..MaxEntries] /\ 0 \notin DOMAIN l
    BY <1>1, SMTT(20) DEF Types, IsList
  <1>5. CASE R = {}
    <2>1. m_list' = l /\ it' = [it EXCEPT ![t] = 0] /\ GotoAndForget(t, AfterIterate(t))
      BY <1>1, <1>5, Zenon DEF Visit
    <2>2. pc'[t] # "calling" /\ \A u \in Thread \ {t} : pc'[u] = pc[u]
      BY <1>3, <2>1, MovedAndForgot, Zenon
    <2>3. it'[t] = 0 /\ \A u \in Thread \ {t} : it'[u] = it[u]
      BY <1>4, <2>1, Zenon
    <2>4. ASSUME NEW e \in DOMAIN l
          PROVE  l[e].count = Cardinality(Holders(it', e))
                                + IF m_map[l[e].callbacks] = e THEN 1 ELSE 0
      <3>1. Holders(it', e) = Others(it, t, e)
        BY <1>4, <2>3, Zenon DEF Holders, Others
      <3> QED  BY <1>1, <3>1, Zenon DEF Between
    <2>5. \A u \in Thread : /\ it'[u] # 0 <=> pc'[u] = "calling"
                            /\ it'[u] # 0 => it'[u] \in DOMAIN l
      BY <1>1, <2>2, <2>3, Zenon DEF Between, References
    <2>6. \A s \in Subscriber :
              m_map[s] # 0 => m_map[s] \in DOMAIN l /\ l[m_map[s]].callbacks = s
      BY <1>1, Zenon DEF Between
    <2> QED  BY <1>2, <2>1, <2>4, <2>5, <2>6, Zenon DEF References, Holders
  <1>6. CASE R # {}
    <2>1. PICK e \in R :
              /\ m_list' = [l EXCEPT ![e].count = @ + 1]
              /\ it' = [it EXCEPT ![t] = e] /\ GotoAndForget(t, "calling")
      BY <1>1, <1>6, Zenon DEF Visit
    <2>2. pc'[t] = "calling" /\ \A u \in Thread \ {t} : pc'[u] = pc[u]
      BY <1>3, <2>1, MovedAndForgot, Zenon
    <2>3. it'[t] = e /\ e \in DOMAIN l /\ \A u \in Thread \ {t} : it'[u] = it[u]
      BY <1>1, <1>4, <2>1, Zenon
    <2>4. /\ DOMAIN m_list' = DOMAIN l
          /\ \A d \in DOMAIN l :
                /\ m_list'[d].callbacks = l[d].callbacks
                /\ m_list'[d].count = IF d = e THEN l[e].count + 1 ELSE l[d].count
      <3> DEFINE c == l[e].count + 1
      <3>1. c \in Nat \ {0}
        BY <1>1, <2>3 DEF IsList, Entry
      <3>2. m_list' = Recount(l, e, c)
        BY <2>1, Zenon DEF Recount
      <3> HIDE DEF c
      <3>3. /\ DOMAIN Recount(l, e, c) = DOMAIN l
            /\ \A d \in DOMAIN l :
                  /\ Recount(l, e, c)[d].callbacks = l[d].callbacks
                  /\ Recount(l, e, c)[d].count = IF d = e THEN c ELSE l[d].count
        BY <1>1, <2>3, <3>1, Recounted, SMTT(30)
      <3> QED  BY <3>2, <3>3, Zenon DEF c
    <2>5. ASSUME NEW d \in DOMAIN l
          PROVE  m_list'[d].count = Cardinality(Holders(it', d))
                                      + IF m_map[l[d].callbacks] = d THEN 1 ELSE 0
      <3>1. Others(it', t, d) = Others(it, t, d)
        BY <2>3, Zenon DEF Others
      <3>2. /\ Cardinality(Others(it', t, d)) \in Nat
            /\ Cardinality(Holders(it', d)) = Cardinality(Others(it', t, d))
                                                + IF it'[t] = d THEN 1 ELSE 0
        BY HoldersSplit, Zenon
      <3>3. l[d].count = Cardinality(Others(it, t, d))
                           + IF m_map[l[d].callbacks] = d THEN 1 ELSE 0
        BY <1>1, Zenon DEF Between
      <3> QED  BY <2>3, <2>4, <3>1, <3>2, <3>3
    <2>6. \A u \in Thread : /\ it'[u] # 0 <=> pc'[u] = "calling"
                            /\ it'[u] # 0 => it'[u] \in DOMAIN m_list'
      BY <1>1, <1>4, <2>2, <2>3, <2>4, ZenonT(30) DEF Between, References
    <2>7. \A s \in Subscriber :
              m_map[s] # 0 => m_map[s] \in DOMAIN l /\ l[m_map[s]].callbacks = s
      BY <1>1, Zenon DEF Between
    <2> QED  BY <1>2, <2>4, <2>5, <2>6, <2>7 DEF References, Holders
  <1> QED  BY <1>5, <1>6, Zenon

\* A step away from the list, which no running callback of a signal notices.
Away ==
    /\ UNCHANGED <<m_list, m_map, received, entries, it>>
    /\ \A u \in Thread : pc'[u] = "calling" <=> pc[u] = "calling"
    /\ \A u \in Server :
          pc[u] \in {"iterate", "calling"} \/ pc'[u] \in {"iterate", "calling"}
              => pc'[u] = pc[u] /\ event'[u] = event[u]

LEMMA AwayMove ==
    ASSUME NEW t \in Thread, UNCHANGED <<m_list, m_map, received, entries, it>>,
           \A u \in Thread \ {t} : pc'[u] = pc[u] /\ event'[u] = event[u],
           pc[t] # "calling", pc'[t] # "calling",
           t \in Server => pc[t] # "iterate" /\ pc'[t] # "iterate"
    PROVE  Away
  BY Zenon DEF Away, Server, Thread

LEMMA ProducerAway ==
    ASSUME Inv, NEW p \in Producer,
           SendSignal(p) \/ SyncWithQueue(p) \/ SyncReturns(p) \/ SendChecked(p)
    PROVE  Away /\ pc'[p] # "calling"
  <1> USE DEF Inv
  <1>1. p \in Thread /\ p \notin Server
    BY ThreadAssumption, Zenon DEF Thread, Server
  <1>2. /\ UNCHANGED <<m_list, m_map, received, entries, it>>
        /\ pc[p] # "calling"
    BY Zenon DEF SendSignal, SyncWithQueue, SyncReturns, SendChecked, listVars
  <1>3. /\ pc' = [pc EXCEPT ![p] = "check"] \/ pc' = [pc EXCEPT ![p] = "idle"]
              \/ pc' = [pc EXCEPT ![p] = "iterate"]
        /\ \E f : event' = [event EXCEPT ![p] = f]
    BY Zenon DEF SendSignal, SyncWithQueue, SyncReturns, SendChecked, AddToProcessQueue,
           GotoAndForget, Goto
  <1>4. pc \in [Thread -> Places] /\ event \in [Thread -> Event \cup {NoEvent}]
    BY Zenon DEF Types
  <1>5. /\ \A u \in Thread \ {p} : pc'[u] = pc[u] /\ event'[u] = event[u]
        /\ pc'[p] # "calling"
    BY <1>1, <1>3, <1>4, Zenon
  <1> QED  BY <1>1, <1>2, <1>5, AwayMove, Zenon

LEMMA ServerAway ==
    ASSUME Inv, NEW t \in Thread,
           \/ MaybeSchedule(t) \/ Schedule(t) \/ (t \in Service /\ ServiceTask(t))
           \/ Fulfil(t) \/ FinishCallback(t) \/ (ProcessQueue(t) /\ ~MayProcess)
    PROVE  /\ Away
           /\ \A u \in Thread \ {t} : pc'[u] = pc[u] /\ event'[u] = event[u]
           /\ pc[t] \notin {"iterate", "calling"} /\ pc'[t] \notin {"iterate", "calling"}
  <1> USE DEF Inv
  <1>1. /\ UNCHANGED <<m_list, m_map, received, entries, it>>
        /\ pc[t] \notin {"iterate", "calling"}
    BY Zenon DEF MaybeSchedule, Schedule, ServiceTask, Fulfil, FinishCallback, ProcessQueue, listVars
  <1>2. PICK p : p \notin {"iterate", "calling"} /\ pc' = [pc EXCEPT ![t] = p]
    BY Zenon DEF MaybeSchedule, Schedule, ServiceTask, Fulfil, FinishCallback, ProcessQueue,
           GotoAndForget, Goto, Caller
  <1>3. event' = event \/ event' = [event EXCEPT ![t] = NoEvent]
    BY Zenon DEF MaybeSchedule, Schedule, ServiceTask, Fulfil, FinishCallback, ProcessQueue,
           GotoAndForget
  <1>4. pc \in [Thread -> Places] /\ event \in [Thread -> Event \cup {NoEvent}]
    BY Zenon DEF Types
  <1>5. /\ \A u \in Thread \ {t} : pc'[u] = pc[u] /\ event'[u] = event[u]
        /\ pc'[t] = p
    BY <1>2, <1>3, <1>4, Zenon
  <1> QED  BY <1>1, <1>2, <1>5, AwayMove, Zenon

LEMMA ShutdownAway ==
    ASSUME Inv, StopScheduler \/ FlushBackgroundCallbacks \/ EmptyQueue
    PROVE  Away
  <1>1. UNCHANGED <<m_list, m_map, received, entries, it>>
    BY Zenon DEF StopScheduler, FlushBackgroundCallbacks, EmptyQueue, listVars
  <1>2. \A u \in Thread : /\ event'[u] = event[u]
                          /\ pc'[u] = pc[u] \/ (pc[u] \notin InCallback /\ pc'[u] \notin InCallback)
    BY ShutdownRoles, Zenon
  <1> QED  BY <1>1, <1>2, Zenon DEF Away, InCallback, Server, Thread

LEMMA TakeCallback ==
    ASSUME Inv, NEW t \in Thread, ProcessQueue(t), MayProcess
    PROVE  References'
  <1>1. UNCHANGED <<m_list, m_map, it>> /\ pc[t] # "calling" /\ pc'[t] # "calling"
    BY ProcessRoles, Zenon DEF ProcessQueue, listVars, InCallback
  <1>2. \A u \in Thread \ {t} : pc'[u] = pc[u]
    BY ProcessRoles, Zenon
  <1>3. \A u \in Thread : pc'[u] = "calling" <=> pc[u] = "calling"
    BY <1>1, <1>2, Zenon
  <1> QED  BY <1>1, <1>3, ReferencesKept, Zenon DEF Inv

\* Types, roles and counts are kept by every step.
LEMMA NextInv == Inv /\ [Next]_vars => Inv'
  <1> SUFFICES ASSUME Inv, [Next]_vars PROVE Inv'
    BY Zenon
  <1>1. Away => References'
    BY ReferencesKept, Zenon DEF Away, Inv
  <1>2. ASSUME NEW s \in Subscriber, Register(s) \/ Unregister(s) PROVE Inv'
    BY <1>2, SubscriberRoles, RegisterReferences, UnregisterReferences, Zenon DEF Inv
  <1>3. ASSUME NEW p \in Producer, SendSignal(p) \/ SyncWithQueue(p) PROVE Inv'
    BY <1>1, <1>3, SendRoles, ProducerAway, Zenon DEF Inv
  <1>4. ASSUME NEW p \in Producer, SyncReturns(p) \/ SendChecked(p) PROVE Inv'
    BY <1>1, <1>4, ProducerRoles, ProducerAway, Zenon DEF Inv
  <1>5. ASSUME NEW t \in Service, ServiceTask(t) PROVE Inv'
    <2>1. t \in Thread
      BY Zenon DEF Thread
    <2> QED  BY <1>1, <1>5, <2>1, ScheduleRoles, ServerAway, Zenon DEF Inv
  <1>6. ASSUME NEW t \in Thread, BeginIterate(t) \/ CallbackReturns(t) PROVE Inv'
    BY <1>6, IterateRoles, IterateReferences, Zenon DEF Inv
  <1>7. ASSUME NEW t \in Thread, MaybeSchedule(t) \/ Schedule(t) PROVE Inv'
    BY <1>1, <1>7, ScheduleRoles, ServerAway, Zenon DEF Inv
  <1>8. ASSUME NEW t \in Thread, ProcessQueue(t) PROVE Inv'
    <2>1. Types' /\ Roles'
      BY <1>8, ProcessRoles, Zenon
    <2>2. References'
      BY <1>1, <1>8, TakeCallback, ServerAway, Zenon
    <2> QED  BY <2>1, <2>2, Zenon DEF Inv
  <1>9. ASSUME NEW t \in Thread, Fulfil(t) \/ FinishCallback(t) PROVE Inv'
    <2>1. Types' /\ Roles'
      BY <1>9, CallbackRoles, Zenon
    <2>2. Away
      BY <1>9, ServerAway, Zenon
    <2> QED  BY <1>1, <2>1, <2>2, Zenon DEF Inv
  <1>10. CASE StopScheduler \/ FlushBackgroundCallbacks \/ EmptyQueue
    BY <1>1, <1>10, ShutdownRoles, ShutdownAway, Zenon DEF Inv
  <1>11. CASE UNCHANGED vars
    <2>1. /\ UNCHANGED <<taskQueue, stopRequested, m_callbacks_pending, m_are_callbacks_running>>
          /\ UNCHANGED <<m_list, m_map, received, entries, signals, pc, event, it, synced>>
      BY <1>11, Zenon DEF vars, queueVars, listVars, countVars
    <2>2. Types'
      BY <2>1, Zenon DEF Inv, Types, IsList
    <2>3. Roles'
      BY <2>1, Zenon DEF Inv, Roles
    <2>4. References'
      BY <2>1, ReferencesKept, Zenon DEF Inv
    <2> QED  BY <2>2, <2>3, <2>4, Zenon DEF Inv
  <1> QED  BY <1>2, <1>3, <1>4, <1>5, <1>6, <1>7, <1>8, <1>9, <1>10, <1>11, Zenon DEF Next, Step

LEMMA InvCounts == Inv => CountExact
  <1> SUFFICES ASSUME Inv PROVE CountExact
    BY Zenon
  <1> USE DEF Inv
  <1>1. IsFiniteSet(Thread) /\ Main \in Thread
    BY ThreadAssumption, FS_Union, FS_AddElement, Zenon DEF Thread
  <1>2. ASSUME NEW e \in DOMAIN m_list PROVE m_list[e].count \in 1..Cardinality(Thread) + 1
    <2>1. Holders(it, e) \subseteq Thread
      BY Zenon DEF Holders
    <2>2. /\ Cardinality(Holders(it, e)) <= Cardinality(Thread)
          /\ Cardinality(Thread) \in Nat /\ Cardinality(Holders(it, e)) \in Nat
      BY <1>1, <2>1, FS_Subset, FS_CardinalityType, Zenon
    <2>3. m_list[e].count = Cardinality(Holders(it, e))
                              + IF m_map[m_list[e].callbacks] = e THEN 1 ELSE 0
      BY Zenon DEF References, Holders
    <2>4. m_list[e].count \in Nat \ {0}
      BY Zenon DEF Types, IsList, Entry
    <2> QED  BY <2>2, <2>3, <2>4
  <1>3. entries \in 0..MaxEntries /\ 0..entries \subseteq 0..MaxEntries
        /\ 1..entries \subseteq 1..MaxEntries
    BY BoundAssumption DEF Types
  <1>4. /\ DOMAIN m_list \subseteq 1..MaxEntries /\ m_map \in [Subscriber -> 0..MaxEntries]
        /\ m_list \in [DOMAIN m_list ->
                          [callbacks : Subscriber, count : 1..Cardinality(Thread) + 1]]
    <2>1. m_list \in [DOMAIN m_list -> Entry]
      BY Zenon DEF Types, IsList
    <2>2. \A e \in DOMAIN m_list :
              m_list[e] \in [callbacks : Subscriber, count : 1..Cardinality(Thread) + 1]
      BY <1>2, <2>1, Zenon DEF Entry
    <2>3. m_list \in [DOMAIN m_list ->
                          [callbacks : Subscriber, count : 1..Cardinality(Thread) + 1]]
      BY <2>1, <2>2, Zenon
    <2> QED  BY <1>3, <2>3, Zenon DEF Types, IsList
  <1>5. TypeOK
    BY <1>4, Zenon DEF TypeOK, Types
  <1> QED  BY <1>5, Zenon DEF CountExact, References

\* MainSignalsInstance: however the callbacks of several threads interleave with
\* RegisterSharedValidationInterface and Unregister, the count of a list entry is the
\* number of its running callbacks plus one while it is registered, and the entry a
\* thread is calling stays in the list.
THEOREM CountsAreExact == Spec => []CountExact
  <1>1. Spec => []Inv
    BY InitInv, NextInv, PTL DEF Spec
  <1> QED  BY <1>1, InvCounts, PTL

-----------------------------------------------------------------------------
(* The third layer: delivery *)

LEMMA InitDelivery == Init => Delivery
  <1> SUFFICES ASSUME Init PROVE Delivery
    OBVIOUS
  <1>1. m_callbacks_pending = <<>> /\ signals = 0 /\ DOMAIN m_list = {}
    BY Zenon DEF Init
  <1>2. \A t \in Thread : pc[t] = "idle"
    BY Zenon DEF Init
  <1>3. \A e \in 1..MaxEntries : received[e] = <<>>
    BY Zenon DEF Init
  <1>4. Delivered(0)
    BY <1>1, <1>2 DEF Delivered, IsPending, Server, Thread
  <1>5. InOrder
    BY <1>1 DEF InOrder
  <1>6. ReceivedWithoutGap
    BY <1>3 DEF ReceivedWithoutGap
  <1> QED  BY <1>1, <1>3, <1>4, <1>5, <1>6 DEF Delivery

\* Which functions are in the queue after one is added, and which when the first is taken.
LEMMA PendingAppended ==
    ASSUME Types, NEW f \in Signal \cup Sync,
           m_callbacks_pending' = Append(m_callbacks_pending, f)
    PROVE  /\ \A g : IsPending(g)' <=> IsPending(g) \/ g = f
           /\ \A i \in DOMAIN m_callbacks_pending' :
                 \/ i \in DOMAIN m_callbacks_pending
                       /\ m_callbacks_pending'[i] = m_callbacks_pending[i]
                 \/ i = Len(m_callbacks_pending) + 1 /\ m_callbacks_pending'[i] = f
           /\ DOMAIN m_callbacks_pending = 1..Len(m_callbacks_pending)
           /\ Len(m_callbacks_pending) \in Nat
  <1>1. /\ m_callbacks_pending \in Seq(Signal \cup Sync)
        /\ DOMAIN m_callbacks_pending = 1..Len(m_callbacks_pending)
        /\ Len(m_callbacks_pending) \in Nat
    BY LengthOf, Zenon DEF Types
  <1>2. /\ DOMAIN m_callbacks_pending' = 1..Len(m_callbacks_pending) + 1
        /\ \A i \in 1..Len(m_callbacks_pending) :
              m_callbacks_pending'[i] = m_callbacks_pending[i]
        /\ m_callbacks_pending'[Len(m_callbacks_pending) + 1] = f
    BY <1>1, AppendTo, LengthOf
  <1>3. \A i \in DOMAIN m_callbacks_pending' :
            \/ i \in DOMAIN m_callbacks_pending
                  /\ m_callbacks_pending'[i] = m_callbacks_pending[i]
            \/ i = Len(m_callbacks_pending) + 1 /\ m_callbacks_pending'[i] = f
    BY <1>1, <1>2
  <1>4. \A i \in DOMAIN m_callbacks_pending : i \in DOMAIN m_callbacks_pending'
    BY <1>1, <1>2
  <1>5. Len(m_callbacks_pending) + 1 \in DOMAIN m_callbacks_pending'
    BY <1>1, <1>2
  <1>6. ASSUME NEW g PROVE IsPending(g)' <=> IsPending(g) \/ g = f
    BY <1>1, <1>2, <1>3, <1>4, <1>5, Zenon DEF IsPending
  <1> QED  BY <1>1, <1>3, <1>6, Zenon

LEMMA PendingTaken ==
    ASSUME Types, m_callbacks_pending # <<>>,
           m_callbacks_pending' = Tail(m_callbacks_pending)
    PROVE  /\ 1 \in DOMAIN m_callbacks_pending
           /\ Head(m_callbacks_pending) = m_callbacks_pending[1]
           /\ Head(m_callbacks_pending) \in Signal \cup Sync
           /\ DOMAIN m_callbacks_pending \subseteq Nat \ {0}
           /\ \A i \in DOMAIN m_callbacks_pending :
                 i # 1 => /\ i - 1 \in DOMAIN m_callbacks_pending'
                          /\ m_callbacks_pending'[i - 1] = m_callbacks_pending[i]
           /\ \A i \in DOMAIN m_callbacks_pending' :
                 /\ i \in Nat \ {0} /\ i + 1 \in DOMAIN m_callbacks_pending
                 /\ m_callbacks_pending'[i] = m_callbacks_pending[i + 1]
  <1>1. /\ m_callbacks_pending \in Seq(Signal \cup Sync)
        /\ DOMAIN m_callbacks_pending = 1..Len(m_callbacks_pending)
        /\ Len(m_callbacks_pending) \in Nat /\ Len(m_callbacks_pending) # 0
    BY LengthOf, Zenon DEF Types
  <1>2. /\ Head(m_callbacks_pending) \in Signal \cup Sync
        /\ Len(m_callbacks_pending') = Len(m_callbacks_pending) - 1
        /\ m_callbacks_pending' \in Seq(Signal \cup Sync)
        /\ \A i \in 1..Len(m_callbacks_pending) - 1 :
              m_callbacks_pending'[i] = m_callbacks_pending[i + 1]
    BY <1>1, HeadAndTail, Zenon
  <1>3. DOMAIN m_callbacks_pending' = 1..Len(m_callbacks_pending) - 1
    BY <1>1, <1>2, LengthOf, Zenon
  <1>4. Head(m_callbacks_pending) = m_callbacks_pending[1]
    BY <1>1
  <1> QED  BY <1>1, <1>2, <1>3, <1>4

LEMMA AwayDelivery ==
    ASSUME Inv, Delivery, Away, UNCHANGED <<m_callbacks_pending, signals>>
    PROVE  Delivery'
  <1>1. PICK d \in 0..signals : Delivered(d)
    BY Zenon DEF Delivery
  <1>2. \A e : Ahead(e)' <=> Ahead(e)
    BY Zenon DEF Ahead, Away
  <1>3. Delivered(d)'
    <2>1. \A k \in 1..MaxSignals : IsPending(Sent(k))' <=> d < k /\ k <= signals'
      BY <1>1, Zenon DEF Delivered, IsPending, Sent
    <2>2. \A t \in Server : pc'[t] \in {"iterate", "calling"} => event'[t] = Sent(d)
      BY <1>1, Zenon DEF Delivered, Away
    <2>3. \A e \in DOMAIN m_list' :
              received'[e] # <<>> =>
                  received'[e][Len(received'[e])] = IF Ahead(e)' THEN d - 1 ELSE d
      BY <1>1, <1>2, Zenon DEF Delivered, Away
    <2> QED  BY <2>1, <2>2, <2>3, Zenon DEF Delivered, Sent
  <1>4. InOrder'
    BY Zenon DEF Delivery, InOrder
  <1>5. ReceivedWithoutGap' /\ \A e \in 1..MaxEntries : e > entries' => received'[e] = <<>>
    BY Zenon DEF Delivery, ReceivedWithoutGap, Away
  <1> QED  BY <1>1, <1>3, <1>4, <1>5, Zenon DEF Delivery

LEMMA SendDelivery ==
    ASSUME Inv, Delivery, NEW p \in Producer, SendSignal(p) \/ SyncWithQueue(p)
    PROVE  Delivery'
  <1> USE DEF Inv
  <1>1. PICK d \in 0..signals : Delivered(d)
    BY Zenon DEF Delivery
  <1>2. Away
    BY ProducerAway, Zenon
  <1>3. PICK f \in Signal \cup Sync :
            /\ m_callbacks_pending' = Append(m_callbacks_pending, f)
            /\ \/ f = Sent(signals + 1) /\ f \in Signal /\ signals' = signals + 1
               \/ f \in Sync /\ signals' = signals
    <2>1. CASE SendSignal(p)
      <3>1. Sent(signals + 1) \in Signal
        BY <2>1, BoundAssumption DEF SendSignal, Signal, Sent, Types
      <3> QED  BY <2>1, <3>1, Zenon DEF SendSignal, AddToProcessQueue, Sent
    <2>2. CASE SyncWithQueue(p)
      <3>1. [kind |-> "sync", by |-> p] \in Sync
        BY Zenon DEF Sync
      <3> QED  BY <2>2, <3>1, Zenon DEF SyncWithQueue, AddToProcessQueue
    <2> QED  BY <2>1, <2>2, Zenon
  <1>4. signals \in Nat /\ signals' \in Nat /\ d \in 0..signals'
    BY <1>3, BoundAssumption DEF Types
  <1>5. \A g : IsPending(g)' <=> IsPending(g) \/ g = f
    BY <1>3, PendingAppended, Zenon
  <1>6. ASSUME NEW k \in 1..MaxSignals
        PROVE  IsPending(Sent(k))' <=> d < k /\ k <= signals'
    <2>1. IsPending(Sent(k)) <=> d < k /\ k <= signals
      BY <1>1, Zenon DEF Delivered
    <2>2. IsPending(Sent(k))' <=> IsPending(Sent(k)) \/ Sent(k) = f
      BY <1>5, Zenon
    <2>3. CASE f \in Sync /\ signals' = signals
      <3>1. Sent(k) # f
        BY <2>3 DEF Sync, Sent
      <3> QED  BY <2>1, <2>2, <2>3, <3>1, Zenon
    <2>4. CASE f = Sent(signals + 1) /\ signals' = signals + 1
      <3>1. Sent(k) = f <=> k = signals + 1
        BY <2>4, Zenon DEF Sent
      <3> QED  BY <1>4, <2>1, <2>2, <2>4, <3>1
    <2> QED  BY <1>3, <2>3, <2>4, Zenon
  <1>7. \A e : Ahead(e)' <=> Ahead(e)
    BY <1>2, Zenon DEF Ahead, Away
  <1>8. Delivered(d)'
    <2>1. \A t \in Server : pc'[t] \in {"iterate", "calling"} => event'[t] = Sent(d)
      BY <1>1, <1>2, Zenon DEF Delivered, Away
    <2>2. \A e \in DOMAIN m_list' :
              received'[e] # <<>> =>
                  received'[e][Len(received'[e])] = IF Ahead(e)' THEN d - 1 ELSE d
      BY <1>1, <1>2, <1>7, Zenon DEF Delivered, Away
    <2> QED  BY <1>6, <2>1, <2>2, Zenon DEF Delivered, Sent
  <1>9. InOrder'
    <2> SUFFICES ASSUME NEW i \in DOMAIN m_callbacks_pending',
                        NEW j \in DOMAIN m_callbacks_pending', i < j,
                        m_callbacks_pending'[i] \in Signal, m_callbacks_pending'[j] \in Signal
                 PROVE  m_callbacks_pending'[i].n < m_callbacks_pending'[j].n
      BY Zenon DEF InOrder
    <2>1. /\ DOMAIN m_callbacks_pending = 1..Len(m_callbacks_pending)
          /\ Len(m_callbacks_pending) \in Nat
          /\ \A h \in {i, j} :
                \/ h \in DOMAIN m_callbacks_pending
                      /\ m_callbacks_pending'[h] = m_callbacks_pending[h]
                \/ h = Len(m_callbacks_pending) + 1 /\ m_callbacks_pending'[h] = f
      BY <1>3, PendingAppended
    <2>2. i \in DOMAIN m_callbacks_pending /\ m_callbacks_pending'[i] = m_callbacks_pending[i]
      BY <2>1
    <2>3. CASE j \in DOMAIN m_callbacks_pending
      <3>1. m_callbacks_pending'[j] = m_callbacks_pending[j]
        BY <2>1, <2>3
      <3> QED  BY <2>2, <2>3, <3>1, Zenon DEF Delivery, InOrder
    <2>4. CASE m_callbacks_pending'[j] = f
      <3>1. f = Sent(signals + 1) /\ f.n = signals + 1
        BY <1>3, <2>4, Kinds, Zenon DEF Sent
      <3> DEFINE n == m_callbacks_pending[i].n
      <3>2. n \in 1..MaxSignals /\ m_callbacks_pending[i] = Sent(n)
        BY <2>2, Kinds, Zenon
      <3>3. IsPending(Sent(n))
        BY <2>2, <3>2, Zenon DEF IsPending
      <3>4. n <= signals
        BY <1>1, <3>2, <3>3, Zenon DEF Delivered
      <3> QED  BY <1>4, <2>2, <2>4, <3>1, <3>2, <3>4, BoundAssumption, SMTT(20)
    <2> QED  BY <2>1, <2>3, <2>4, Zenon
  <1>10. ReceivedWithoutGap' /\ \A e \in 1..MaxEntries : e > entries' => received'[e] = <<>>
    BY <1>2, Zenon DEF Delivery, ReceivedWithoutGap, Away
  <1> QED  BY <1>4, <1>8, <1>9, <1>10, Zenon DEF Delivery

LEMMA SubscriberDelivery ==
    ASSUME Inv, Delivery, NEW s \in Subscriber, Register(s) \/ Unregister(s)
    PROVE  Delivery'
  <1> USE DEF Inv
  <1>1. PICK d \in 0..signals : Delivered(d)
    BY DEF Delivery
  <1>2. UNCHANGED <<m_callbacks_pending, pc, event, it, received, signals>>
    BY Zenon DEF Register, Unregister, queueVars, countVars
  <1>3. entries' >= entries /\ entries \in Nat /\ entries' \in Nat
    BY DEF Register, Unregister, Types
  <1>4. \A e : Ahead(e)' <=> Ahead(e)
    BY <1>2, Zenon DEF Ahead
  <1>5. ASSUME NEW e \in DOMAIN m_list', received[e] # <<>> PROVE e \in DOMAIN m_list
    <2>1. CASE Register(s)
      <3>1. DOMAIN m_list' = DOMAIN m_list \cup {entries + 1} /\ entries < MaxEntries
        BY <2>1, Zenon DEF Register
      <3>2. received[entries + 1] = <<>>
        BY <1>3, <3>1, BoundAssumption DEF Delivery
      <3> QED  BY <1>5, <3>1, <3>2, Zenon
    <2>2. CASE Unregister(s)
      <3>1. m_map[s] \in DOMAIN m_list /\ m_list' = Release(m_list, m_map[s])
        BY <2>2, Zenon DEF Unregister, References
      <3>2. LessOne(m_list, m_map[s], m_list')
        BY <3>1, Released, Zenon DEF Types
      <3> QED  BY <3>2, Zenon DEF LessOne
    <2> QED  BY <2>1, <2>2, Zenon
  <1>6. Delivered(d)'
    <2>1. \A k \in 1..MaxSignals : IsPending(Sent(k))' <=> d < k /\ k <= signals'
      BY <1>1, <1>2, Zenon DEF Delivered, IsPending, Sent
    <2>2. \A t \in Server : pc'[t] \in {"iterate", "calling"} => event'[t] = Sent(d)
      BY <1>1, <1>2, Zenon DEF Delivered
    <2>3. \A e \in DOMAIN m_list' :
              received'[e] # <<>> =>
                  received'[e][Len(received'[e])] = IF Ahead(e)' THEN d - 1 ELSE d
      BY <1>1, <1>2, <1>4, <1>5, Zenon DEF Delivered
    <2> QED  BY <2>1, <2>2, <2>3, Zenon DEF Delivered, Sent
  <1>7. InOrder' /\ ReceivedWithoutGap'
    BY <1>2, Zenon DEF Delivery, InOrder, ReceivedWithoutGap
  <1>8. \A e \in 1..MaxEntries : e > entries' => received'[e] = <<>>
    BY <1>2, <1>3 DEF Delivery
  <1> QED  BY <1>1, <1>2, <1>6, <1>7, <1>8, Zenon DEF Delivery

LEMMA TakeDelivery ==
    ASSUME Inv, Delivery, NEW t \in Thread, ProcessQueue(t), MayProcess
    PROVE  Delivery'
  <1> USE DEF Inv
  <1> DEFINE f == Head(m_callbacks_pending)
  <1>1. PICK d \in 0..signals : Delivered(d)
    BY Zenon DEF Delivery
  <1>2. /\ UNCHANGED <<m_list, received, entries, it, signals>>
        /\ m_callbacks_pending # <<>> /\ m_callbacks_pending' = Tail(m_callbacks_pending)
        /\ ~m_are_callbacks_running
    BY Zenon DEF ProcessQueue, MayProcess, listVars, countVars
  <1>3. /\ t \in Server /\ \A u \in Thread \ {t} : pc'[u] = pc[u] /\ event'[u] = event[u]
        /\ event'[t] = f
        /\ IF f \in Signal THEN pc'[t] = "iterate" ELSE pc'[t] = "fulfil"
    BY ProcessRoles, Zenon
  <1>4. \A u \in Server : pc[u] \notin InCallback
    BY <1>2, Zenon DEF Roles
  <1>5. \A e : ~Ahead(e)
    BY <1>4, Zenon DEF Ahead, InCallback
  <1>6. /\ 1 \in DOMAIN m_callbacks_pending /\ f = m_callbacks_pending[1]
        /\ f \in Signal \cup Sync /\ DOMAIN m_callbacks_pending \subseteq Nat \ {0}
        /\ \A i \in DOMAIN m_callbacks_pending :
              i # 1 => /\ i - 1 \in DOMAIN m_callbacks_pending'
                       /\ m_callbacks_pending'[i - 1] = m_callbacks_pending[i]
        /\ \A i \in DOMAIN m_callbacks_pending' :
              /\ i \in Nat \ {0} /\ i + 1 \in DOMAIN m_callbacks_pending
              /\ m_callbacks_pending'[i] = m_callbacks_pending[i + 1]
    BY <1>2, PendingTaken, Zenon
  <1> HIDE DEF f
  <1>7. InOrder'
    BY <1>6 DEF Delivery, InOrder
  <1>8. \A g : IsPending(g)' => IsPending(g)
    BY <1>6, Zenon DEF IsPending
  <1>9. \A g : IsPending(g) => g = f \/ IsPending(g)'
    BY <1>6, Zenon DEF IsPending
  <1>10. signals \in 0..MaxSignals /\ signals \in Nat /\ MaxSignals \in Nat
    BY BoundAssumption DEF Types
  <1>11. ReceivedWithoutGap' /\ \A e \in 1..MaxEntries : e > entries' => received'[e] = <<>>
    BY <1>2, Zenon DEF Delivery, ReceivedWithoutGap
  <1>12. CASE f \in Signal
    <2>1. f = Sent(f.n) /\ f.n \in 1..MaxSignals
      BY <1>12, Kinds, Zenon
    <2>2. IsPending(f)
      BY <1>6, Zenon DEF IsPending
    <2>3. d < f.n /\ f.n <= signals
      BY <1>1, <2>1, <2>2, Zenon DEF Delivered
    <2>4. \A i \in DOMAIN m_callbacks_pending :
              i # 1 /\ m_callbacks_pending[i] \in Signal => f.n < m_callbacks_pending[i].n
      <3>1. \A i \in DOMAIN m_callbacks_pending : i # 1 => 1 < i
        BY <1>6
      <3> QED  BY <1>6, <1>12, <3>1, Zenon DEF Delivery, InOrder
    <2>5. f.n = d + 1
      <3>1. d + 1 \in 1..MaxSignals /\ d < d + 1 /\ d + 1 <= signals
        BY <1>10, <2>1, <2>3
      <3>2. IsPending(Sent(d + 1))
        BY <1>1, <3>1, Zenon DEF Delivered
      <3>3. PICK i \in DOMAIN m_callbacks_pending : m_callbacks_pending[i] = Sent(d + 1)
        BY <3>2, Zenon DEF IsPending
      <3>4. Sent(d + 1) \in Signal /\ Sent(d + 1).n = d + 1
        BY <3>1, Zenon DEF Sent, Signal
      <3>5. i # 1 => f.n < d + 1
        BY <2>4, <3>3, <3>4, Zenon
      <3>6. i = 1 => f.n = d + 1
        BY <1>6, <3>3, <3>4, Zenon
      <3> QED  BY <2>1, <2>3, <3>5, <3>6
    <2>6. d + 1 \in 0..signals /\ d \in Int
      BY <1>10, <2>3, <2>5
    <2>7. ASSUME NEW k \in 1..MaxSignals
          PROVE  IsPending(Sent(k))' <=> d + 1 < k /\ k <= signals'
      <3>1. IsPending(Sent(k)) <=> d < k /\ k <= signals
        BY <1>1, Zenon DEF Delivered
      <3>2. Sent(k) \in Signal /\ Sent(k).n = k
        BY Zenon DEF Sent, Signal
      <3>3. ASSUME IsPending(Sent(k))' PROVE f.n < k
        <4>1. PICK i \in DOMAIN m_callbacks_pending' : m_callbacks_pending'[i] = Sent(k)
          BY <3>3, Zenon DEF IsPending, Sent
        <4>2. /\ i + 1 \in DOMAIN m_callbacks_pending /\ i + 1 # 1
              /\ m_callbacks_pending[i + 1] = Sent(k)
          BY <1>6, <4>1
        <4> QED  BY <2>4, <3>2, <4>2, Zenon
      <3>4. IsPending(Sent(k))' => IsPending(Sent(k))
        BY <1>8, Zenon DEF Sent
      <3>5. IsPending(Sent(k)) => Sent(k) = f \/ IsPending(Sent(k))'
        BY <1>9, Zenon DEF Sent
      <3>6. IsPending(Sent(k))' => d + 1 < k /\ k <= signals'
        BY <1>2, <2>5, <3>1, <3>3, <3>4, Zenon
      <3>7. d + 1 < k /\ k <= signals' => IsPending(Sent(k))'
        BY <1>2, <2>5, <2>6, <3>1, <3>2, <3>5
      <3> QED  BY <3>6, <3>7, Zenon
    <2>8. \A u \in Server : pc'[u] \in {"iterate", "calling"} => event'[u] = Sent(d + 1)
      BY <1>3, <1>4, <1>12, <2>1, <2>5, Zenon DEF InCallback, Server, Thread
    <2>9. \A e : Ahead(e)'
      BY <1>3, <1>12, Zenon DEF Ahead
    <2>10. \A e \in DOMAIN m_list' :
              received'[e] # <<>> => received'[e][Len(received'[e])] = (d + 1) - 1
      <3>1. (d + 1) - 1 = d
        BY <2>6
      <3> QED  BY <1>1, <1>2, <1>5, <3>1, Zenon DEF Delivered
    <2>11. Delivered(d + 1)'
      BY <2>7, <2>8, <2>9, <2>10, Zenon DEF Delivered, Sent
    <2> QED  BY <1>2, <1>7, <1>11, <2>6, <2>11, Zenon DEF Delivery
  <1>13. CASE f \in Sync
    <2>1. \A k \in 1..MaxSignals : IsPending(Sent(k))' <=> d < k /\ k <= signals'
      <3>1. \A k \in 1..MaxSignals : f # Sent(k)
        BY <1>13 DEF Sent, Sync
      <3>2. \A k \in 1..MaxSignals : IsPending(Sent(k))' <=> IsPending(Sent(k))
        BY <1>8, <1>9, <3>1, Zenon DEF Sent
      <3> QED  BY <1>1, <1>2, <3>2, Zenon DEF Delivered
    <2>2. \A u \in Server : pc'[u] \notin {"iterate", "calling"}
      BY <1>3, <1>4, <1>13, Kinds, Zenon DEF InCallback, Server, Thread
    <2>3. \A e : ~Ahead(e)'
      BY <2>2, Zenon DEF Ahead
    <2>4. \A e \in DOMAIN m_list' :
              received'[e] # <<>> => received'[e][Len(received'[e])] = d
      BY <1>1, <1>2, <1>5, Zenon DEF Delivered
    <2>5. Delivered(d)'
      BY <2>1, <2>2, <2>3, <2>4, Zenon DEF Delivered, Sent
    <2> QED  BY <1>1, <1>2, <1>7, <1>11, <2>5, Zenon DEF Delivery
  <1> QED  BY <1>6, <1>12, <1>13, Zenon

\* A stop of Iterate: the entries that are still to come are those of R, and the first of
\* them gets the signal.
LEMMA IterateDelivery ==
    ASSUME Inv, Delivery, NEW t \in Thread, BeginIterate(t) \/ CallbackReturns(t)
    PROVE  Delivery'
  <1> USE DEF Inv
  <1>1. PICK d \in 0..signals : Delivered(d)
    BY Zenon DEF Delivery
  <1>2. PICK l, R :
            /\ IsList(l) /\ R \in SUBSET (DOMAIN l) /\ Visit(t, l, R, AfterIterate(t))
            /\ \/ pc[t] = "iterate" /\ l = m_list /\ R = DOMAIN m_list
               \/ /\ pc[t] = "calling" /\ it[t] \in DOMAIN m_list
                  /\ l = Release(m_list, it[t]) /\ R = Behind(it[t])
    BY IterateStops, Zenon
  <1>3. DOMAIN l \subseteq DOMAIN m_list /\ DOMAIN m_list \subseteq Nat
    <2>1. CASE l = m_list
      BY <2>1 DEF Types, IsList
    <2>2. CASE it[t] \in DOMAIN m_list /\ l = Release(m_list, it[t])
      <3>1. LessOne(m_list, it[t], l)
        BY <2>2, Released, Zenon DEF Types
      <3> QED  BY <3>1 DEF LessOne, Types, IsList
    <2> QED  BY <1>2, <2>1, <2>2, Zenon
  <1>4. pc[t] \in {"iterate", "calling"} /\ UNCHANGED <<m_callbacks_pending, signals, entries>>
    BY Zenon DEF BeginIterate, CallbackReturns, queueVars, countVars
  <1>5. AfterIterate(t) \in Places /\ AfterIterate(t) \notin {"iterate", "calling"}
    BY <1>4, AfterIterateRole, Zenon DEF AfterIterate
  <1>6. InOrder' /\ \A k \in 1..MaxSignals : IsPending(Sent(k))' <=> d < k /\ k <= signals'
    BY <1>1, <1>4, Zenon DEF Delivery, InOrder, Delivered, IsPending, Sent
  <1>7. /\ \A u \in Thread \ {t} : pc'[u] = pc[u] /\ event'[u] = event[u]
        /\ pc'[t] \in {"calling", AfterIterate(t)} /\ (pc'[t] # "idle" => event'[t] = event[t])
    BY <1>2, <1>4, <1>5, Visited, Zenon
  <1>8. it \in [Thread -> 0..MaxEntries]
    BY Zenon DEF Types
  <1>9. CASE t \in Producer
    <2>1. t \notin Server /\ event[t] \notin Signal
      BY <1>4, <1>9, AfterIterateRole, Kinds, Zenon DEF Roles
    <2>2. received' = received /\ DOMAIN m_list' = DOMAIN l
      BY <1>2, <2>1, Zenon DEF Visit
    <2>3. \A u \in Thread \ {t} : it'[u] = it[u]
      BY <1>2, <1>8, Zenon DEF Visit
    <2>4. \A u \in Server : pc'[u] = pc[u] /\ event'[u] = event[u] /\ it'[u] = it[u]
      BY <1>7, <2>1, <2>3, Zenon DEF Server, Thread
    <2>5. \A e : Ahead(e)' <=> Ahead(e)
      BY <2>4, Zenon DEF Ahead
    <2>6. Delivered(d)'
      <3>1. \A u \in Server : pc'[u] \in {"iterate", "calling"} => event'[u] = Sent(d)
        BY <1>1, <2>4, Zenon DEF Delivered
      <3>2. \A e \in DOMAIN m_list' :
                received'[e] # <<>> =>
                    received'[e][Len(received'[e])] = IF Ahead(e)' THEN d - 1 ELSE d
        BY <1>1, <1>3, <2>2, <2>5, Zenon DEF Delivered
      <3> QED  BY <1>6, <3>1, <3>2, Zenon DEF Delivered, Sent
    <2>7. ReceivedWithoutGap' /\ \A e \in 1..MaxEntries : e > entries' => received'[e] = <<>>
      BY <1>4, <2>2, Zenon DEF Delivery, ReceivedWithoutGap
    <2> QED  BY <1>1, <1>4, <1>6, <2>6, <2>7, Zenon DEF Delivery
  <1>10. CASE t \in Server
    <2>1. /\ event[t] = Sent(d) /\ event[t] \in Signal /\ event[t].n = d
          /\ AfterIterate(t) = "finish" /\ pc[t] \in InCallback
      BY <1>1, <1>4, <1>10, AfterIterateRole, Kinds DEF Delivered, Roles, Sent, InCallback
    <2>2. \A u \in Server : u # t => pc[u] \notin InCallback
      BY <1>10, <2>1, Zenon DEF Roles
    <2>3. \A e \in DOMAIN m_list : Ahead(e) <=> e \in R
      <3>1. CASE pc[t] = "iterate"
        BY <1>2, <1>10, <3>1, Zenon DEF Ahead
      <3>2. CASE pc[t] = "calling"
        <4>1. R = Behind(it[t]) /\ it[t] \in Nat
          BY <1>2, <1>3, <3>2, Zenon
        <4>2. \A e : Ahead(e) <=> it[t] < e
          BY <1>10, <2>2, <3>2, Zenon DEF Ahead, InCallback
        <4> QED  BY <1>3, <4>1, <4>2, Zenon DEF Behind
      <3> QED  BY <1>4, <3>1, <3>2, Zenon
    <2>4. \A u \in Server : u # t => pc'[u] \notin {"iterate", "calling"}
      BY <1>7, <2>2, Zenon DEF Server, Thread, InCallback
    <2>5. \A u \in Server : pc'[u] \in {"iterate", "calling"} => event'[u] = Sent(d)
      BY <1>7, <2>1, <2>4, Zenon
    <2>6. d \in Nat
      BY DEF Types
    <2>7. CASE R = {}
      <3>1. m_list' = l /\ received' = received /\ GotoAndForget(t, "finish")
        BY <1>2, <2>1, <2>7, Zenon DEF Visit
      <3>2. pc'[t] = "finish"
        BY <1>5, <2>1, <3>1, MovedAndForgot, Zenon
      <3>3. \A e : ~Ahead(e)'
        BY <2>4, <3>2, Zenon DEF Ahead
      <3>4. \A e \in DOMAIN m_list : ~Ahead(e)
        BY <2>3, <2>7, Zenon
      <3>5. \A e \in DOMAIN m_list' :
                received'[e] # <<>> =>
                    received'[e][Len(received'[e])] = IF Ahead(e)' THEN d - 1 ELSE d
        BY <1>1, <1>3, <3>1, <3>3, <3>4, Zenon DEF Delivered
      <3>6. Delivered(d)'
        BY <1>6, <2>5, <3>5 DEF Delivered, Sent
      <3>7. ReceivedWithoutGap' /\ \A e \in 1..MaxEntries : e > entries' => received'[e] = <<>>
        BY <1>4, <3>1, Zenon DEF Delivery, ReceivedWithoutGap
      <3> QED  BY <1>1, <1>4, <1>6, <3>6, <3>7, Zenon DEF Delivery
    <2>8. CASE R # {}
      <3>1. PICK e \in R :
                /\ \A g \in R : e <= g
                /\ m_list' = [l EXCEPT ![e].count = @ + 1]
                /\ it' = [it EXCEPT ![t] = e]
                /\ GotoAndForget(t, "calling")
                /\ received' = [received EXCEPT ![e] = Append(@, d)]
        BY <1>2, <2>1, <2>8, Zenon DEF Visit
      <3>2. pc'[t] = "calling" /\ it'[t] = e
        BY <1>8, <3>1, MovedAndForgot, Zenon DEF Places, InCallback
      <3>3. e \in DOMAIN m_list /\ DOMAIN m_list' \subseteq DOMAIN m_list /\ e \in 1..entries
        BY <1>2, <1>3, <3>1, Zenon DEF Types, IsList
      <3>4. entries \in 0..MaxEntries /\ e \in 1..MaxEntries /\ e \in Nat
        BY <3>3, BoundAssumption DEF Types
      <3>5. \A g : Ahead(g)' <=> e < g
        BY <1>10, <2>4, <3>2, Zenon DEF Ahead
      <3>6. /\ received[e] \in Seq(Nat) /\ received'[e] = Append(received[e], d)
            /\ \A g \in 1..MaxEntries : g # e => received'[g] = received[g]
        BY <3>1, <3>4, Zenon DEF Types
      <3>7. /\ Len(received'[e]) = Len(received[e]) + 1 /\ Len(received[e]) \in Nat
            /\ received'[e][Len(received[e]) + 1] = d
            /\ \A i \in 1..Len(received[e]) : received'[e][i] = received[e][i]
        BY <2>6, <3>6, AppendTo, LengthOf, SMTT(20)
      <3>8. ASSUME NEW g \in DOMAIN m_list', received'[g] # <<>>
            PROVE  received'[g][Len(received'[g])] = IF Ahead(g)' THEN d - 1 ELSE d
        <4>1. g \in DOMAIN m_list /\ g \in 1..MaxEntries /\ g \in Nat
          BY <1>3, <3>3, <3>4, BoundAssumption, SMTT(20) DEF Types, IsList
        <4>2. CASE g = e
          BY <3>4, <3>5, <3>7, <4>2, SMTT(30)
        <4>3. CASE g # e
          <5>1. received'[g] = received[g]
            BY <3>6, <4>1, <4>3, Zenon
          <5>2. received[g][Len(received[g])] = IF Ahead(g) THEN d - 1 ELSE d
            BY <1>1, <3>8, <4>1, <5>1, Zenon DEF Delivered
          <5>3. Ahead(g) <=> e < g
            <6>1. CASE pc[t] = "iterate"
              BY <1>2, <1>3, <2>3, <3>1, <3>4, <4>1, <4>3, <6>1, SMTT(20)
            <6>2. CASE pc[t] = "calling"
              <7>1. R = {x \in DOMAIN m_list : x > it[t]} /\ it[t] \in Nat
                BY <1>2, <1>3, <6>2, Zenon DEF Behind
              <7>2. e > it[t]
                BY <3>1, <7>1, Zenon
              <7>3. g \in R <=> g > it[t]
                BY <4>1, <7>1, Zenon
              <7> QED  BY <2>3, <3>1, <3>4, <4>1, <4>3, <7>1, <7>2, <7>3, SMTT(20)
            <6> QED  BY <1>4, <6>1, <6>2, Zenon
          <5> QED  BY <3>5, <5>1, <5>2, <5>3, Zenon
        <4> QED  BY <4>2, <4>3, Zenon
      <3>9. Delivered(d)'
        BY <1>6, <2>5, <3>8, Zenon DEF Delivered, Sent
      <3>10. ASSUME NEW g \in 1..MaxEntries, NEW i \in 2..Len(received'[g])
             PROVE  received'[g][i] = received'[g][i - 1] + 1
        <4>1. CASE g # e
          BY <3>6, <3>10, <4>1, SMTT(20) DEF Delivery, ReceivedWithoutGap
        <4>2. CASE g = e /\ i <= Len(received[e])
          <5>1. i \in 2..Len(received[e]) /\ i \in 1..Len(received[e])
                /\ i - 1 \in 1..Len(received[e])
            BY <3>7, <3>10, <4>2
          <5> QED  BY <3>7, <4>2, <5>1, Zenon DEF Delivery, ReceivedWithoutGap
        <4>3. CASE g = e /\ i > Len(received[e])
          <5>1. i = Len(received[e]) + 1 /\ Len(received[e]) # 0
                /\ Len(received[e]) \in 1..Len(received[e]) /\ i - 1 = Len(received[e])
            BY <3>7, <3>10, <4>3
          <5>2. received[e] # <<>>
            BY <5>1, Zenon
          <5>3. received[e][Len(received[e])] = d - 1
            BY <1>1, <2>3, <3>1, <3>3, <5>2, Zenon DEF Delivered
          <5>4. received'[e][i] = d /\ received'[e][i - 1] = received[e][Len(received[e])]
            BY <3>7, <5>1, Zenon
          <5>5. (d - 1) + 1 = d
            BY <2>6
          <5> QED  BY <4>3, <5>3, <5>4, <5>5, Zenon
        <4> QED  BY <3>7, <3>10, <4>1, <4>2, <4>3, SMTT(30)
      <3>11. ReceivedWithoutGap'
        BY <3>10, Zenon DEF ReceivedWithoutGap
      <3>12. \A g \in 1..MaxEntries : g > entries' => received'[g] = <<>>
        BY <1>4, <3>3, <3>4, <3>6 DEF Delivery
      <3> QED  BY <1>1, <1>4, <1>6, <3>9, <3>11, <3>12, Zenon DEF Delivery
    <2> QED  BY <2>7, <2>8, Zenon
  <1> QED  BY <1>4, <1>9, <1>10, AfterIterateRole, Zenon

LEMMA NextDelivery == Inv /\ Delivery /\ [Next]_vars => Delivery'
  <1> SUFFICES ASSUME Inv, Delivery, [Next]_vars PROVE Delivery'
    BY Zenon
  <1>1. ASSUME NEW s \in Subscriber, Register(s) \/ Unregister(s) PROVE Delivery'
    BY <1>1, SubscriberDelivery, Zenon
  <1>2. ASSUME NEW p \in Producer, SendSignal(p) \/ SyncWithQueue(p) PROVE Delivery'
    BY <1>2, SendDelivery, Zenon
  <1>3. ASSUME NEW p \in Producer, SyncReturns(p) \/ SendChecked(p) PROVE Delivery'
    <2>1. Away
      BY <1>3, ProducerAway, Zenon
    <2>2. UNCHANGED <<m_callbacks_pending, signals>>
      BY <1>3, Zenon DEF SyncReturns, SendChecked, queueVars
    <2> QED  BY <2>1, <2>2, AwayDelivery, Zenon
  <1>4. ASSUME NEW t \in Service, ServiceTask(t) PROVE Delivery'
    <2>1. t \in Thread
      BY Zenon DEF Thread
    <2>2. Away
      BY <1>4, <2>1, ServerAway, Zenon
    <2>3. UNCHANGED <<m_callbacks_pending, signals>>
      BY <1>4, Zenon DEF ServiceTask, countVars
    <2> QED  BY <2>2, <2>3, AwayDelivery
  <1>5. ASSUME NEW t \in Thread, BeginIterate(t) \/ CallbackReturns(t) PROVE Delivery'
    BY <1>5, IterateDelivery, Zenon
  <1>6. ASSUME NEW t \in Thread,
               MaybeSchedule(t) \/ Schedule(t) \/ Fulfil(t) \/ FinishCallback(t)
        PROVE  Delivery'
    <2>1. Away
      BY <1>6, ServerAway, Zenon
    <2>2. UNCHANGED <<m_callbacks_pending, signals>>
      BY <1>6, Zenon DEF MaybeSchedule, Schedule, Fulfil, FinishCallback, queueVars, countVars
    <2> QED  BY <2>1, <2>2, AwayDelivery, Zenon
  <1>7. ASSUME NEW t \in Thread, ProcessQueue(t) PROVE Delivery'
    <2>1. CASE ~MayProcess
      <3>1. Away
        BY <1>7, <2>1, ServerAway, Zenon
      <3>2. UNCHANGED <<m_callbacks_pending, signals>>
        BY <1>7, <2>1, Zenon DEF ProcessQueue, countVars
      <3> QED  BY <3>1, <3>2, AwayDelivery
    <2> QED  BY <1>7, <2>1, TakeDelivery, SMTT(20)
  <1>8. CASE StopScheduler \/ FlushBackgroundCallbacks \/ EmptyQueue
    <2>1. UNCHANGED <<m_callbacks_pending, signals>>
      BY <1>8, Zenon DEF StopScheduler, FlushBackgroundCallbacks, EmptyQueue, queueVars, countVars
    <2> QED  BY <1>8, <2>1, ShutdownAway, AwayDelivery, Zenon
  <1>9. CASE UNCHANGED vars
    <2>1. Away
      BY <1>9, Zenon DEF Away, vars, listVars
    <2>2. UNCHANGED <<m_callbacks_pending, signals>>
      BY <1>9, Zenon DEF vars, queueVars, countVars
    <2> QED  BY <2>1, <2>2, AwayDelivery, Zenon
  <1> QED  BY <1>1, <1>2, <1>3, <1>4, <1>5, <1>6, <1>7, <1>8, <1>9, SMTT(20)
           DEF Next, Step

\* Iterate and ProcessQueue: a subscriber is called with the signals in the order they
\* were sent and misses none between two that it gets, whatever other subscribers come
\* and go while the callbacks run.
THEOREM NoSignalIsSkipped == Spec => []ReceivedWithoutGap
  <1>1. Inv /\ Delivery => ReceivedWithoutGap
    BY Zenon DEF Delivery
  <1>2. Spec => [](Inv /\ Delivery)
    BY InitInv, NextInv, InitDelivery, NextDelivery, PTL DEF Spec
  <1> QED  BY <1>1, <1>2, PTL

-----------------------------------------------------------------------------
(* The queue is serial *)

\* Running is the function of the one server in a callback.
IsRunning ==
    /\ \A t \in Server : pc[t] \in InCallback => Running = event[t]
    /\ (\A t \in Server : pc[t] \notin InCallback) => Running = NoEvent

LEMMA RunningOf == Inv => IsRunning
  <1> SUFFICES ASSUME Inv PROVE IsRunning
    OBVIOUS
  <1> DEFINE u == CHOOSE t \in Server : pc[t] \in InCallback
  <1>1. Running = IF \E t \in Server : pc[t] \in InCallback THEN event[u] ELSE NoEvent
    BY Zenon DEF Running, Server, InCallback
  <1>2. ASSUME NEW t \in Server, pc[t] \in InCallback PROVE u = t
    <2>1. u \in Server /\ pc[u] \in InCallback
      BY <1>2, Zenon
    <2> HIDE DEF u
    <2> QED  BY <1>2, <2>1, Zenon DEF Inv, Roles
  <1> HIDE DEF u
  <1> QED  BY <1>1, <1>2, Zenon DEF IsRunning

LEMMA RunningKept ==
    ASSUME IsRunning, IsRunning',
           \A t \in Server : /\ pc'[t] \in InCallback <=> pc[t] \in InCallback
                             /\ pc[t] \in InCallback => event'[t] = event[t]
    PROVE  Running' = Running
  BY DEF IsRunning

\* The steps at the two ends of a callback.
LEMMA BeginSerial ==
    ASSUME Inv, IsRunning, IsRunning', NEW t \in Thread, ProcessQueue(t), MayProcess
    PROVE  Serial!Begin
  <1>1. /\ t \in Server /\ event'[t] = Head(m_callbacks_pending)
        /\ IF Head(m_callbacks_pending) \in Signal THEN pc'[t] = "iterate"
           ELSE pc'[t] = "fulfil"
    BY ProcessRoles, Zenon
  <1>2. Running' = Head(m_callbacks_pending)
    BY <1>1, Zenon DEF IsRunning, InCallback
  <1>3. /\ m_callbacks_pending # <<>> /\ m_callbacks_pending' = Tail(m_callbacks_pending)
        /\ ~m_are_callbacks_running
    BY Zenon DEF ProcessQueue, MayProcess
  <1>4. Running = NoEvent
    BY <1>3, Zenon DEF Inv, Roles, IsRunning
  <1> QED  BY <1>2, <1>3, <1>4, Zenon DEF Serial!Begin

LEMMA FinishSerial ==
    ASSUME Inv, Inv', IsRunning, IsRunning', NEW t \in Thread, FinishCallback(t)
    PROVE  Serial!Finish
  <1>1. t \in Server /\ pc[t] = "finish" /\ event[t] \in Signal \cup Sync
    BY CallbackRoles, Zenon DEF FinishCallback, Inv, Roles
  <1>2. Running # NoEvent
    BY <1>1, Kinds, Zenon DEF IsRunning, InCallback
  <1>3. Running' = NoEvent
    BY Zenon DEF FinishCallback, Inv, Roles, IsRunning
  <1>4. m_callbacks_pending' = m_callbacks_pending
    BY Zenon DEF FinishCallback
  <1> QED  BY <1>2, <1>3, <1>4, Zenon DEF Serial!Finish

LEMMA EnqueueSerial ==
    ASSUME Inv, IsRunning, IsRunning', NEW p \in Producer, SendSignal(p) \/ SyncWithQueue(p)
    PROVE  \E f \in Signal \cup Sync : Serial!Enqueue(f)
  <1> USE DEF Inv
  <1>1. p \notin Server
    BY ThreadAssumption, Zenon DEF Server
  <1>2. PICK f \in Signal \cup Sync : AddToProcessQueue(p, f)
    <2>1. SendSignal(p) => Sent(signals + 1) \in Signal
      BY BoundAssumption DEF SendSignal, Signal, Sent, Types
    <2>2. [kind |-> "sync", by |-> p] \in Sync
      BY Zenon DEF Sync
    <2> QED  BY <2>1, <2>2, Zenon DEF SendSignal, SyncWithQueue, Sent
  <1>3. \A t \in Server : pc'[t] = pc[t] /\ event'[t] = event[t]
    BY <1>1, <1>2, Zenon DEF AddToProcessQueue, Goto, Types, Server, Thread
  <1>4. Running' = Running
    BY <1>3, RunningKept, Zenon
  <1> QED  BY <1>2, <1>4, Zenon DEF Serial!Enqueue, AddToProcessQueue

\* The other steps do not touch the queue or the callback that runs.
LEMMA OtherSerial ==
    ASSUME Inv, Inv', IsRunning, IsRunning',
           \/ \E s \in Subscriber : Register(s) \/ Unregister(s)
           \/ \E p \in Producer : SyncReturns(p) \/ SendChecked(p)
           \/ \E t \in Service : ServiceTask(t)
           \/ \E t \in Thread : \/ BeginIterate(t) \/ CallbackReturns(t) \/ MaybeSchedule(t)
                                \/ Schedule(t) \/ Fulfil(t) \/ (ProcessQueue(t) /\ ~MayProcess)
           \/ StopScheduler \/ FlushBackgroundCallbacks \/ EmptyQueue
           \/ UNCHANGED vars
    PROVE  UNCHANGED <<m_callbacks_pending, Running>>
  <1>1. UNCHANGED m_callbacks_pending
    BY Zenon DEF Register, Unregister, SyncReturns, SendChecked, ServiceTask, BeginIterate,
           CallbackReturns, MaybeSchedule, Schedule, Fulfil, ProcessQueue, StopScheduler,
           FlushBackgroundCallbacks, EmptyQueue, vars, queueVars
  <1>2. ASSUME NEW t \in Thread,
               \A u \in Thread \ {t} : pc'[u] = pc[u] /\ event'[u] = event[u],
               t \in Server => /\ pc'[t] \in InCallback <=> pc[t] \in InCallback
                               /\ pc[t] \in InCallback => event'[t] = event[t]
        PROVE  Running' = Running
    BY <1>2, RunningKept, Zenon DEF Server, Thread
  <1>3. ASSUME UNCHANGED <<pc, event>> PROVE Running' = Running
    BY <1>3, Zenon DEF Running
  <1>4. CASE (\E s \in Subscriber : Register(s) \/ Unregister(s)) \/ UNCHANGED vars
    BY <1>1, <1>3, <1>4, Zenon DEF Register, Unregister, vars
  <1>5. ASSUME NEW p \in Producer, SyncReturns(p) \/ SendChecked(p)
        PROVE  Running' = Running
    <2>1. p \in Thread /\ p \notin Server
      BY ThreadAssumption, Zenon DEF Thread, Server
    <2>2. \A u \in Thread \ {p} : pc'[u] = pc[u] /\ event'[u] = event[u]
      BY <1>5, Zenon DEF SyncReturns, SendChecked, GotoAndForget, Goto, Inv, Types
    <2> QED  BY <1>2, <2>1, <2>2, Zenon
  <1>6. ASSUME NEW t \in Thread,
               \/ MaybeSchedule(t) \/ Schedule(t) \/ (ProcessQueue(t) /\ ~MayProcess)
               \/ (t \in Service /\ ServiceTask(t))
        PROVE  Running' = Running
    <2>1. \A u \in Thread \ {t} : pc'[u] = pc[u] /\ event'[u] = event[u]
      BY <1>6, ServerAway, Zenon
    <2>2. pc[t] \notin InCallback
      BY <1>6, Zenon DEF MaybeSchedule, Schedule, ProcessQueue, ServiceTask, InCallback
    <2>3. pc'[t] \notin InCallback
      BY <1>6, Zenon DEF MaybeSchedule, Schedule, ProcessQueue, ServiceTask, InCallback, Caller,
                  GotoAndForget, Goto, Inv, Types
    <2> QED  BY <1>2, <2>1, <2>2, <2>3, Zenon
  <1>7. ASSUME NEW t \in Thread, Fulfil(t) PROVE Running' = Running
    <2>1. /\ \A u \in Thread \ {t} : pc'[u] = pc[u] /\ event'[u] = event[u]
          /\ pc'[t] = "finish" /\ event'[t] = event[t]
      BY <1>7, CallbackRoles, Zenon
    <2>2. pc[t] = "fulfil"
      BY <1>7, Zenon DEF Fulfil
    <2> QED  BY <1>2, <2>1, <2>2, Zenon DEF InCallback
  <1>8. ASSUME NEW t \in Thread, BeginIterate(t) \/ CallbackReturns(t)
        PROVE  Running' = Running
    <2>1. PICK l, R :
              /\ IsList(l) /\ R \in SUBSET (DOMAIN l) /\ Visit(t, l, R, AfterIterate(t))
      BY <1>8, IterateStops, Zenon
    <2>2. pc[t] \in {"iterate", "calling"} /\ UNCHANGED entries
      BY <1>8, Zenon DEF BeginIterate, CallbackReturns
    <2>3. AfterIterate(t) \in Places /\ Types
      BY <2>2, AfterIterateRole, Zenon DEF Inv
    <2>4. /\ \A u \in Thread \ {t} : pc'[u] = pc[u] /\ event'[u] = event[u]
          /\ pc'[t] \in {"calling", AfterIterate(t)}
          /\ pc'[t] # "idle" => event'[t] = event[t]
      BY <2>1, <2>2, <2>3, Visited, Zenon
    <2>5. t \in Server => AfterIterate(t) = "finish"
      BY <2>2, AfterIterateRole, Zenon
    <2> QED  BY <1>2, <2>2, <2>4, <2>5, Zenon DEF InCallback
  <1>9. CASE StopScheduler \/ FlushBackgroundCallbacks \/ EmptyQueue
    <2>1. \A u \in Thread : /\ event'[u] = event[u]
                            /\ \/ pc'[u] = pc[u]
                               \/ pc[u] \notin InCallback /\ pc'[u] \notin InCallback
      BY <1>9, ShutdownRoles, Zenon
    <2>2. \A u \in Server : /\ pc'[u] \in InCallback <=> pc[u] \in InCallback
                            /\ pc[u] \in InCallback => event'[u] = event[u]
      BY <2>1, Zenon DEF Server, Thread
    <2> QED  BY <1>1, <2>2, RunningKept, Zenon
  <1>10. \A t \in Service : t \in Thread
    BY Zenon DEF Thread
  <1> QED  BY <1>1, <1>4, <1>5, <1>6, <1>7, <1>8, <1>9, <1>10, Zenon

LEMMA SerialStep == Inv /\ Inv' /\ IsRunning /\ IsRunning' /\ [Next]_vars
                        => [Serial!Next]_(Serial!vars)
  <1> SUFFICES ASSUME Inv, Inv', IsRunning, IsRunning', [Next]_vars
               PROVE  Serial!Next \/ UNCHANGED <<m_callbacks_pending, Running>>
    BY Zenon DEF Serial!vars
  <1>1. ASSUME NEW p \in Producer, SendSignal(p) \/ SyncWithQueue(p) PROVE Serial!Next
    BY <1>1, EnqueueSerial, Zenon DEF Serial!Next
  <1>2. ASSUME NEW t \in Thread, ProcessQueue(t), MayProcess PROVE Serial!Next
    BY <1>2, BeginSerial, Zenon DEF Serial!Next
  <1>3. ASSUME NEW t \in Thread, FinishCallback(t) PROVE Serial!Next
    BY <1>3, FinishSerial, Zenon DEF Serial!Next
  <1> QED  BY <1>1, <1>2, <1>3, OtherSerial, Zenon DEF Next, Step

\* SingleThreadedSchedulerClient: although several threads serve the scheduler and
\* several ProcessQueue tasks may be scheduled at once, the functions run one at a time,
\* each once, in the order they were added.
THEOREM CallbacksAreSerial == Spec => ImplementsCallbackQueue
  <1>1. Init => Serial!Init
    <2> SUFFICES ASSUME Init PROVE Serial!Init
      OBVIOUS
    <2>1. \A t \in Service \cup {Main} : pc[t] = "idle"
      BY Zenon DEF Init, Thread
    <2>2. Running = NoEvent
      BY <2>1, Zenon DEF Running
    <2> QED  BY <2>2, Zenon DEF Init, Serial!Init
  <1>2. Spec => [](Inv /\ IsRunning)
    BY InitInv, NextInv, RunningOf, PTL DEF Spec
  <1> QED  BY <1>1, <1>2, SerialStep, PTL DEF Spec, ImplementsCallbackQueue, Serial!Spec
=============================================================================
