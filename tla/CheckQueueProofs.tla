-------------------------- MODULE CheckQueueProofs --------------------------
(***************************************************************************)
(* Proofs about CheckQueue, for any number of workers and controllers, any *)
(* batches, any nBatchSize and any number of sessions.                     *)
(***************************************************************************)
EXTENDS CheckQueue, FiniteSetTheorems, SequenceTheorems, TLAPS

-----------------------------------------------------------------------------
(* Sequences of checks *)

AllTrue(s) == \A i \in DOMAIN s : s[i]

\* What Add does to the queue: the checks of the batch come after those queued.
LEMMA AddedChecks ==
    ASSUME NEW s \in Seq(BOOLEAN), NEW r \in Seq(BOOLEAN)
    PROVE  /\ s \o r \in Seq(BOOLEAN)
           /\ Len(s \o r) = Len(s) + Len(r)
           /\ AllTrue(s \o r) <=> AllTrue(s) /\ AllTrue(r)
  <1>1. /\ s \o r \in Seq(BOOLEAN)
        /\ Len(s \o r) = Len(s) + Len(r)
        /\ \A i \in 1..Len(s) + Len(r) :
               (s \o r)[i] = IF i <= Len(s) THEN s[i] ELSE r[i - Len(s)]
    BY ConcatProperties, Zenon
  <1>2. /\ DOMAIN s = 1..Len(s) /\ Len(s) \in Nat
        /\ DOMAIN r = 1..Len(r) /\ Len(r) \in Nat
        /\ DOMAIN (s \o r) = 1..Len(s) + Len(r)
    BY <1>1, LenProperties, Zenon
  <1>3. ASSUME AllTrue(s \o r)
        PROVE  AllTrue(s) /\ AllTrue(r)
    <2>1. ASSUME NEW i \in DOMAIN s PROVE s[i]
      BY <1>1, <1>2, <1>3 DEF AllTrue
    <2>2. ASSUME NEW i \in DOMAIN r PROVE r[i]
      <3>1. i + Len(s) \in DOMAIN (s \o r) /\ (s \o r)[i + Len(s)] = r[i]
        BY <1>1, <1>2
      <3> QED  BY <3>1, <1>3, Zenon DEF AllTrue
    <2> QED  BY <2>1, <2>2, Zenon DEF AllTrue
  <1>4. ASSUME AllTrue(s), AllTrue(r)
        PROVE  AllTrue(s \o r)
    BY <1>1, <1>2, <1>4 DEF AllTrue
  <1> QED  BY <1>1, <1>3, <1>4, Zenon

\* What Take does to it: the last n checks move, in reverse order, and no other.
LEMMA TakenChecks ==
    ASSUME NEW s \in Seq(BOOLEAN), NEW n \in 1..Len(s)
    PROVE  /\ SubSeq(s, 1, Len(s) - n) \in Seq(BOOLEAN)
           /\ Len(SubSeq(s, 1, Len(s) - n)) = Len(s) - n
           /\ [i \in 1..n |-> s[Len(s) - i + 1]] \in Seq(BOOLEAN)
           /\ AllTrue(s) <=> /\ AllTrue(SubSeq(s, 1, Len(s) - n))
                             /\ AllTrue([i \in 1..n |-> s[Len(s) - i + 1]])
  <1> DEFINE L == Len(s)
             front == SubSeq(s, 1, L - n)
             taken == [i \in 1..n |-> s[L - i + 1]]
  <1>1. /\ L \in Nat /\ n \in 1..L /\ DOMAIN s = 1..L
        /\ \A i \in 1..L : s[i] \in BOOLEAN
    BY LenProperties, ElementOfSeq, Zenon
  <1> HIDE DEF L
  <1>2. /\ front \in Seq(BOOLEAN) /\ Len(front) = L - n
        /\ \A i \in 1..L - n : front[i] = s[i]
    <2>1. \A i \in 1..L - n : s[i] \in BOOLEAN
      BY <1>1
    <2>2. /\ front \in Seq(BOOLEAN)
          /\ Len(front) = IF 1 <= L - n THEN L - n - 1 + 1 ELSE 0
          /\ \A i \in 1..(L - n) - 1 + 1 : front[i] = s[1 + i - 1]
      BY <1>1, <2>1, SubSeqProperties
    <2> QED  BY <1>1, <2>2
  <1>3. DOMAIN front = 1..L - n
    BY <1>2, LenProperties, Zenon
  <1> HIDE DEF front
  <1>4. /\ taken \in Seq(BOOLEAN) /\ DOMAIN taken = 1..n
        /\ \A i \in 1..n : taken[i] = s[L - i + 1]
    BY <1>1
  <1> HIDE DEF taken
  <1>5. ASSUME AllTrue(s)
        PROVE  AllTrue(front) /\ AllTrue(taken)
    <2>1. ASSUME NEW i \in DOMAIN front PROVE front[i]
      BY <1>1, <1>2, <1>3, <1>5 DEF AllTrue
    <2>2. ASSUME NEW i \in DOMAIN taken PROVE taken[i]
      <3>1. L - i + 1 \in 1..L /\ taken[i] = s[L - i + 1]
        BY <1>1, <1>4
      <3> QED  BY <1>1, <1>5, <3>1, Zenon DEF AllTrue
    <2> QED  BY <2>1, <2>2, Zenon DEF AllTrue
  <1>6. ASSUME AllTrue(front), AllTrue(taken), NEW i \in 1..L
        PROVE  s[i]
    <2>1. CASE i <= L - n
      BY <1>1, <1>2, <1>3, <1>6, <2>1 DEF AllTrue
    <2>2. CASE i > L - n
      <3>1. L - i + 1 \in 1..n /\ taken[L - i + 1] = s[i]
        BY <1>1, <1>4, <2>2
      <3> QED  BY <3>1, <1>4, <1>6, Zenon DEF AllTrue
    <2> QED  BY <1>1, <2>1, <2>2
  <1>7. AllTrue(s) <=> AllTrue(front) /\ AllTrue(taken)
    BY <1>1, <1>5, <1>6, Zenon DEF AllTrue
  <1> QED  BY <1>2, <1>4, <1>7, Zenon DEF front, taken, L

\* A thread takes at least one check, no more than nBatchSize and no more than
\* there are, whatever the counters say.
LEMMA ShareBounds ==
    ASSUME queue \in Seq(BOOLEAN), queue # <<>>,
           NEW total \in Nat, NEW idle \in Nat
    PROVE  /\ Share(total, idle) \in 1..nBatchSize
           /\ Share(total, idle) <= Len(queue)
  <1> DEFINE q == Len(queue) \div (total + idle + 1)
             m == Min({nBatchSize, q})
  <1>1. Len(queue) \in Nat \ {0} /\ nBatchSize \in Nat \ {0}
    BY ThreadAssumption, EmptySeq, Zenon
  <1>2. q \in 0..Len(queue)
    BY <1>1
  <1> HIDE DEF q
  <1>3. m = IF nBatchSize <= q THEN nBatchSize ELSE q
    BY <1>1, <1>2 DEF Min
  <1> HIDE DEF m
  <1>4. Max({1, m}) = IF 1 >= m THEN 1 ELSE m
    BY <1>1, <1>2, <1>3 DEF Max
  <1> QED  BY <1>1, <1>2, <1>3, <1>4 DEF Share, q, m

-----------------------------------------------------------------------------
(* Counting *)

LEMMA ThreadFinite == /\ IsFiniteSet(Thread)
                      /\ \A S \in SUBSET Thread : IsFiniteSet(S) /\ Cardinality(S) \in Nat
  <1>1. IsFiniteSet(Thread)
    BY ThreadAssumption, FS_Union, Zenon DEF Thread
  <1>2. ASSUME NEW S \in SUBSET Thread
        PROVE  IsFiniteSet(S) /\ Cardinality(S) \in Nat
    BY <1>1, FS_Subset, FS_CardinalityType, Zenon
  <1> QED  BY <1>1, <1>2, Zenon

One(b) == IF b THEN 1 ELSE 0

\* The size of a set of threads when only thread t comes or goes.
LEMMA OneMoves ==
    ASSUME NEW A \in SUBSET Thread, NEW B \in SUBSET Thread, NEW t,
           A \ {t} = B \ {t}
    PROVE  /\ Cardinality(A) \in Nat /\ Cardinality(B) \in Nat
           /\ Cardinality(B) = Cardinality(A \ {t}) + One(t \in B)
           /\ Cardinality(A) = Cardinality(A \ {t}) + One(t \in A)
  <1>1. /\ IsFiniteSet(A) /\ Cardinality(A) \in Nat
        /\ IsFiniteSet(B) /\ Cardinality(B) \in Nat
    BY ThreadFinite, Zenon
  <1>2. Cardinality(A \ {t}) = IF t \in A THEN Cardinality(A) - 1 ELSE Cardinality(A)
    BY <1>1, FS_RemoveElement, Zenon
  <1>3. Cardinality(B \ {t}) = IF t \in B THEN Cardinality(B) - 1 ELSE Cardinality(B)
    BY <1>1, FS_RemoveElement, Zenon
  <1> QED  BY <1>1, <1>2, <1>3 DEF One

\* The checks that the threads of P have taken, as pairs: a thread and a number up
\* to its nNow.
Held(P, n) == {h \in P \X (1..nBatchSize) : h[2] <= n[h[1]]}

LEMMA FirstNumbers ==
    ASSUME NEW k \in Nat
    PROVE  IsFiniteSet(1..k) /\ Cardinality(1..k) = k
  <1>1. /\ IsFiniteSet(1..k)
        /\ Cardinality(1..k) = IF 1 > k THEN 0 ELSE k - 1 + 1
    <2>1. 1 \in Int /\ k \in Int
      OBVIOUS
    <2> QED  BY <2>1, FS_Interval, Zenon
  <1>2. IF 1 > k THEN k = 0 ELSE k - 1 + 1 = k
    OBVIOUS
  <1> QED  BY <1>1, <1>2

LEMMA HeldFinite ==
    ASSUME NEW Q \in SUBSET Thread, NEW n \in [Thread -> 0..nBatchSize]
    PROVE  IsFiniteSet(Held(Q, n)) /\ Cardinality(Held(Q, n)) \in Nat
  <1>1. IsFiniteSet(Q) /\ IsFiniteSet(1..nBatchSize)
    BY ThreadAssumption, ThreadFinite, FirstNumbers, Zenon
  <1>2. IsFiniteSet(Q \X (1..nBatchSize))
    BY <1>1, FS_Product, Zenon
  <1>3. IsFiniteSet(Held(Q, n))
    BY <1>2, FS_Subset, Zenon DEF Held
  <1> QED  BY <1>3, FS_CardinalityType, Zenon

LEMMA HeldSplit ==
    ASSUME NEW P \in SUBSET Thread, NEW n \in [Thread -> 0..nBatchSize], NEW t
    PROVE  /\ Cardinality(Held(P, n)) \in Nat
           /\ Cardinality(Held(P, n)) = Cardinality(Held(P \ {t}, n))
                                          + IF t \in P THEN n[t] ELSE 0
  <1>1. nBatchSize \in Nat
    BY ThreadAssumption, Zenon
  <1>2. ASSUME NEW Q \in SUBSET Thread
        PROVE  IsFiniteSet(Held(Q, n)) /\ Cardinality(Held(Q, n)) \in Nat
    BY HeldFinite, Zenon
  <1>3. CASE t \notin P
    <2>1. P \ {t} = P
      BY <1>3, Zenon
    <2>2. Held(P \ {t}, n) = Held(P, n)
      BY <2>1, Zenon
    <2>3. Cardinality(Held(P, n)) \in Nat
      BY <1>2, Zenon
    <2> QED  BY <1>3, <2>2, <2>3
  <1>4. CASE t \in P
    <2> DEFINE mine == {t} \X (1..n[t])
    <2>1. n[t] \in 0..nBatchSize
      BY <1>4, Zenon
    <2>2. IsFiniteSet(mine) /\ Cardinality(mine) = n[t]
      <3>1. /\ IsFiniteSet({t}) /\ Cardinality({t}) = 1
            /\ IsFiniteSet(1..n[t]) /\ Cardinality(1..n[t]) = n[t]
        <4>1. IsFiniteSet({t}) /\ Cardinality({t}) = 1
          BY FS_Singleton, Zenon
        <4>2. n[t] \in Nat
          BY <1>1, <2>1
        <4> QED  BY <4>1, <4>2, FirstNumbers, Zenon
      <3>2. IsFiniteSet(mine) /\ Cardinality(mine) = 1 * n[t]
        BY <3>1, FS_Product, ZenonT(30)
      <3> QED  BY <2>1, <3>2
    <2>3. Held(P, n) = Held(P \ {t}, n) \cup mine
      BY <1>1, <1>4, <2>1 DEF Held
    <2>4. Held(P \ {t}, n) \cap mine = {}
      BY Zenon DEF Held
    <2>5. IsFiniteSet(Held(P \ {t}, n)) /\ Cardinality(Held(P \ {t}, n)) \in Nat
      BY <1>2, Zenon
    <2> HIDE DEF mine
    <2>6. Cardinality(Held(P, n)) = Cardinality(Held(P \ {t}, n)) + Cardinality(mine)
                                      - Cardinality(Held(P \ {t}, n) \cap mine)
      BY <2>2, <2>3, <2>5, FS_Union, Zenon
    <2>7. Cardinality(Held(P \ {t}, n) \cap mine) = 0
      BY <2>4, FS_EmptySet, Zenon
    <2> QED  BY <1>1, <1>4, <2>1, <2>2, <2>5, <2>6, <2>7
  <1> QED  BY <1>3, <1>4, Zenon

-----------------------------------------------------------------------------
(* The inductive invariant *)

Places == {"outside", "adding", "enter", "asleep", "woken", "working", "done", "returned"}

\* Threads that wait or have not yet noticed that they were woken, threads inside
\* the loop of Loop(), and threads with a batch.
Idle    == {t \in Thread : pc[t] \in {"asleep", "woken"}}
InLoop  == {t \in Thread : pc[t] \in {"asleep", "woken", "working", "done"}}
Holding == {t \in Thread : pc[t] \in {"working", "done"}}

\* TypeOK without its bounds on the counters, which follow from Counts.
Types ==
    /\ queue \in Seq(BOOLEAN) /\ fAllOk \in BOOLEAN /\ added \in Seq(BOOLEAN)
    /\ ControlMutex \in Controller \cup {NoThread}
    /\ pc \in [Thread -> Places]
    /\ vChecks \in [Thread -> Seq(BOOLEAN)] /\ nNow \in [Thread -> 0..nBatchSize]
    /\ fOk \in [Thread -> BOOLEAN] /\ fRet \in [Controller -> BOOLEAN]

\* The three counters say what their comments in checkqueue.h say.
Counts ==
    /\ nIdle = Cardinality(Idle)
    /\ nTotal = Cardinality(InLoop)
    /\ nTodo = Len(queue) + Cardinality(Held(Holding, nNow))

\* ControlMutex keeps the controllers apart, and workers never control.
Exclusive ==
    /\ \A m \in Controller : pc[m] # "outside" <=> ControlMutex = m
    /\ \A w \in Worker : pc[w] \notin {"outside", "adding", "returned"}

\* Only a working thread holds checks, a batch is never empty, and a thread that
\* began with a negative verdict began after fAllOk became false.
Locals ==
    \A t \in Thread :
        /\ pc[t] # "working" => vChecks[t] = <<>>
        /\ t \in Holding => nNow[t] >= 1
        /\ pc[t] = "working" => (fAllOk => fOk[t])

\* No check that a thread has taken and not yet settled fails.
Clean ==
    \A t \in Thread : /\ pc[t] = "working" => AllTrue(vChecks[t])
                      /\ pc[t] = "done" => fOk[t]

Open == \E m \in Controller : pc[m] \notin {"outside", "returned"}

\* The verdict so far and the checks still out make up those of the session; out
\* of a session nothing is left.
Verdict ==
    /\ Open => (AllTrue(added) <=> fAllOk /\ AllTrue(queue) /\ Clean)
    /\ ~Open => queue = <<>> /\ fAllOk /\ Holding = {}
    /\ \A m \in Controller : pc[m] = "returned" => (fRet[m] <=> AllTrue(added))

IInv == Types /\ Counts /\ Exclusive /\ Locals /\ Verdict

LEMMA InitIInv == Init => IInv
  <1> SUFFICES ASSUME Init PROVE IInv
    BY Zenon
  <1> USE ThreadAssumption
  <1>1. Types
    BY DEF Init, Types, Places
  <1>2. Idle = {} /\ InLoop = {} /\ Holding = {}
    BY Zenon DEF Init, Idle, InLoop, Holding
  <1>3. Held(Holding, nNow) = {}
    BY <1>2, Zenon DEF Held
  <1>4. Counts
    <2>1. Cardinality({}) = 0
      BY FS_EmptySet, Zenon
    <2>2. Len(queue) = 0
      BY EmptySeq, Zenon DEF Init
    <2>3. Cardinality(Idle) = 0 /\ Cardinality(InLoop) = 0
      BY <1>2, <2>1, Zenon
    <2>4. Cardinality(Held(Holding, nNow)) = 0
      BY <1>3, <2>1, Zenon
    <2>5. nIdle = 0 /\ nTotal = 0 /\ nTodo = 0
      BY Zenon DEF Init
    <2> QED  BY <2>2, <2>3, <2>4, <2>5 DEF Counts
  <1>5. Exclusive
    BY Zenon DEF Init, Exclusive, Thread
  <1>6. Locals
    BY <1>2, Zenon DEF Init, Locals
  <1>7. ~Open
    BY Zenon DEF Init, Open, Thread
  <1>8. Verdict
    BY <1>2, <1>7, Zenon DEF Init, Verdict, Thread
  <1> QED  BY <1>1, <1>4, <1>5, <1>6, <1>8, Zenon DEF IInv

-----------------------------------------------------------------------------
(* The sections of Loop *)

\* Settled(t) in terms of the other threads.
LEMMA SettledCounts ==
    ASSUME IInv, NEW t \in Thread, InSection(t)
    PROVE  /\ Settled(t).idle = Cardinality(Idle \ {t})
           /\ Settled(t).total = Cardinality(InLoop \ {t}) + 1
           /\ Settled(t).todo = Len(queue) + Cardinality(Held(Holding \ {t}, nNow))
           /\ Settled(t).ok = (fAllOk /\ (pc[t] = "done" => fOk[t]))
           /\ Cardinality(Idle \ {t}) \in Nat /\ Cardinality(InLoop \ {t}) \in Nat
           /\ Cardinality(Held(Holding \ {t}, nNow)) \in Nat /\ Len(queue) \in Nat
           /\ Settled(t).idle \in Nat /\ Settled(t).total \in Nat
  <1> USE DEF IInv
  <1>1. pc[t] \in {"enter", "done", "woken"}
    BY Zenon DEF InSection
  <1>2. /\ Idle \in SUBSET Thread /\ InLoop \in SUBSET Thread /\ Holding \in SUBSET Thread
        /\ t \in Idle <=> pc[t] = "woken"
        /\ t \in InLoop <=> pc[t] # "enter"
        /\ t \in Holding <=> pc[t] = "done"
    BY <1>1, Zenon DEF Idle, InLoop, Holding
  <1>3. /\ Cardinality(Idle \ {t}) \in Nat /\ Cardinality(InLoop \ {t}) \in Nat
        /\ Cardinality(Held(Holding \ {t}, nNow)) \in Nat /\ Len(queue) \in Nat
    <2>1. Idle \ {t} \in SUBSET Thread /\ InLoop \ {t} \in SUBSET Thread
      BY <1>2, Zenon
    <2>2. Holding \ {t} \in SUBSET Thread /\ nNow \in [Thread -> 0..nBatchSize]
      BY <1>2, Zenon DEF Types
    <2>3. Cardinality(Held(Holding \ {t}, nNow)) \in Nat
      BY <2>2, HeldSplit, Zenon
    <2>4. Len(queue) \in Nat
      BY LenProperties, Zenon DEF Types
    <2> QED  BY <2>1, <2>3, <2>4, ThreadFinite, Zenon
  <1>4. nIdle = Cardinality(Idle \ {t}) + One(t \in Idle)
    BY <1>2, OneMoves DEF Counts
  <1>5. nTotal = Cardinality(InLoop \ {t}) + One(t \in InLoop)
    BY <1>2, OneMoves DEF Counts
  <1>6. nTodo = Len(queue) + Cardinality(Held(Holding \ {t}, nNow))
                  + IF t \in Holding THEN nNow[t] ELSE 0
    <2>1. Cardinality(Held(Holding, nNow)) = Cardinality(Held(Holding \ {t}, nNow))
                                               + IF t \in Holding THEN nNow[t] ELSE 0
      <3>1. nNow \in [Thread -> 0..nBatchSize]
        BY Zenon DEF Types
      <3> QED  BY <1>2, <3>1, HeldSplit
    <2>2. nNow[t] \in Nat
      BY ThreadAssumption DEF Types
    <2> QED  BY <1>3, <2>1, <2>2 DEF Counts
  <1>7. nNow[t] \in Nat
    BY ThreadAssumption DEF Types
  <1>8. Settled(t).idle = Cardinality(Idle \ {t})
    BY <1>1, <1>2, <1>3, <1>4 DEF Settled, One
  <1>9. Settled(t).total = Cardinality(InLoop \ {t}) + 1
    BY <1>1, <1>2, <1>3, <1>5 DEF Settled, One
  <1>10. Settled(t).todo = Len(queue) + Cardinality(Held(Holding \ {t}, nNow))
    BY <1>1, <1>2, <1>3, <1>6, <1>7 DEF Settled
  <1>11. Settled(t).ok = (fAllOk /\ (pc[t] = "done" => fOk[t]))
    BY Zenon DEF Settled
  <1> QED  BY <1>3, <1>8, <1>9, <1>10, <1>11

\* Whoever leaves a section wakes at most sleeping controllers.
LEMMA LeaveMoves ==
    ASSUME Types, NEW t \in Thread, NEW p \in Places, Leave(t, p)
    PROVE  /\ pc' \in [Thread -> Places]
           /\ pc'[t] = p
           /\ \A u \in Thread \ {t} :
                  \/ pc'[u] = pc[u]
                  \/ u \in Controller /\ pc[u] = "asleep" /\ pc'[u] = "woken"
  BY Zenon DEF Types, Leave, NotifyMaster, Asleep, Places, Thread

\* The sets behind the counters change by thread t alone.
LEMMA LeaveSets ==
    ASSUME Types, NEW t \in Thread, NEW p \in Places, Leave(t, p)
    PROVE  /\ Idle' \in SUBSET Thread /\ Idle' \ {t} = Idle \ {t}
           /\ InLoop' \in SUBSET Thread /\ InLoop' \ {t} = InLoop \ {t}
           /\ Holding' \in SUBSET Thread /\ Holding' \ {t} = Holding \ {t}
           /\ t \in Idle' <=> p \in {"asleep", "woken"}
           /\ t \in InLoop' <=> p \in {"asleep", "woken", "working", "done"}
           /\ t \in Holding' <=> p \in {"working", "done"}
  BY LeaveMoves, Zenon DEF Idle, InLoop, Holding

LEMMA LeaveExclusive ==
    ASSUME IInv, NEW t \in Thread, NEW p \in Places \ {"outside", "adding"},
           InSection(t), p = "returned" => t \in Controller,
           Leave(t, p), UNCHANGED ControlMutex
    PROVE  Exclusive'
  BY LeaveMoves, ThreadAssumption DEF IInv, Exclusive, InSection, Thread

\* A section ends with counters that fit what t has become.
LEMMA LeaveCounts ==
    ASSUME IInv, NEW t \in Thread, NEW p \in Places, InSection(t), Leave(t, p),
           nIdle' = Settled(t).idle + One(p \in {"asleep", "woken"}),
           nTotal' = Settled(t).total - One(p \notin {"asleep", "woken", "working", "done"}),
           nTodo' = Settled(t).todo, queue' \in Seq(BOOLEAN),
           nNow' \in [Thread -> 0..nBatchSize],
           \A u \in Thread \ {t} : nNow'[u] = nNow[u],
           Len(queue') = Len(queue) - IF p \in {"working", "done"} THEN nNow'[t] ELSE 0
    PROVE  Counts'
  <1> DEFINE idle == Cardinality(Idle \ {t})
             total == Cardinality(InLoop \ {t})
             held == Cardinality(Held(Holding \ {t}, nNow))
  <1>1. /\ Settled(t).idle = idle /\ Settled(t).total = total + 1
        /\ Settled(t).todo = Len(queue) + held
        /\ idle \in Nat /\ total \in Nat /\ held \in Nat /\ Len(queue) \in Nat
    BY SettledCounts, Zenon
  <1>2. Types
    BY Zenon DEF IInv
  <1>3. /\ Idle' \in SUBSET Thread /\ Idle' \ {t} = Idle \ {t}
        /\ InLoop' \in SUBSET Thread /\ InLoop' \ {t} = InLoop \ {t}
        /\ Holding' \in SUBSET Thread /\ Holding' \ {t} = Holding \ {t}
        /\ t \in Idle' <=> p \in {"asleep", "woken"}
        /\ t \in InLoop' <=> p \in {"asleep", "woken", "working", "done"}
        /\ t \in Holding' <=> p \in {"working", "done"}
    BY <1>2, LeaveSets, Zenon
  <1>4. Idle \in SUBSET Thread /\ InLoop \in SUBSET Thread /\ Holding \in SUBSET Thread
    BY Zenon DEF Idle, InLoop, Holding
  <1>5. Cardinality(Idle') = idle + One(t \in Idle')
    BY <1>3, <1>4, OneMoves
  <1>6. Cardinality(InLoop') = total + One(t \in InLoop')
    BY <1>3, <1>4, OneMoves
  <1>7. Cardinality(Held(Holding', nNow')) = held + IF t \in Holding' THEN nNow'[t] ELSE 0
    <2>1. nNow \in [Thread -> 0..nBatchSize]
      BY <1>2, Zenon DEF Types
    <2>2. Held(Holding' \ {t}, nNow') = Held(Holding \ {t}, nNow)
      <3>1. Holding' \in SUBSET Thread /\ Holding \in SUBSET Thread
        BY <1>3, <1>4, Zenon
      <3>2. Holding' \ {t} = Holding \ {t}
        BY <1>3, Zenon
      <3> HIDE DEF Holding
      <3> QED  BY <3>1, <3>2, Zenon DEF Held
    <2>3. Cardinality(Held(Holding', nNow')) = Cardinality(Held(Holding' \ {t}, nNow'))
                                                 + IF t \in Holding' THEN nNow'[t] ELSE 0
      <3>1. Holding' \in SUBSET Thread
        BY <1>3, Zenon
      <3> HIDE DEF Holding
      <3> QED  BY <3>1, HeldSplit
    <2> QED  BY <2>2, <2>3, Zenon
  <1> HIDE DEF idle, total, held
  <1>8. nIdle' = Cardinality(Idle')
    BY <1>1, <1>3, <1>5, Zenon DEF One
  <1>9. nTotal' = Cardinality(InLoop')
    BY <1>1, <1>3, <1>6 DEF One
  <1>10. nTodo' = Len(queue') + Cardinality(Held(Holding', nNow'))
    <2>1. nNow'[t] \in Nat
      BY ThreadAssumption
    <2> QED  BY <1>1, <1>3, <1>7, <2>1
  <1> QED  BY <1>8, <1>9, <1>10, Zenon DEF Counts

LEMMA SleepKeeps == ASSUME IInv, NEW t \in Thread, Sleep(t) PROVE IInv'
  <1>1. /\ InSection(t) /\ Leave(t, "asleep") /\ "asleep" \in Places
        /\ queue = <<>> /\ pc[t] \in {"enter", "done", "woken"}
        /\ UNCHANGED <<queue, ControlMutex, vChecks, nNow, fOk, fRet, added>>
        /\ Types /\ Locals /\ Exclusive /\ Verdict
    BY Zenon DEF Sleep, Places, InSection, IInv
  <1>2. /\ pc' \in [Thread -> Places] /\ pc'[t] = "asleep"
        /\ \A u \in Thread \ {t} :
               \/ pc'[u] = pc[u]
               \/ u \in Controller /\ pc[u] = "asleep" /\ pc'[u] = "woken"
    BY <1>1, LeaveMoves, Zenon
  <1>3. fAllOk' = (fAllOk /\ (pc[t] = "done" => fOk[t]))
    BY <1>1, SettledCounts, Zenon DEF Sleep
  <1>4. Types'
    BY <1>1, <1>2, <1>3, Zenon DEF Types
  <1>5. Counts'
    <2>1. nNow' = nNow /\ nNow \in [Thread -> 0..nBatchSize] /\ queue' \in Seq(BOOLEAN)
      BY <1>1, Zenon DEF Types
    <2>2. nIdle' = Settled(t).idle + One("asleep" \in {"asleep", "woken"})
      BY Zenon DEF Sleep, One
    <2>3. nTotal' = Settled(t).total
                      - One("asleep" \notin {"asleep", "woken", "working", "done"})
      <3>1. Settled(t).total \in Nat
        BY <1>1, SettledCounts, Zenon
      <3> QED  BY <3>1 DEF Sleep, One
    <2>4. Len(queue') = Len(queue) - IF "asleep" \in {"working", "done"}
                                     THEN nNow'[t] ELSE 0
      BY SettledCounts, <1>1
    <2> QED  BY <1>1, <2>1, <2>2, <2>3, <2>4, LeaveCounts, Zenon DEF Sleep
  <1>6. Exclusive'
    BY <1>1, LeaveExclusive, Zenon
  <1>7. Locals'
    BY <1>1, <1>2, <1>3, Zenon DEF Locals, Holding
  <1>8. Open' <=> Open
    BY <1>1, <1>2, Zenon DEF Open, Thread
  <1>9. Verdict'
    <2>1. fAllOk' /\ Clean' <=> fAllOk /\ Clean
      BY <1>1, <1>2, <1>3, Zenon DEF Clean
    <2>2. Open => (AllTrue(added) <=> fAllOk' /\ AllTrue(queue) /\ Clean')
      BY <1>1, <2>1, Zenon DEF Verdict
    <2>3. ~Open => queue = <<>> /\ fAllOk' /\ Holding' = {}
      BY <1>1, <1>2, <1>3, Zenon DEF Verdict, Holding
    <2>4. \A m \in Controller : pc'[m] = "returned" => pc[m] = "returned"
      BY <1>2, Zenon DEF Thread
    <2> QED  BY <1>1, <1>8, <2>2, <2>3, <2>4, Zenon DEF Verdict
  <1> QED  BY <1>4, <1>5, <1>6, <1>7, <1>9, Zenon DEF IInv

LEMMA TakeKeeps == ASSUME IInv, NEW t \in Thread, Take(t) PROVE IInv'
  <1> DEFINE n == Share(Settled(t).total, Settled(t).idle)
             taken == [i \in 1..n |-> queue[Len(queue) - i + 1]]
             rest == SubSeq(queue, 1, Len(queue) - n)
  <1>1. /\ InSection(t) /\ Leave(t, "working") /\ "working" \in Places
        /\ queue # <<>> /\ pc[t] \in {"enter", "done", "woken"}
        /\ UNCHANGED <<ControlMutex, fRet, added>>
        /\ Types /\ Locals /\ Exclusive /\ Verdict
    BY Zenon DEF Take, Places, InSection, IInv
  <1>2. /\ pc' \in [Thread -> Places] /\ pc'[t] = "working"
        /\ \A u \in Thread \ {t} :
               \/ pc'[u] = pc[u]
               \/ u \in Controller /\ pc[u] = "asleep" /\ pc'[u] = "woken"
    BY <1>1, LeaveMoves, Zenon
  <1>3. /\ nNow' = [nNow EXCEPT ![t] = n] /\ vChecks' = [vChecks EXCEPT ![t] = taken]
        /\ queue' = rest /\ fOk' = [fOk EXCEPT ![t] = Settled(t).ok]
        /\ fAllOk' = Settled(t).ok
    BY Zenon DEF Take
  <1>4. /\ Settled(t).ok = (fAllOk /\ (pc[t] = "done" => fOk[t]))
        /\ Settled(t).total \in Nat /\ Settled(t).idle \in Nat
    <2>1. Settled(t).ok = (fAllOk /\ (pc[t] = "done" => fOk[t]))
      BY Zenon DEF Settled
    <2>2. Settled(t).total \in Nat /\ Settled(t).idle \in Nat
      BY <1>1, SettledCounts, Zenon
    <2> QED  BY <2>1, <2>2, Zenon
  <1>5. n \in 1..nBatchSize /\ n \in 1..Len(queue)
    <2>1. queue \in Seq(BOOLEAN) /\ Len(queue) \in Nat
      BY <1>1, LenProperties, Zenon DEF Types
    <2>2. n \in 1..nBatchSize /\ n <= Len(queue)
      <3>1. \A total, idle \in Nat : /\ Share(total, idle) \in 1..nBatchSize
                                     /\ Share(total, idle) <= Len(queue)
        BY <1>1, <2>1, ShareBounds, Zenon
      <3> QED  BY <1>4, <3>1, Zenon
    <2> QED  BY <2>1, <2>2, ThreadAssumption
  <1> HIDE DEF n
  <1>6. /\ rest \in Seq(BOOLEAN) /\ Len(rest) = Len(queue) - n
        /\ taken \in Seq(BOOLEAN)
        /\ AllTrue(queue) <=> AllTrue(rest) /\ AllTrue(taken)
    <2>1. queue \in Seq(BOOLEAN)
      BY <1>1, Zenon DEF Types
    <2> QED  BY <1>5, <2>1, TakenChecks, Zenon
  <1> HIDE DEF taken, rest
  <1>7. /\ nNow' \in [Thread -> 0..nBatchSize] /\ nNow'[t] = n
        /\ \A u \in Thread \ {t} : nNow'[u] = nNow[u]
    BY <1>1, <1>3, <1>5, ThreadAssumption DEF Types
  <1>8. /\ vChecks' \in [Thread -> Seq(BOOLEAN)] /\ vChecks'[t] = taken
        /\ \A u \in Thread \ {t} : vChecks'[u] = vChecks[u]
    BY <1>1, <1>3, <1>6, Zenon DEF Types
  <1>9. /\ fOk' \in [Thread -> BOOLEAN] /\ fOk'[t] = fAllOk' /\ fAllOk' \in BOOLEAN
        /\ fAllOk' <=> fAllOk /\ (pc[t] = "done" => fOk[t])
        /\ \A u \in Thread \ {t} : fOk'[u] = fOk[u]
    BY <1>1, <1>3, <1>4, Zenon DEF Types
  <1>10. Types'
    BY <1>1, <1>2, <1>3, <1>6, <1>7, <1>8, <1>9, Zenon DEF Types
  <1>11. Counts'
    <2>1. nIdle' = Settled(t).idle + One("working" \in {"asleep", "woken"})
      BY <1>4 DEF Take, One
    <2>2. nTotal' = Settled(t).total
                      - One("working" \notin {"asleep", "woken", "working", "done"})
      BY <1>4 DEF Take, One
    <2>3. Len(queue') = Len(queue) - IF "working" \in {"working", "done"}
                                     THEN nNow'[t] ELSE 0
      BY <1>3, <1>6, <1>7, Zenon
    <2>4. queue' \in Seq(BOOLEAN)
      BY <1>3, <1>6, Zenon
    <2>5. nTodo' = Settled(t).todo
      BY Zenon DEF Take
    <2> QED  BY <1>1, <1>7, <2>1, <2>2, <2>3, <2>4, <2>5, LeaveCounts, Zenon
  <1>12. Exclusive'
    BY <1>1, LeaveExclusive, Zenon
  <1>13. Locals'
    <2>1. ASSUME NEW u \in Thread \ {t}
          PROVE  /\ pc'[u] # "working" => vChecks'[u] = <<>>
                 /\ u \in Holding' => nNow'[u] >= 1
                 /\ pc'[u] = "working" => (fAllOk' => fOk'[u])
      <3>1. /\ pc'[u] = pc[u] \/ (pc[u] = "asleep" /\ pc'[u] = "woken")
            /\ vChecks'[u] = vChecks[u] /\ nNow'[u] = nNow[u] /\ fOk'[u] = fOk[u]
        BY <1>2, <1>7, <1>8, <1>9, Zenon
      <3>2. u \in Holding' => u \in Holding
        BY <3>1, Zenon DEF Holding
      <3> QED  BY <1>1, <1>9, <3>1, <3>2, Zenon DEF Locals
    <2>2. nNow'[t] >= 1
      BY <1>5, <1>7
    <2> QED  BY <1>2, <1>9, <2>1, <2>2, Zenon DEF Locals
  <1>14. Open' <=> Open
    BY <1>1, <1>2, Zenon DEF Open, Thread
  <1>15. Verdict'
    <2>1. fAllOk' /\ AllTrue(queue') /\ Clean' <=> fAllOk /\ AllTrue(queue) /\ Clean
      <3>1. \A u \in Thread \ {t} :
               (/\ pc'[u] = "working" => AllTrue(vChecks'[u])
                /\ pc'[u] = "done" => fOk'[u])
               <=> (/\ pc[u] = "working" => AllTrue(vChecks[u])
                    /\ pc[u] = "done" => fOk[u])
        BY <1>2, <1>8, <1>9, Zenon
      <3>2. AllTrue(queue) <=> AllTrue(queue') /\ AllTrue(vChecks'[t])
        BY <1>3, <1>6, <1>8, Zenon
      <3> QED  BY <1>1, <1>2, <1>9, <3>1, <3>2, Zenon DEF Clean
    <2>2. Open
      BY <1>1, Zenon DEF Verdict
    <2>3. AllTrue(added) <=> fAllOk' /\ AllTrue(queue') /\ Clean'
      BY <1>1, <2>1, <2>2, Zenon DEF Verdict
    <2>4. \A m \in Controller : pc'[m] = "returned" => pc[m] = "returned"
      BY <1>2, Zenon DEF Thread
    <2> QED  BY <1>1, <1>14, <2>2, <2>3, <2>4, Zenon DEF Verdict
  <1> QED  BY <1>10, <1>11, <1>12, <1>13, <1>15 DEF IInv

LEMMA ReturnKeeps == ASSUME IInv, NEW m \in Controller, Return(m) PROVE IInv'
  <1>1. m \in Thread /\ "returned" \in Places
    BY Zenon DEF Thread, Places
  <1>2. /\ InSection(m) /\ Leave(m, "returned") /\ pc[m] \in {"enter", "done", "woken"}
        /\ queue = <<>> /\ Settled(m).todo = 0
        /\ UNCHANGED <<queue, ControlMutex, vChecks, added>>
        /\ Types /\ Locals /\ Exclusive /\ Verdict
    BY Zenon DEF Return, InSection, MayReturn, IInv
  <1>3. /\ pc' \in [Thread -> Places] /\ pc'[m] = "returned"
        /\ \A u \in Thread \ {m} :
               \/ pc'[u] = pc[u]
               \/ u \in Controller /\ pc[u] = "asleep" /\ pc'[u] = "woken"
    BY <1>1, <1>2, LeaveMoves, Zenon
  <1>4. \A u \in Controller \ {m} : pc[u] = "outside" /\ pc'[u] = "outside"
    BY <1>2, <1>3, Zenon DEF Exclusive, Thread
  <1>5. /\ fAllOk' = TRUE
        /\ fRet' = [fRet EXCEPT ![m] = fAllOk /\ (pc[m] = "done" => fOk[m])]
        /\ nNow' = [nNow EXCEPT ![m] = 0] /\ fOk' = [fOk EXCEPT ![m] = TRUE]
    BY Zenon DEF Return, Settled
  <1>6. Types'
    BY <1>1, <1>2, <1>3, <1>5, ThreadAssumption DEF Types
  <1>7. Counts'
    <2>1. /\ nNow' \in [Thread -> 0..nBatchSize]
          /\ \A u \in Thread \ {m} : nNow'[u] = nNow[u]
      BY <1>2, <1>5, <1>6, Zenon DEF Types
    <2>2. Settled(m).total \in Nat /\ Settled(m).idle \in Nat /\ Len(queue) \in Nat
      BY <1>1, <1>2, SettledCounts, Zenon
    <2>3. nIdle' = Settled(m).idle + One("returned" \in {"asleep", "woken"})
      BY <2>2 DEF Return, One
    <2>4. nTotal' = Settled(m).total
                      - One("returned" \notin {"asleep", "woken", "working", "done"})
      BY <2>2, Zenon DEF Return, One
    <2>5. Len(queue') = Len(queue) - IF "returned" \in {"working", "done"}
                                     THEN nNow'[m] ELSE 0
      BY <1>2, <2>2
    <2>6. queue' \in Seq(BOOLEAN) /\ nTodo' = Settled(m).todo
      BY <1>6, Zenon DEF Types, Return
    <2> QED  BY <1>1, <1>2, <2>1, <2>3, <2>4, <2>5, <2>6, LeaveCounts, Zenon
  <1>8. Exclusive'
    BY <1>1, <1>2, LeaveExclusive, Zenon
  <1>9. Holding \ {m} = {}
    <2>1. Cardinality(Held(Holding \ {m}, nNow)) = 0
      <3>1. /\ Settled(m).todo = Len(queue) + Cardinality(Held(Holding \ {m}, nNow))
            /\ Cardinality(Held(Holding \ {m}, nNow)) \in Nat /\ Len(queue) \in Nat
        BY <1>1, <1>2, SettledCounts, Zenon
      <3> QED  BY <1>2, <3>1
    <2>2. Held(Holding \ {m}, nNow) = {}
      <3>1. Holding \ {m} \in SUBSET Thread /\ nNow \in [Thread -> 0..nBatchSize]
        BY <1>2, Zenon DEF Holding, Types
      <3>2. IsFiniteSet(Held(Holding \ {m}, nNow))
        BY <3>1, HeldFinite, Zenon
      <3> QED  BY <2>1, <3>2, FS_EmptySet, Zenon
    <2>3. ASSUME NEW u \in Holding \ {m} PROVE <<u, 1>> \in Held(Holding \ {m}, nNow)
      <3>1. nNow[u] >= 1 /\ 1 \in 1..nBatchSize
        BY <1>2, ThreadAssumption DEF Locals, Holding
      <3> QED  BY <3>1, Zenon DEF Held
    <2> QED  BY <2>2, <2>3, Zenon
  <1>10. \A u \in Thread \ {m} : pc[u] \notin {"working", "done"}
    BY <1>9, Zenon DEF Holding
  <1>11. Holding' = {}
    BY <1>3, <1>10, Zenon DEF Holding
  <1>12. Locals'
    BY <1>2, <1>3, <1>10, <1>11, Zenon DEF Locals
  <1>13. Open /\ ~Open'
    BY <1>2, <1>3, <1>4, Zenon DEF Open
  <1>14. Verdict'
    <2>1. AllTrue(queue)
      BY <1>2, EmptySeq, SMTT(20) DEF AllTrue
    <2>2. Clean <=> (pc[m] = "done" => fOk[m])
      BY <1>1, <1>2, <1>10, Zenon DEF Clean
    <2>3. fRet'[m] <=> fAllOk /\ (pc[m] = "done" => fOk[m])
      BY <1>2, <1>5, Zenon DEF Types
    <2>4. fRet'[m] <=> AllTrue(added)
      BY <1>2, <1>13, <2>1, <2>2, <2>3, Zenon DEF Verdict
    <2> QED  BY <1>2, <1>4, <1>5, <1>11, <1>13, <2>4, Zenon DEF Verdict
  <1> QED  BY <1>6, <1>7, <1>8, <1>12, <1>14, Zenon DEF IInv

-----------------------------------------------------------------------------
(* The other steps *)

\* A step that leaves the members alone and puts no thread into or out of the loop.
LEMMA SameCounts ==
    ASSUME IInv, UNCHANGED <<queue, nIdle, nTotal, nTodo, nNow>>,
           Idle' = Idle, InLoop' = InLoop, Holding' = Holding
    PROVE  Counts'
  BY Zenon DEF IInv, Counts

LEMMA WorkKeeps == ASSUME IInv, NEW t \in Thread, Work(t) PROVE IInv'
  <1>1. Types /\ Locals /\ Exclusive /\ Verdict /\ pc[t] = "working"
    BY Zenon DEF IInv, Work
  <1>2. /\ pc' \in [Thread -> Places] /\ pc'[t] = "done"
        /\ \A u \in Thread \ {t} : pc'[u] = pc[u]
    BY <1>1, Zenon DEF Work, Types, Places
  <1>3. /\ fOk' \in [Thread -> BOOLEAN] /\ \A u \in Thread \ {t} : fOk'[u] = fOk[u]
        /\ fOk'[t] <=> fOk[t] /\ AllTrue(vChecks[t])
    BY <1>1, Zenon DEF Work, Types, AllTrue
  <1>4. /\ vChecks' \in [Thread -> Seq(BOOLEAN)] /\ vChecks'[t] = <<>>
        /\ \A u \in Thread \ {t} : vChecks'[u] = vChecks[u]
    BY <1>1 DEF Work, Types
  <1>5. UNCHANGED <<queue, nIdle, nTotal, fAllOk, nTodo, ControlMutex, nNow, fRet, added>>
    BY Zenon DEF Work
  <1>6. Types'
    BY <1>1, <1>2, <1>3, <1>4, <1>5, Zenon DEF Types
  <1>7. Idle' = Idle /\ InLoop' = InLoop /\ Holding' = Holding
    BY <1>1, <1>2, Zenon DEF Idle, InLoop, Holding
  <1>8. Counts'
    BY <1>5, <1>7, SameCounts, Zenon
  <1>9. Exclusive'
    BY <1>1, <1>2, <1>5, Zenon DEF Exclusive, Thread
  <1>10. Locals'
    BY <1>1, <1>2, <1>3, <1>4, <1>5, <1>7, Zenon DEF Locals
  <1>11. Open' <=> Open
    BY <1>1, <1>2, Zenon DEF Open, Thread
  <1>12. Verdict'
    <2>1. fAllOk => (Clean' <=> Clean)
      <3>1. fAllOk => fOk[t]
        BY <1>1, Zenon DEF Locals
      <3> QED  BY <1>1, <1>2, <1>3, <1>4, <3>1, Zenon DEF Clean
    <2>2. \A m \in Controller : pc'[m] = "returned" => pc[m] = "returned"
      BY <1>2, Zenon DEF Thread
    <2>3. Open => (AllTrue(added) <=> fAllOk /\ AllTrue(queue) /\ Clean')
      BY <1>1, <2>1, Zenon DEF Verdict
    <2> QED  BY <1>1, <1>5, <1>7, <1>11, <2>2, <2>3, Zenon DEF Verdict
  <1> QED  BY <1>6, <1>8, <1>9, <1>10, <1>12 DEF IInv

LEMMA SpuriousWakeupKeeps == ASSUME IInv, NEW t \in Thread, SpuriousWakeup(t) PROVE IInv'
  <1>1. Types /\ Locals /\ Exclusive /\ Verdict /\ pc[t] = "asleep"
    BY Zenon DEF IInv, SpuriousWakeup
  <1>2. /\ pc' \in [Thread -> Places] /\ pc'[t] = "woken"
        /\ \A u \in Thread \ {t} : pc'[u] = pc[u]
    BY <1>1, Zenon DEF SpuriousWakeup, Types, Places
  <1>3. UNCHANGED <<queue, nIdle, nTotal, fAllOk, nTodo, ControlMutex, vChecks, nNow, fOk,
                    fRet, added>>
    BY Zenon DEF SpuriousWakeup
  <1>4. Types'
    BY <1>1, <1>2, <1>3, Zenon DEF Types
  <1>5. Idle' = Idle /\ InLoop' = InLoop /\ Holding' = Holding
    BY <1>1, <1>2, Zenon DEF Idle, InLoop, Holding
  <1>6. Counts'
    BY <1>3, <1>5, SameCounts, Zenon
  <1>7. Exclusive'
    <2>1. \A u \in Thread : /\ pc'[u] # "outside" <=> pc[u] # "outside"
                            /\ pc'[u] \in {"outside", "adding", "returned"}
                                 => pc[u] \in {"outside", "adding", "returned"}
      BY <1>1, <1>2, Zenon
    <2> QED  BY <1>1, <1>3, <2>1, Zenon DEF Exclusive, Thread
  <1>8. Locals'
    BY <1>1, <1>2, <1>3, <1>5, Zenon DEF Locals
  <1>9. (Open' <=> Open) /\ (Clean' <=> Clean)
    <2>1. Open' <=> Open
      BY <1>1, <1>2, Zenon DEF Open, Thread
    <2>2. Clean' <=> Clean
      BY <1>1, <1>2, <1>3, Zenon DEF Clean
    <2> QED  BY <2>1, <2>2, Zenon
  <1>10. Verdict'
    BY <1>1, <1>2, <1>3, <1>5, <1>9, Zenon DEF Verdict, Thread
  <1> QED  BY <1>4, <1>6, <1>7, <1>8, <1>10 DEF IInv

LEMMA AddKeeps ==
    ASSUME IInv, NEW m \in Controller, NEW batch \in Batch, Add(m, batch)
    PROVE  IInv'
  <1>1. Types /\ Locals /\ Exclusive /\ Verdict /\ Counts /\ m \in Thread /\ pc[m] = "adding"
    BY Zenon DEF IInv, Add, Thread
  <1>2. /\ pc' \in [Thread -> Places]
        /\ \A u \in Thread : \/ pc'[u] = pc[u]
                             \/ u \in Worker /\ pc[u] = "asleep" /\ pc'[u] = "woken"
    <2>1. PICK W \in NotifyWorkers(Len(batch)) :
                 pc' = [t \in Thread |-> IF t \in W THEN "woken" ELSE pc[t]]
      BY Zenon DEF Add
    <2>2. W \in SUBSET Asleep(Worker)
      BY Zenon DEF NotifyWorkers
    <2> QED  BY <1>1, <2>1, <2>2, Zenon DEF Types, Asleep, Places
  <1>3. UNCHANGED <<nIdle, nTotal, fAllOk, ControlMutex, vChecks, nNow, fOk, fRet>>
    BY Zenon DEF Add
  <1>4. /\ queue' = queue \o batch /\ added' = added \o batch
        /\ nTodo' = nTodo + Len(batch)
    BY Zenon DEF Add
  <1>5. queue \in Seq(BOOLEAN) /\ added \in Seq(BOOLEAN) /\ batch \in Seq(BOOLEAN)
    BY <1>1, ThreadAssumption, Zenon DEF Types
  <1>6. /\ queue' \in Seq(BOOLEAN) /\ Len(queue') = Len(queue) + Len(batch)
        /\ AllTrue(queue') <=> AllTrue(queue) /\ AllTrue(batch)
    BY <1>4, <1>5, AddedChecks, Zenon
  <1>7. /\ added' \in Seq(BOOLEAN)
        /\ AllTrue(added') <=> AllTrue(added) /\ AllTrue(batch)
    BY <1>4, <1>5, AddedChecks, Zenon
  <1>8. Types'
    BY <1>1, <1>2, <1>3, <1>6, <1>7, Zenon DEF Types
  <1>9. Idle' = Idle /\ InLoop' = InLoop /\ Holding' = Holding
    BY <1>1, <1>2, Zenon DEF Idle, InLoop, Holding
  <1>10. Counts'
    <2> DEFINE held == Cardinality(Held(Holding, nNow))
    <2>1. held \in Nat /\ Len(queue) \in Nat /\ Len(batch) \in Nat
      <3>1. Holding \in SUBSET Thread /\ nNow \in [Thread -> 0..nBatchSize]
        BY <1>1, Zenon DEF Holding, Types
      <3>2. held \in Nat
        BY <3>1, HeldFinite, Zenon
      <3> QED  BY <1>5, <3>2, LenProperties, Zenon
    <2>2. nTodo = Len(queue) + held /\ Cardinality(Held(Holding', nNow')) = held
      BY <1>1, <1>3, <1>9, Zenon DEF Counts
    <2> HIDE DEF held
    <2>3. nTodo' = Len(queue') + held
      BY <1>4, <1>6, <2>1, <2>2
    <2> QED  BY <1>1, <1>3, <1>9, <2>2, <2>3, Zenon DEF Counts
  <1>11. Exclusive'
    BY <1>1, <1>2, <1>3, ThreadAssumption, Zenon DEF Exclusive, Thread
  <1>12. Locals'
    BY <1>1, <1>2, <1>3, <1>9, Zenon DEF Locals
  <1>13. (Open /\ Open') /\ (Clean' <=> Clean)
    <2>1. pc'[m] = "adding"
      BY <1>1, <1>2, Zenon
    <2>2. Open /\ Open'
      BY <1>1, <2>1, Zenon DEF Open
    <2>3. Clean' <=> Clean
      BY <1>2, <1>3, Zenon DEF Clean
    <2> QED  BY <2>2, <2>3, Zenon
  <1>14. Verdict'
    <2>1. \A c \in Controller : pc'[c] # "returned"
      BY <1>1, <1>2, Zenon DEF Exclusive, Thread
    <2> QED  BY <1>1, <1>3, <1>6, <1>7, <1>13, <2>1, Zenon DEF Verdict
  <1> QED  BY <1>8, <1>10, <1>11, <1>12, <1>14, Zenon DEF IInv

LEMMA OpenControlKeeps == ASSUME IInv, NEW m \in Controller, OpenControl(m) PROVE IInv'
  <1>1. Types /\ Locals /\ Exclusive /\ Verdict /\ m \in Thread /\ pc[m] = "outside"
    BY Zenon DEF IInv, OpenControl, Thread
  <1>2. /\ pc' \in [Thread -> Places] /\ pc'[m] = "adding"
        /\ \A u \in Thread \ {m} : pc'[u] = pc[u]
    BY <1>1, Zenon DEF OpenControl, Types, Places
  <1>3. /\ UNCHANGED <<queue, nIdle, nTotal, fAllOk, nTodo, vChecks, nNow, fOk, fRet>>
        /\ ControlMutex = NoThread /\ ControlMutex' = m /\ added' = <<>>
    BY Zenon DEF OpenControl
  <1>4. Types'
    BY <1>1, <1>2, <1>3, EmptySeq, Zenon DEF Types
  <1>5. Idle' = Idle /\ InLoop' = InLoop /\ Holding' = Holding
    BY <1>1, <1>2, Zenon DEF Idle, InLoop, Holding
  <1>6. Counts'
    BY <1>3, <1>5, SameCounts, Zenon
  <1>7. \A c \in Controller : pc[c] = "outside"
    BY <1>1, <1>3, ThreadAssumption, Zenon DEF Exclusive
  <1>8. Exclusive'
    BY <1>1, <1>2, <1>3, <1>7, ThreadAssumption, Zenon DEF Exclusive, Thread
  <1>9. Locals'
    BY <1>1, <1>2, <1>3, <1>5, Zenon DEF Locals
  <1>10. ~Open /\ Open'
    BY <1>2, <1>7, Zenon DEF Open
  <1>11. Verdict'
    <2>1. queue = <<>> /\ fAllOk /\ Holding = {}
      BY <1>1, <1>10, Zenon DEF Verdict
    <2>2. AllTrue(<<>>)
      BY DEF AllTrue
    <2>3. Clean'
      BY <1>5, <2>1, Zenon DEF Clean, Holding
    <2>4. \A c \in Controller : pc'[c] # "returned"
      BY <1>2, <1>7, Zenon DEF Thread
    <2> QED  BY <1>3, <1>10, <2>1, <2>2, <2>3, <2>4, Zenon DEF Verdict
  <1> QED  BY <1>4, <1>6, <1>8, <1>9, <1>11 DEF IInv

LEMMA WaitKeeps == ASSUME IInv, NEW m \in Controller, Wait(m) PROVE IInv'
  <1>1. Types /\ Locals /\ Exclusive /\ Verdict /\ m \in Thread /\ pc[m] = "adding"
    BY Zenon DEF IInv, Wait, Thread
  <1>2. /\ pc' \in [Thread -> Places] /\ pc'[m] = "enter"
        /\ \A u \in Thread \ {m} : pc'[u] = pc[u]
    BY <1>1, Zenon DEF Wait, Types, Places
  <1>3. UNCHANGED <<queue, nIdle, nTotal, fAllOk, nTodo, ControlMutex, vChecks, nNow, fOk,
                    fRet, added>>
    BY Zenon DEF Wait
  <1>4. Types'
    BY <1>1, <1>2, <1>3, Zenon DEF Types
  <1>5. Idle' = Idle /\ InLoop' = InLoop /\ Holding' = Holding
    BY <1>1, <1>2, Zenon DEF Idle, InLoop, Holding
  <1>6. Counts'
    BY <1>3, <1>5, SameCounts, Zenon
  <1>7. Exclusive'
    BY <1>1, <1>2, <1>3, ThreadAssumption, Zenon DEF Exclusive, Thread
  <1>8. Locals'
    BY <1>1, <1>2, <1>3, <1>5, Zenon DEF Locals
  <1>9. (Open /\ Open') /\ (Clean' <=> Clean)
    BY <1>1, <1>2, <1>3, Zenon DEF Open, Clean, Thread
  <1>10. Verdict'
    BY <1>1, <1>2, <1>3, <1>5, <1>9, Zenon DEF Verdict, Thread
  <1> QED  BY <1>4, <1>6, <1>7, <1>8, <1>10 DEF IInv

LEMMA CloseControlKeeps == ASSUME IInv, NEW m \in Controller, CloseControl(m) PROVE IInv'
  <1>1. Types /\ Locals /\ Exclusive /\ Verdict /\ m \in Thread /\ pc[m] = "returned"
    BY Zenon DEF IInv, CloseControl, Thread
  <1>2. /\ pc' \in [Thread -> Places] /\ pc'[m] = "outside"
        /\ \A u \in Thread \ {m} : pc'[u] = pc[u]
    BY <1>1, Zenon DEF CloseControl, Types, Places
  <1>3. /\ UNCHANGED <<queue, nIdle, nTotal, fAllOk, nTodo, vChecks, nNow, fOk, fRet, added>>
        /\ ControlMutex' = NoThread
    BY Zenon DEF CloseControl
  <1>4. Types'
    BY <1>1, <1>2, <1>3, Zenon DEF Types
  <1>5. Idle' = Idle /\ InLoop' = InLoop /\ Holding' = Holding
    BY <1>1, <1>2, Zenon DEF Idle, InLoop, Holding
  <1>6. Counts'
    BY <1>3, <1>5, SameCounts, Zenon
  <1>7. \A c \in Controller : pc'[c] = "outside"
    BY <1>1, <1>2, Zenon DEF Exclusive, Thread
  <1>8. Exclusive'
    BY <1>1, <1>2, <1>3, <1>7, ThreadAssumption, Zenon DEF Exclusive, Thread
  <1>9. Locals'
    BY <1>1, <1>2, <1>3, <1>5, Zenon DEF Locals
  <1>10. ~Open /\ ~Open'
    BY <1>1, <1>7, Zenon DEF Open, Exclusive
  <1>11. Verdict'
    <2>1. queue' = <<>> /\ fAllOk' /\ Holding' = {}
      BY <1>1, <1>3, <1>5, <1>10, Zenon DEF Verdict
    <2> QED  BY <1>7, <1>10, <2>1, Zenon DEF Verdict
  <1> QED  BY <1>4, <1>6, <1>8, <1>9, <1>11 DEF IInv

LEMMA StutterKeeps == ASSUME IInv, UNCHANGED vars PROVE IInv'
  BY Zenon DEF vars, IInv, Types, Counts, Exclusive, Locals, Verdict, Open, Clean, Idle, InLoop,
         Holding

\* Every step of the queue keeps the inductive invariant.
LEMMA NextIInv == IInv /\ [Next]_vars => IInv'
  <1> SUFFICES ASSUME IInv, [Next]_vars PROVE IInv'
    BY Zenon
  <1>1. ASSUME NEW t \in Thread, LoopStep(t) PROVE IInv'
    BY <1>1, SleepKeeps, TakeKeeps, WorkKeeps, ReturnKeeps, Zenon DEF LoopStep
  <1>2. ASSUME NEW t \in Thread, SpuriousWakeup(t) PROVE IInv'
    BY <1>2, SpuriousWakeupKeeps, Zenon
  <1>3. ASSUME NEW m \in Controller, ControlStep(m) PROVE IInv'
    BY <1>3, OpenControlKeeps, WaitKeeps, CloseControlKeeps, AddKeeps, Zenon DEF ControlStep
  <1>4. CASE UNCHANGED vars
    BY <1>4, StutterKeeps, Zenon
  <1> QED  BY <1>1, <1>2, <1>3, <1>4, Zenon DEF Next

-----------------------------------------------------------------------------
(* What follows *)

LEMMA IInvVerdictExact == IInv => VerdictExact
  <1> SUFFICES ASSUME IInv PROVE VerdictExact
    BY Zenon
  <1>1. Types /\ Counts /\ Exclusive /\ Locals /\ Verdict
    BY Zenon DEF IInv
  <1>2. Idle \in SUBSET Thread /\ InLoop \in SUBSET Thread /\ Holding \in SUBSET Thread
    BY Zenon DEF Idle, InLoop, Holding
  <1>3. Cardinality(Thread) \in Nat /\ Cardinality(Worker) \in Nat
    BY ThreadFinite, Zenon DEF Thread
  <1>4. nIdle \in 0..Cardinality(Thread)
    <2>1. Cardinality(Idle) \in Nat /\ Cardinality(Idle) <= Cardinality(Thread)
      BY <1>2, ThreadFinite, FS_Subset, Zenon
    <2> QED  BY <1>1, <1>3, <2>1 DEF Counts
  <1>5. nTotal \in 0..Cardinality(Worker) + 1
    <2> DEFINE some == Worker \cup {ControlMutex}
    <2>1. InLoop \subseteq some
      BY <1>1, Zenon DEF InLoop, Exclusive, Thread
    <2>2. /\ IsFiniteSet(some)
          /\ \/ Cardinality(some) = Cardinality(Worker)
             \/ Cardinality(some) = Cardinality(Worker) + 1
      BY ThreadAssumption, FS_AddElement, Zenon
    <2> HIDE DEF some
    <2>3. Cardinality(InLoop) \in Nat /\ Cardinality(InLoop) <= Cardinality(some)
      BY <1>2, <2>1, <2>2, ThreadFinite, FS_Subset, Zenon
    <2> QED  BY <1>1, <1>3, <2>2, <2>3 DEF Counts
  <1>6. nTodo \in Nat
    <2>1. Cardinality(Held(Holding, nNow)) \in Nat
      BY <1>1, <1>2, HeldFinite, Zenon DEF Types
    <2>2. Len(queue) \in Nat
      BY <1>1, LenProperties, Zenon DEF Types
    <2> QED  BY <1>1, <2>1, <2>2 DEF Counts
  <1>7. TypeOK
    BY <1>1, <1>4, <1>5, <1>6, Zenon DEF Types, TypeOK, Places
  <1>8. ASSUME NEW m \in Controller, pc[m] = "returned"
        PROVE  fRet[m] = (\A i \in DOMAIN added : added[i])
    <2>1. fRet[m] \in BOOLEAN
      BY <1>1, Zenon DEF Types
    <2>2. fRet[m] <=> \A i \in DOMAIN added : added[i]
      BY <1>1, <1>8, Zenon DEF Verdict, AllTrue
    <2> QED  BY <2>1, <2>2, Zenon
  <1>9. ASSUME \A m \in Controller : pc[m] \in {"outside", "returned"}
        PROVE  queue = <<>> /\ nTodo = 0 /\ \A t \in Thread : vChecks[t] = <<>>
    <2>1. queue = <<>> /\ Holding = {}
      BY <1>1, <1>9, Zenon DEF Verdict, Open
    <2>2. Len(queue) = 0
      BY <2>1, EmptySeq, Zenon
    <2>3. Held(Holding, nNow) = {}
      BY <2>1, Zenon DEF Held
    <2>4. Cardinality(Held(Holding, nNow)) = 0
      BY <2>3, FS_EmptySet, Zenon
    <2>5. nTodo = 0
      BY <1>1, <2>2, <2>4 DEF Counts
    <2>6. \A t \in Thread : vChecks[t] = <<>>
      BY <1>1, <2>1, Zenon DEF Locals, Holding
    <2> QED  BY <2>1, <2>5, <2>6, Zenon
  <1> QED  BY <1>7, <1>8, <1>9, Zenon DEF VerdictExact

\* For any number of threads and any batches: what Wait returns is the conjunction of
\* exactly the checks added through the control, once it has returned no check is left
\* in the queue or with a worker, and the counters stay within their bounds.
THEOREM VerdictIsExact == Spec => []VerdictExact
  <1>1. Init => IInv
    BY InitIInv, Zenon
  <1>2. IInv /\ [Next]_vars => IInv'
    BY NextIInv, Zenon
  <1>3. IInv => VerdictExact
    BY IInvVerdictExact, Zenon
  <1> QED  BY <1>1, <1>2, <1>3, PTL DEF Spec

\* A step that puts no worker to sleep, with checks in the queue before it if there
\* are any after it.
LEMMA AwakeStays ==
    ASSUME WorkersAwake, Asleep(Worker)' \subseteq Asleep(Worker),
           queue' # <<>> => queue # <<>>
    PROVE  WorkersAwake'
  BY Zenon DEF WorkersAwake, Asleep

LEMMA NextWorkersAwake == IInv /\ WorkersAwake /\ [Next]_vars => WorkersAwake'
  <1> SUFFICES ASSUME IInv, WorkersAwake, [Next]_vars PROVE WorkersAwake'
    BY Zenon
  <1>1. Types
    BY Zenon DEF IInv
  <1>2. ASSUME NEW t \in Thread, Sleep(t) PROVE WorkersAwake'
    BY <1>2, Zenon DEF Sleep, WorkersAwake
  <1>3. ASSUME NEW t \in Thread, Take(t) PROVE WorkersAwake'
    <2>1. Leave(t, "working") /\ "working" \in Places /\ queue # <<>>
      BY <1>3, Zenon DEF Take, Places
    <2>2. /\ pc'[t] = "working"
          /\ \A u \in Thread \ {t} :
                 \/ pc'[u] = pc[u]
                 \/ u \in Controller /\ pc[u] = "asleep" /\ pc'[u] = "woken"
      BY <1>1, <2>1, LeaveMoves, Zenon
    <2>3. Asleep(Worker)' \subseteq Asleep(Worker)
      BY <2>2, Zenon DEF Asleep, Thread
    <2> QED  BY <2>1, <2>3, AwakeStays, Zenon
  <1>4. ASSUME NEW t \in Thread, Work(t) PROVE WorkersAwake'
    <2>1. Asleep(Worker)' \subseteq Asleep(Worker)
      BY <1>1, <1>4, Zenon DEF Work, Asleep, Thread, Types
    <2>2. queue' = queue
      BY <1>4, Zenon DEF Work
    <2> QED  BY <2>1, <2>2, AwakeStays, Zenon
  <1>5. ASSUME NEW m \in Controller, Return(m) PROVE WorkersAwake'
    BY <1>5, Zenon DEF Return, WorkersAwake
  <1>6. ASSUME NEW t \in Thread, SpuriousWakeup(t) PROVE WorkersAwake'
    <2>1. Asleep(Worker)' \subseteq Asleep(Worker)
      BY <1>1, <1>6, Zenon DEF SpuriousWakeup, Asleep, Thread, Types
    <2>2. queue' = queue
      BY <1>6, Zenon DEF SpuriousWakeup
    <2> QED  BY <2>1, <2>2, AwakeStays
  <1>7. ASSUME NEW m \in Controller, OpenControl(m) \/ Wait(m) \/ CloseControl(m)
        PROVE  WorkersAwake'
    <2>1. \A w \in Worker : pc'[w] = "asleep" => pc[w] = "asleep"
      BY <1>1, <1>7, Zenon DEF OpenControl, Wait, CloseControl, Thread, Types
    <2>2. queue' = queue
      BY <1>7, Zenon DEF OpenControl, Wait, CloseControl
    <2>3. Asleep(Worker)' \subseteq Asleep(Worker)
      BY <2>1, Zenon DEF Asleep
    <2> QED  BY <2>2, <2>3, AwakeStays, Zenon
  <1>8. ASSUME NEW m \in Controller, NEW batch \in Batch, Add(m, batch)
        PROVE  WorkersAwake'
    <2>1. PICK W \in NotifyWorkers(Len(batch)) :
                 pc' = [t \in Thread |-> IF t \in W THEN "woken" ELSE pc[t]]
      BY <1>8, Zenon DEF Add
    <2>2. Asleep(Worker)' = Asleep(Worker) \ W
      BY <2>1, Zenon DEF Asleep, Thread
    <2>3. CASE queue # <<>>
      BY <2>2, <2>3, AwakeStays, Zenon
    <2>4. CASE queue = <<>>
      <3>1. batch \in Seq(BOOLEAN) /\ queue' = queue \o batch
        BY <1>8, ThreadAssumption, Zenon DEF Add
      <3>2. queue' # <<>> => Len(batch) # 0
        BY <2>4, <3>1, EmptySeq, ConcatEmptySeq, Zenon
      <3>3. Len(batch) # 0 /\ Asleep(Worker) # {} => W # {} /\ W \subseteq Asleep(Worker)
        BY Zenon DEF NotifyWorkers
      <3>4. Asleep(Worker) \subseteq Worker
        BY Zenon DEF Asleep
      <3> QED  BY <2>2, <3>2, <3>3, <3>4, Zenon DEF WorkersAwake
    <2> QED  BY <2>3, <2>4, Zenon
  <1>9. CASE UNCHANGED vars
    BY <1>9, Zenon DEF vars, WorkersAwake, Asleep
  <1> QED  BY <1>2, <1>3, <1>4, <1>5, <1>6, <1>7, <1>8, <1>9, Zenon DEF Next, LoopStep, ControlStep

\* Whatever the number of workers: while checks are queued some worker is awake, so
\* the queue is worked off before the controller joins in.
THEOREM SomeWorkerAwake == Spec => []WorkersAwake
  <1>1. Init => IInv /\ WorkersAwake
    BY InitIInv, Zenon DEF Init, WorkersAwake
  <1>2. IInv /\ [Next]_vars => IInv'
    BY NextIInv
  <1>3. IInv /\ WorkersAwake /\ [Next]_vars => WorkersAwake'
    BY NextWorkersAwake, Zenon
  <1> QED  BY <1>1, <1>2, <1>3, PTL DEF Spec
=============================================================================
