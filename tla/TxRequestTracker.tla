-------------------------- MODULE TxRequestTracker --------------------------
(***************************************************************************)
(* What the interface of TxRequestTracker promises: announcements are      *)
(* CANDIDATE, REQUESTED or COMPLETED, and GetRequestable looks through all *)
(* of them each time it is asked.                                          *)
(***************************************************************************)
EXTENDS Integers, Sequences, SequencesExt

CONSTANTS
    Peer, TxHash,
    None,
    Priority,    \* Priority[<<p, h>>]: the computed priority of p's announcement of h
    MaxTime

VARIABLES
    anns,       \* <<p, h>> -> the announcement, or None
    sequence,   \* the number of the next announcement
    answer      \* what GetRequestable returned and the caller has not handled

vars == <<anns, sequence, answer>>

Time == 0..MaxTime

Init ==
    /\ anns = [k \in Peer \X TxHash |-> None]
    /\ sequence = 0
    /\ answer = [peer |-> None, txs |-> <<>>]

Live(a, k) == a[k] # None /\ a[k].state # "COMPLETED"

\* A transaction that nobody is left to ask for is forgotten.
Tidy(a) ==
    [k \in DOMAIN a |-> IF \E p \in Peer : Live(a, <<p, k[2]>>) THEN a[k] ELSE None]

Complete(a, K) ==
    [k \in DOMAIN a |->
        IF k \in K /\ a[k] # None THEN [a[k] EXCEPT !.state = "COMPLETED"] ELSE a[k]]

Drop(a, K) == [k \in DOMAIN a |-> IF k \in K THEN None ELSE a[k]]

ReceivedInv(p, h, reqtime) ==
    /\ sequence' = sequence + 1 /\ UNCHANGED answer
    /\ anns[<<p, h>>] = None
    /\ anns' = [anns EXCEPT ![<<p, h>>] =
                    [state |-> "CANDIDATE", time |-> reqtime, sequence |-> sequence]]

DisconnectedPeer(p) ==
    /\ UNCHANGED <<sequence, answer>>
    /\ anns' = Tidy(Drop(anns, {p} \X TxHash))

Forget(h) == anns' = Drop(anns, Peer \X {h})

ForgetTxHash(h) == UNCHANGED <<sequence, answer>> /\ Forget(h)

ReceivedResponse(p, h) ==
    /\ UNCHANGED <<sequence, answer>>
    /\ anns' = Tidy(Complete(anns, {<<p, h>>}))

Expired(a, now) ==
    {k \in DOMAIN a : a[k] # None /\ a[k].state = "REQUESTED" /\ a[k].time <= now}

\* The candidates for h whose time has come.
Candidates(a, h, now) ==
    {p \in Peer : LET x == a[<<p, h>>] IN x # None /\ x.state = "CANDIDATE" /\ x.time <= now}

\* h is to be requested from p: nobody is being asked, and p is the best candidate.
Requestable(a, p, h, now) ==
    /\ \A q \in Peer : a[<<q, h>>] # None => a[<<q, h>>].state # "REQUESTED"
    /\ p \in Candidates(a, h, now)
    /\ \A q \in Candidates(a, h, now) : Priority[<<q, h>>] <= Priority[<<p, h>>]

GetRequestable(p, now) ==
    LET a == Tidy(Complete(anns, Expired(anns, now))) IN
    /\ UNCHANGED sequence
    /\ answer.peer = None /\ answer' \in [peer : {p}, txs : Seq(TxHash)]
    /\ anns' = a
    /\ answer'.txs = SetToSortSeq({h \in TxHash : Requestable(a, p, h, now)},
                          LAMBDA g, h : a[<<p, g>>].sequence < a[<<p, h>>].sequence)

\* The caller requests the first transaction of the answer, or has it already.
RequestedTx(expiry) ==
    LET k == <<answer.peer, Head(answer.txs)>> IN
    /\ answer.txs # <<>> /\ UNCHANGED sequence
    /\ answer' = [answer EXCEPT !.txs = Tail(@)]
    /\ anns' = [anns EXCEPT ![k].state = "REQUESTED", ![k].time = expiry]

AlreadyHave ==
    /\ answer.txs # <<>> /\ UNCHANGED sequence
    /\ answer' = [answer EXCEPT !.txs = Tail(@)]
    /\ Forget(Head(answer.txs))

Done ==
    /\ answer.txs = <<>>
    /\ answer' = [peer |-> None, txs |-> <<>>]
    /\ UNCHANGED <<sequence, anns>>

Next ==
    \/ \E p \in Peer, h \in TxHash :
           (\E t \in Time : ReceivedInv(p, h, t)) \/ ReceivedResponse(p, h)
    \/ \E p \in Peer : DisconnectedPeer(p) \/ \E t \in Time : GetRequestable(p, t)
    \/ \E h \in TxHash : ForgetTxHash(h)
    \/ \E t \in Time : RequestedTx(t)
    \/ AlreadyHave \/ Done

Spec == Init /\ [][Next]_vars
=============================================================================
