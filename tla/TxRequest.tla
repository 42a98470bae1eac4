----------------------------- MODULE TxRequest -----------------------------
(***************************************************************************)
(* TxRequestTracker::Impl, which decides from which peer an announced      *)
(* transaction is requested, and the calls PeerManager makes to it.  The   *)
(* tracker keeps, for every transaction, its best candidate marked as the  *)
(* announcements and the clock change; TxRequestTracker is what that must  *)
(* amount to.                                                              *)
(*                                                                         *)
(* Every caller holds cs_main throughout, so a call is one action; the     *)
(* loop over what GetRequestable returned is a sequence of actions during  *)
(* which nobody else enters.                                               *)
(***************************************************************************)
EXTENDS Integers, Sequences, FiniteSets, SequencesExt

CONSTANTS
    Peer, TxHash, None,
    Preferred,     \* peers with fPreferredDownload
    Relay,         \* peers with PF_RELAY
    Salted,        \* Salted[<<p, h>>]: the SipHash that makes the priority
    MAX_PEER_TX_ANNOUNCEMENTS, MAX_PEER_TX_REQUEST_IN_FLIGHT,
    NONPREF_PEER_TX_DELAY, TXID_RELAY_DELAY, OVERLOADED_PEER_TX_DELAY,
    GETDATA_TX_INTERVAL,
    MaxClock, MaxInvs, MaxBackward   \* bounds: the clock, announcements, steps back of the clock

ASSUME TxRequestAssumption ==
    /\ Preferred \subseteq Peer /\ Relay \subseteq Peer
    /\ Salted \in [Peer \X TxHash -> Nat]
    /\ \A p, q \in Peer, h \in TxHash : p # q => Salted[<<p, h>>] # Salted[<<q, h>>]

VARIABLES
    m_index,             \* <<p, h>> -> the Announcement, or None
    m_peerinfo,          \* p -> its statistics
    m_current_sequence,
    sending,             \* the answer of GetRequestable that SendMessages walks
    now, backward        \* the clock, and how often it went back

tracker == [index |-> m_index, info |-> m_peerinfo]
vars == <<m_index, m_peerinfo, m_current_sequence, sending, now, backward>>

Key   == Peer \X TxHash
State == {"CANDIDATE_DELAYED", "CANDIDATE_READY", "CANDIDATE_BEST", "REQUESTED", "COMPLETED"}
NoInfo == [total |-> 0, completed |-> 0, requested |-> 0]

\* PriorityComputer: any preferred announcement goes before any other.
Priority ==
    LET top == 1 + Max({Salted[k] : k \in Key})
    IN  [k \in Key |-> Salted[k] + (IF k[1] \in Preferred THEN top ELSE 0)]

Init ==
    /\ m_index = [k \in Key |-> None]
    /\ m_peerinfo = [p \in Peer |-> NoInfo]
    /\ m_current_sequence = 0
    /\ sending = [peer |-> None, txs |-> <<>>]
    /\ now = 0 /\ backward = 0

-----------------------------------------------------------------------------
(* The index *)

In(T, s, h)  == {p \in Peer : T.index[<<p, h>>] # None /\ T.index[<<p, h>>].state = s}
StateOf(T, k) == T.index[k].state
Best(h, P)   == CHOOSE p \in P : \A q \in P : Priority[<<q, h>>] <= Priority[<<p, h>>]
One(b)       == IF b THEN 1 ELSE 0

Erase(T, k) ==
    [index |-> [T.index EXCEPT ![k] = None],
     info  |-> [T.info EXCEPT ![k[1]] =
                   [total     |-> @.total - 1,
                    completed |-> @.completed - One(StateOf(T, k) = "COMPLETED"),
                    requested |-> @.requested - One(StateOf(T, k) = "REQUESTED")]]]

Modify(T, k, s) ==
    [index |-> [T.index EXCEPT ![k].state = s],
     info  |-> [T.info EXCEPT ![k[1]] =
         [total     |-> @.total,
          completed |-> @.completed - One(StateOf(T, k) = "COMPLETED") + One(s = "COMPLETED"),
          requested |-> @.requested - One(StateOf(T, k) = "REQUESTED") + One(s = "REQUESTED")]]]

EraseAll(T, K) ==
    FoldLeft(Erase, T, SetToSeq({k \in K : T.index[k] # None}))

\* Faulty: the best candidate there is stays, whatever comes.
PromoteCandidateReady_FirstStays(T, k) ==
    LET h == k[2]
        R == Modify(T, k, "CANDIDATE_READY")
    IN  IF In(R, "CANDIDATE_BEST", h) \cup In(R, "REQUESTED", h) = {}
        THEN Modify(R, k, "CANDIDATE_BEST") ELSE R

\* The successor of k among the announcements of its transaction, ordered by
\* state and priority, decides what the new CANDIDATE_READY becomes.
PromoteCandidateReady(T, k) ==
    LET h      == k[2]
        R      == Modify(T, k, "CANDIDATE_READY")
        better == {p \in In(R, "CANDIDATE_READY", h) : Priority[<<p, h>>] > Priority[k]}
        best   == In(R, "CANDIDATE_BEST", h)
    IN  CASE better # {} -> R
          [] better = {} /\ best # {} ->
                LET b == <<Best(h, best), h>> IN
                IF Priority[k] > Priority[b]
                THEN Modify(Modify(R, b, "CANDIDATE_READY"), k, "CANDIDATE_BEST") ELSE R
          [] better = {} /\ best = {} /\ In(R, "REQUESTED", h) # {} -> R
          [] OTHER -> Modify(R, k, "CANDIDATE_BEST")

\* Faulty: no other candidate takes the place of the one that was selected.
ChangeAndReselect_NoReselect(T, k, s) == Modify(T, k, s)

ChangeAndReselect(T, k, s) ==
    LET ready == In(T, "CANDIDATE_READY", k[2])
        selected == StateOf(T, k) \in {"CANDIDATE_BEST", "REQUESTED"}
    IN  Modify(IF selected /\ ready # {}
               THEN Modify(T, <<Best(k[2], ready), k[2]>>, "CANDIDATE_BEST") ELSE T, k, s)

IsOnlyNonCompleted(T, k) ==
    \A p \in Peer \ {k[1]} :
        T.index[<<p, k[2]>>] # None => StateOf(T, <<p, k[2]>>) = "COMPLETED"

MakeCompleted(T, k) ==
    IF StateOf(T, k) = "COMPLETED" THEN T
    ELSE IF IsOnlyNonCompleted(T, k) THEN EraseAll(T, Peer \X {k[2]})
    ELSE ChangeAndReselect(T, k, "COMPLETED")

\* The ByTime index: the oldest first.
ByTime(T, keys) ==
    SetToSortSeq(keys, LAMBDA j, k : T.index[j].time < T.index[k].time)

WaitingUntil(T, t) ==
    {k \in Key : /\ T.index[k] # None /\ T.index[k].time <= t
                  /\ StateOf(T, k) \in {"CANDIDATE_DELAYED", "REQUESTED"}}

SelectableAfter(T, t) ==
    {k \in Key : /\ T.index[k] # None /\ T.index[k].time > t
                  /\ StateOf(T, k) \in {"CANDIDATE_READY", "CANDIDATE_BEST"}}

\* Faulty: a clock that went back demotes nothing.
SetTimePoint_NoDemotion(T, t) ==
    FoldLeft(LAMBDA S, k : IF StateOf(S, k) = "REQUESTED" THEN MakeCompleted(S, k)
                           ELSE PromoteCandidateReady(S, k),
             T, ByTime(T, WaitingUntil(T, t)))

\* Announcements whose time has come are promoted or expire; then those whose
\* time is ahead again, the newest first, go back to CANDIDATE_DELAYED.
SetTimePoint(T, t) ==
    LET due == FoldLeft(LAMBDA S, k : IF StateOf(S, k) = "REQUESTED" THEN MakeCompleted(S, k)
                                      ELSE PromoteCandidateReady(S, k),
                        T, ByTime(T, WaitingUntil(T, t)))
    IN  FoldLeft(LAMBDA S, k : ChangeAndReselect(S, k, "CANDIDATE_DELAYED"), due,
                 Reverse(ByTime(due, SelectableAfter(due, t))))

-----------------------------------------------------------------------------
(* The calls of PeerManager *)

Put(T) == m_index' = T.index /\ m_peerinfo' = T.info

\* Nobody walks an answer: cs_main is free.
Unlocked == sending.peer = None

Reqtime(p, txidDelay) ==
    now + (IF p \in Preferred THEN 0 ELSE NONPREF_PEER_TX_DELAY) + txidDelay
        + (IF p \notin Relay /\ m_peerinfo[p].requested >= MAX_PEER_TX_REQUEST_IN_FLIGHT
           THEN OVERLOADED_PEER_TX_DELAY ELSE 0)

\* AddTxAnnouncement and ReceivedInv.
AddTxAnnouncement(p, h, txidDelay) ==
    /\ Unlocked /\ m_current_sequence < MaxInvs
    /\ p \in Relay \/ m_peerinfo[p].total < MAX_PEER_TX_ANNOUNCEMENTS
    /\ m_index[<<p, h>>] = None
    /\ m_index' = [m_index EXCEPT ![<<p, h>>] =
                       [state |-> "CANDIDATE_DELAYED", time |-> Reqtime(p, txidDelay),
                        sequence |-> m_current_sequence]]
    /\ m_peerinfo' = [m_peerinfo EXCEPT ![p].total = @ + 1]
    /\ m_current_sequence' = m_current_sequence + 1
    /\ UNCHANGED <<sending, now, backward>>

DisconnectedPeer(p) ==
    /\ Unlocked
    /\ Put(FoldLeft(LAMBDA T, k : LET S == MakeCompleted(T, k) IN
                                  IF S.index[k] # None THEN Erase(S, k) ELSE S,
                    tracker, SetToSeq({k \in {p} \X TxHash : m_index[k] # None})))
    /\ UNCHANGED <<m_current_sequence, sending, now, backward>>

ReceivedResponse(T, p, h) == IF T.index[<<p, h>>] # None THEN MakeCompleted(T, <<p, h>>) ELSE T

ForgetTxHash(T, h) == EraseAll(T, Peer \X {h})

\* NOTFOUND, or a transaction that was here already or came without its witness.
Unanswered(p, h) ==
    /\ Unlocked
    /\ Put(ReceivedResponse(tracker, p, h))
    /\ UNCHANGED <<m_current_sequence, sending, now, backward>>

\* A transaction that is accepted, kept as an orphan or rejected for good.
ReceivedTx(p, h) ==
    /\ Unlocked
    /\ Put(ForgetTxHash(ReceivedResponse(tracker, p, h), h))
    /\ UNCHANGED <<m_current_sequence, sending, now, backward>>

\* BlockConnected.
Confirmed(h) ==
    /\ Unlocked
    /\ Put(ForgetTxHash(tracker, h))
    /\ UNCHANGED <<m_current_sequence, sending, now, backward>>

GetRequestable(p) ==
    LET T == SetTimePoint(tracker, now) IN
    /\ Unlocked
    /\ Put(T)
    /\ sending' = [peer |-> p,
                   txs  |-> SetToSortSeq({h \in TxHash : p \in In(T, "CANDIDATE_BEST", h)},
                                LAMBDA g, h : T.index[<<p, g>>].sequence < T.index[<<p, h>>].sequence)]
    /\ UNCHANGED <<m_current_sequence, now, backward>>

\* A candidate that is not the best one takes the place of the best or the requested one.
RequestedTx(T, k, expiry) ==
    LET h == k[2]
        old == In(T, "CANDIDATE_BEST", h) \cup In(T, "REQUESTED", h)
        S == IF StateOf(T, k) = "CANDIDATE_BEST" \/ old = {} THEN T
             ELSE LET o == <<CHOOSE q \in old : TRUE, h>> IN
                  Modify(T, o, IF StateOf(T, o) = "REQUESTED" THEN "COMPLETED"
                               ELSE "CANDIDATE_READY")
        R == Modify(S, k, "REQUESTED")
    IN  IF T.index[k] = None THEN T
        ELSE IF StateOf(T, k) \in {"REQUESTED", "COMPLETED"} THEN T
        ELSE [R EXCEPT !.index[k].time = expiry]

\* The loop of SendMessages over the answer; AlreadyHaveTx may have become true of a
\* transaction in ways the tracker is not told of.
SendGetData ==
    LET h == Head(sending.txs) IN
    /\ ~Unlocked /\ sending.txs # <<>>
    /\ \/ Put(RequestedTx(tracker, <<sending.peer, h>>, now + GETDATA_TX_INTERVAL))
       \/ Put(ForgetTxHash(tracker, h))
    /\ sending' = [sending EXCEPT !.txs = Tail(@)]
    /\ UNCHANGED <<m_current_sequence, now, backward>>

Sent ==
    /\ ~Unlocked /\ sending.txs = <<>>
    /\ sending' = [peer |-> None, txs |-> <<>>]
    /\ UNCHANGED <<m_index, m_peerinfo, m_current_sequence, now, backward>>

\* The system clock, which may be set back.
ClockForward ==
    /\ Unlocked /\ now < MaxClock
    /\ now' = now + 1
    /\ UNCHANGED <<m_index, m_peerinfo, m_current_sequence, sending, backward>>

ClockBack ==
    /\ Unlocked /\ now > 0 /\ backward < MaxBackward
    /\ now' = now - 1 /\ backward' = backward + 1
    /\ UNCHANGED <<m_index, m_peerinfo, m_current_sequence, sending>>

Next ==
    \/ \E p \in Peer, h \in TxHash :
           \/ \E d \in {0, TXID_RELAY_DELAY} : AddTxAnnouncement(p, h, d)
           \/ Unanswered(p, h) \/ ReceivedTx(p, h)
    \/ \E p \in Peer : DisconnectedPeer(p) \/ GetRequestable(p)
    \/ \E h \in TxHash : Confirmed(h)
    \/ SendGetData \/ Sent \/ ClockForward \/ ClockBack

Spec == Init /\ [][Next]_vars

-----------------------------------------------------------------------------
(* Properties *)

MaxReqtime ==
    MaxClock + GETDATA_TX_INTERVAL + NONPREF_PEER_TX_DELAY + TXID_RELAY_DELAY
             + OVERLOADED_PEER_TX_DELAY

\* The types of the tracker's state; a peer without PF_RELAY never has more than
\* MAX_PEER_TX_ANNOUNCEMENTS announcements.
TypeOK ==
    /\ \A k \in Key : m_index[k] # None =>
           m_index[k] \in [state : State, time : 0..MaxReqtime, sequence : 0..(MaxInvs - 1)]
    /\ \A p \in Peer : m_peerinfo[p] \in [total : 0..Cardinality(TxHash),
                                          completed : 0..Cardinality(TxHash),
                                          requested : 0..Cardinality(TxHash)]
    /\ \A p \in Peer \ Relay :
           Cardinality({h \in TxHash : m_index[<<p, h>>] # None}) <= MAX_PEER_TX_ANNOUNCEMENTS
    /\ now \in 0..MaxClock

CountOf(p, S) ==
    Cardinality({h \in TxHash : m_index[<<p, h>>] # None /\ m_index[<<p, h>>].state \in S})

\* SanityCheck, after every call PeerManager makes: the statistics of each peer are
\* those of its announcements; no transaction has only COMPLETED announcements; at
\* most one is CANDIDATE_BEST or REQUESTED; a CANDIDATE_READY implies one such, and
\* the CANDIDATE_BEST one has at least the priority of each CANDIDATE_READY.  The
\* index is well typed throughout.
SanityCheck ==
    /\ TypeOK
    /\ \A p \in Peer : m_peerinfo[p] = [total |-> CountOf(p, State),
                                        completed |-> CountOf(p, {"COMPLETED"}),
                                        requested |-> CountOf(p, {"REQUESTED"})]
    /\ \A h \in TxHash :
           LET with(s)  == In(tracker, s, h)
               selected == with("CANDIDATE_BEST") \cup with("REQUESTED")
           IN  /\ with("COMPLETED") # {} => selected \cup with("CANDIDATE_DELAYED") # {}
               /\ Cardinality(selected) <= 1
               /\ with("CANDIDATE_READY") # {} => selected # {}
               /\ \A p \in with("CANDIDATE_BEST"), q \in with("CANDIDATE_READY") :
                      Priority[<<p, h>>] >= Priority[<<q, h>>]

\* PostGetRequestableSanityCheck, while SendMessages walks the answer: what waits
\* has its time ahead, what may be selected has its time behind, whatever the clock
\* did since the announcements came.
PostGetRequestableSanityCheck ==
    ~Unlocked =>
        \A k \in Key : m_index[k] # None =>
            /\ m_index[k].state \in {"CANDIDATE_DELAYED", "REQUESTED"} => m_index[k].time > now
            /\ m_index[k].state \in {"CANDIDATE_READY", "CANDIDATE_BEST"} => m_index[k].time <= now

Abstracted ==
    [k \in Key |->
        IF m_index[k] = None THEN None
        ELSE [m_index[k] EXCEPT !.state = IF @ \in {"REQUESTED", "COMPLETED"} THEN @
                                          ELSE "CANDIDATE"]]

Tracker == INSTANCE TxRequestTracker
    WITH anns <- Abstracted, sequence <- m_current_sequence, answer <- sending,
         MaxTime <- MaxReqtime

\* The index that keeps the best candidates marked answers GetRequestable exactly as
\* a search through all announcements would: never twice at a time, preferred peers
\* first, in the order of the announcements, and with nothing left out.
ImplementsTracker == Tracker!Spec
=============================================================================
