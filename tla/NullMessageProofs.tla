-------------------------- MODULE NullMessageProofs --------------------------
(***************************************************************************)
(* Proofs about NullMessage, for any number of ranks, any channels and any *)
(* delays.                                                                 *)
(***************************************************************************)
EXTENDS NullMessage, WellFoundedInduction, FiniteSetTheorems, SequenceTheorems, TLAPS

Events == [ts : Nat, uid : Nat, fn : EventFunctions, to : Ranks]

\* Min of a set of natural numbers is its least element.
LEMMA LeastOf ==
    ASSUME NEW S \in SUBSET Nat, S # {}
    PROVE  Min(S) \in S /\ \A m \in S : Min(S) <= m
<1> DEFINE R == {p \in Nat \X Nat : p[1] < p[2]}
<1>1. IsWellFoundedOn(R, Nat)
    BY NatLessThanWellFounded DEF OpToRel
<1> HIDE DEF R
<1>2. PICK x \in S : \A y \in S : ~(<<y, x>> \in R)
    BY <1>1, WFMin
<1>3. \A y \in S : x <= y
  <2> SUFFICES ASSUME NEW y \in S PROVE x <= y
      OBVIOUS
  <2>1. x \in Nat /\ y \in Nat
      OBVIOUS
  <2>2. ~(y < x)
      BY <1>2, <2>1 DEF R
  <2> QED
      BY <2>1, <2>2
<1> QED
    BY <1>3 DEF Min

\* Min of two natural numbers.
LEMMA SmallerOf ==
    ASSUME NEW a \in Nat, NEW b \in Nat
    PROVE  /\ Min({a, b}) \in {a, b} /\ Min({a, b}) \in Nat
           /\ Min({a, b}) <= a /\ Min({a, b}) <= b
<1>1. \E x \in {a, b} : \A y \in {a, b} : x <= y
    OBVIOUS
<1> QED
    BY <1>1 DEF Min

\* Being neighbours is symmetric, and the bundle between two has a delay that no
\* channel of it falls short of.
LEMMA Bundles ==
    ASSUME NEW r \in Ranks, NEW q \in Neighbours(r)
    PROVE  /\ q \in Ranks /\ q # r /\ r \in Neighbours(q)
           /\ BundleDelay(r, q) \in Nat /\ NullDelay[BundleDelay(r, q)] \in Nat
           /\ \A c \in Channels : {r, q} \subseteq c.ends => BundleDelay(r, q) <= c.delay
<1> DEFINE B == {ch \in Channels : {r, q} \subseteq ch.ends}
           S == {c.delay : c \in B}
<1>1. q \in Ranks /\ q # r /\ r \in Neighbours(q) /\ B # {}
    BY DEF Neighbours
<1>2. S \in SUBSET Nat /\ S # {}
    BY <1>1, ChannelsAssumption
<1>3. Min(S) \in S /\ \A m \in S : Min(S) <= m
  <2> HIDE DEF S
  <2> QED
      BY <1>2, LeastOf
<1>4. BundleDelay(r, q) = Min(S)
    BY DEF BundleDelay
<1>5. PICK c \in Channels : Min(S) = c.delay
    BY <1>3
<1>6. NullDelay[c.delay] \in Nat
    BY <1>5, NullDelayAssumption, ChannelsAssumption
<1>7. \A d \in Channels : {r, q} \subseteq d.ends => Min(S) <= d.delay
    BY <1>3
<1> HIDE DEF S
<1> QED
    BY <1>1, <1>2, <1>3, <1>4, <1>5, <1>6, <1>7

LEMMA NextTsLeast ==
    ASSUME NEW ev \in SUBSET Events, ev # {}
    PROVE  /\ NextTs(ev) \in Nat
           /\ \E e \in ev : e.ts = NextTs(ev)
           /\ \A e \in ev : NextTs(ev) <= e.ts
<1> DEFINE S == {e.ts : e \in ev}
<1>1. S \in SUBSET Nat /\ S # {}
    BY DEF Events
<1>2. Min(S) \in S /\ \A m \in S : Min(S) <= m
  <2> HIDE DEF S
  <2> QED
      BY <1>1, LeastOf
<1> QED
    BY <1>1, <1>2 DEF NextTs

\* A guarantee is the largest time that is behind the safe time and all events,
\* plus the delay.
LEMMA GuaranteeBounds ==
    ASSUME TypeOK, NEW r \in Ranks, NEW q \in Neighbours(r), NEW ev \in SUBSET Events, ev # {}
    PROVE  LET base == Guarantee(r, q, ev) - BundleDelay(r, q)
           IN  /\ Guarantee(r, q, ev) \in Nat
               /\ base <= m_safeTime[r] /\ \A e \in ev : base <= e.ts
               /\ \A t \in Int : t <= m_safeTime[r] /\ (\A e \in ev : t <= e.ts) => t <= base
<1> DEFINE m == Min({NextTs(ev), m_safeTime[r]})
<1>1. NextTs(ev) \in Nat /\ m_safeTime[r] \in Nat /\ BundleDelay(r, q) \in Nat
    BY NextTsLeast, Bundles DEF TypeOK
<1>2. m \in {NextTs(ev), m_safeTime[r]} /\ m \in Nat /\ m <= NextTs(ev) /\ m <= m_safeTime[r]
    BY <1>1, SmallerOf
<1>3. Guarantee(r, q, ev) = m + BundleDelay(r, q)
    BY DEF Guarantee
<1> HIDE DEF m
<1>4. \A e \in ev : m <= e.ts
  <2>1. \A e \in ev : NextTs(ev) <= e.ts /\ e.ts \in Nat
      BY NextTsLeast DEF Events
  <2> QED
      BY <1>1, <1>2, <2>1
<1>5. ASSUME NEW t \in Int, t <= m_safeTime[r], \A e \in ev : t <= e.ts
      PROVE  t <= m
    BY <1>2, <1>5, NextTsLeast
<1>6. Guarantee(r, q, ev) \in Nat /\ Guarantee(r, q, ev) - BundleDelay(r, q) = m
    BY <1>1, <1>2, <1>3
<1> QED
    BY <1>2, <1>4, <1>5, <1>6

\* The safe time is behind all guarantees and behind nothing else.
LEMMA SafeTimeBounds ==
    ASSUME NEW r \in Ranks, NEW g \in [Ranks -> Nat]
    PROVE  /\ SafeTime(r, g) \in Nat /\ SafeTime(r, g) <= Infinity
           /\ \A q \in Neighbours(r) : SafeTime(r, g) <= g[q]
           /\ \A t \in Nat : t <= Infinity /\ (\A q \in Neighbours(r) : t <= g[q])
                             => t <= SafeTime(r, g)
<1> DEFINE S == {Infinity} \cup {g[q] : q \in Neighbours(r)}
<1>1. S \in SUBSET Nat /\ S # {}
    BY TimesAssumption DEF Neighbours
<1>2. Min(S) \in S /\ \A m \in S : Min(S) <= m
  <2> HIDE DEF S
  <2> QED
      BY <1>1, LeastOf
<1>3. SafeTime(r, g) = Min(S)
    BY DEF SafeTime
<1>4. Min(S) \in Nat
    BY <1>1, <1>2
<1> QED
    BY <1>2, <1>3, <1>4

LEMMA MaxRank == Max(Ranks) \in Nat /\ \A r \in Ranks : r \in Nat
<1> DEFINE n == Cardinality(Ranks) - 1
<1>1. n \in Int /\ Ranks = 0..n /\ Ranks # {}
    BY RanksAssumption, FS_CardinalityType
<1> HIDE DEF n
<1>2. n \in 0..n /\ \A y \in 0..n : n >= y
    BY <1>1
<1> QED
    BY <1>1, <1>2, SMTT(30) DEF Max

-----------------------------------------------------------------------------
(* Types.                                                                  *)

Locations == {"main", "loop", "event", "null", "receive", "done"}

\* TypeOK but for the flags.
Values ==
    /\ m_events \in [Ranks -> SUBSET Events]
    /\ m_uid \in [Ranks -> Nat]
    /\ m_currentTs \in [Ranks -> Nat] /\ m_safeTime \in [Ranks -> Nat]
    /\ m_guaranteeTime \in [Ranks -> [Ranks -> Nat]]
    /\ current \in [Ranks -> Events]
    /\ network \in [Ranks -> [Ranks -> Seq(Message)]]
    /\ pc \in [Ranks -> Locations]
    /\ calls \in 0..MaxCalls

LEMMA TypeParts == TypeOK <=> Values /\ m_stop \in [Ranks -> BOOLEAN]
    BY Zenon DEF TypeOK, Values, Events, Locations

LEMMA TypeInit == Init => TypeOK
<1> SUFFICES ASSUME Init PROVE TypeOK
    OBVIOUS
<1>1. m_stop \in [Ranks -> BOOLEAN]
    BY Zenon DEF Init
<1>2. Values
  <2>1. \A r \in Ranks : \A t \in StopTimes : Event(t, 4, "stop", r) \in Events
      BY TimesAssumption DEF Event, Events, EventFunctions
  <2>2. m_events \in [Ranks -> SUBSET Events]
      BY <2>1 DEF Init
  <2>3. \A r \in Ranks : Event(0, 0, "user", r) \in Events
      BY DEF Event, Events, EventFunctions
  <2>4. current \in [Ranks -> Events]
      BY <2>3 DEF Init
  <2>5. network \in [Ranks -> [Ranks -> Seq(Message)]]
      BY DEF Init
  <2>6. calls \in 0..MaxCalls
      BY MaxCallsAssumption DEF Init
  <2> QED
      BY <2>2, <2>4, <2>5, <2>6 DEF Init, Values, Locations
<1> QED
    BY <1>1, <1>2, TypeParts

LEMMA StopTypes ==
    ASSUME m_stop \in [Ranks -> BOOLEAN], [Next]_vars
    PROVE  m_stop' \in [Ranks -> BOOLEAN]
<1>1. CASE m_stop' = m_stop
    BY <1>1
<1>2. ASSUME NEW r \in Ranks, NEW b \in BOOLEAN, m_stop' = [m_stop EXCEPT ![r] = b]
      PROVE  m_stop' \in [Ranks -> BOOLEAN]
    BY <1>2
<1>3. CASE UNCHANGED vars \/ Terminated
    BY <1>1, <1>3 DEF Terminated, vars
<1>4. ASSUME NEW r \in Ranks, UserCode(r)
      PROVE  m_stop' = m_stop
    BY <1>4 DEF UserCode, Schedule, TransmitStart
<1>5. ASSUME NEW r \in Ranks, Run(r)
      PROVE  m_stop' \in [Ranks -> BOOLEAN]
    BY <1>2, <1>5, Zenon DEF Run
<1>6. ASSUME NEW r \in Ranks, ProcessOneEvent(r)
      PROVE  m_stop' \in [Ranks -> BOOLEAN]
  <2>1. PICK next \in m_events[r] : m_stop' = [m_stop EXCEPT ![r] = @ \/ next.fn = "stop"]
      BY <1>6 DEF ProcessOneEvent
  <2> DEFINE b == m_stop[r] \/ next.fn = "stop"
  <2>2. b \in BOOLEAN /\ m_stop' = [m_stop EXCEPT ![r] = b]
      BY <2>1, Zenon
  <2> HIDE DEF b
  <2> QED
      BY <1>2, <2>2
<1>7. ASSUME NEW r \in Ranks,
             \/ NullMessageEventHandler(r) \/ EventReturns(r) \/ ReceiveMessage(r)
             \/ HandleArrivingMessagesNonBlocking(r) \/ HandleArrivingMessagesBlocking(r)
             \/ RunReturns(r)
      PROVE  m_stop' = m_stop
    BY <1>7 DEF NullMessageEventHandler, EventReturns, ReceiveMessage, Receive,
                HandleArrivingMessagesNonBlocking, HandleArrivingMessagesBlocking, RunReturns
<1> QED
    BY <1>1, <1>3, <1>4, <1>5, <1>6, <1>7 DEF Next, Loop

\* One more message, or one less, between two ranks.
LEMMA NetworkUpdate ==
    ASSUME network \in [Ranks -> [Ranks -> Seq(Message)]], NEW s \in Ranks, NEW r \in Ranks,
           NEW q \in Seq(Message), network' = [network EXCEPT ![s][r] = q]
    PROVE  /\ network' \in [Ranks -> [Ranks -> Seq(Message)]]
           /\ network'[s][r] = q
           /\ \A x, y \in Ranks : x # s \/ y # r => network'[x][y] = network[x][y]
<1> DEFINE Row == [Ranks -> Seq(Message)]
           row == [network[s] EXCEPT ![r] = q]
<1>1. network[s] \in Row /\ row \in Row /\ row[r] = q /\ \A y \in Ranks \ {r} : row[y] = network[s][y]
    OBVIOUS
<1>2. network' = [network EXCEPT ![s] = row]
    OBVIOUS
<1> HIDE DEF Row, row
<1>3. network' \in [Ranks -> Row] /\ network'[s] = row /\ \A x \in Ranks \ {s} : network'[x] = network[x]
    BY <1>1, <1>2 DEF Row
<1> QED
    BY <1>1, <1>3 DEF Row

-----------------------------------------------------------------------------
(* What each action does to the rank that takes it and to the network; the *)
(* uids are left out, and of the new events only what matters is kept.     *)

IsNull(e, q) == e.fn = "null" /\ e.to = q

Others(r) == \A p \in Ranks \ {r} :
    /\ m_events'[p] = m_events[p] /\ m_currentTs'[p] = m_currentTs[p]
    /\ m_safeTime'[p] = m_safeTime[p] /\ m_guaranteeTime'[p] = m_guaranteeTime[p]
    /\ pc'[p] = pc[p] /\ current'[p] = current[p] /\ m_stop'[p] = m_stop[p]

Sent(r, q, m) == /\ network'[r][q] = Append(network[r][q], m)
                 /\ \A x, y \in Ranks : x # r \/ y # q => network'[x][y] = network[x][y]

Scheduled(r) ==
    /\ pc[r] \in {"main", "event"}
    /\ \E e \in Events : /\ e.fn = "user" /\ m_currentTs[r] <= e.ts
                         /\ m_events'[r] = m_events[r] \cup {e}
    /\ UNCHANGED <<m_currentTs, m_safeTime, m_stop, m_guaranteeTime, current, network, pc>>

Transmitted(r, q) ==
    /\ pc[r] = "event" /\ pc'[r] \in {"event", "receive"}
    /\ ~MoreAfterSend => pc'[r] = "receive"
    /\ \E e \in Events, n \in Events, m \in Message :
         /\ e.fn = "user" /\ m_currentTs[r] <= e.ts
         /\ IsNull(n, q) /\ m_currentTs[r] <= n.ts
         /\ m.guarantee = Guarantee(r, q, m_events[r] \cup {e})
         /\ m_currentTs[r] + BundleDelay(r, q) <= m.rxTime
         /\ m_events'[r] = CancelNullEvents(q, m_events[r] \cup {e}) \cup {n}
         /\ Sent(r, q, m)
    /\ UNCHANGED <<m_currentTs, m_safeTime, m_stop, m_guaranteeTime, current>>

\* N are the first null message events, one for each bundle.
Started(r) ==
    /\ pc[r] = "main" /\ pc'[r] = "loop"
    /\ \E N \in SUBSET Events :
         /\ m_events'[r] = m_events[r] \cup N
         /\ \A n \in N : n.fn = "null" /\ n.to \in Neighbours(r) /\ m_currentTs[r] <= n.ts
         /\ \A q \in Neighbours(r) : \E n \in N : n.to = q
         /\ \A n, k \in N : n.to = k.to => n = k
    /\ \A q \in Neighbours(r) :
         network'[r][q] = Append(network[r][q], [rxTime |-> 0, guarantee |-> BundleDelay(r, q)])
    /\ \A x, y \in Ranks : x # r \/ y \notin Neighbours(r) => network'[x][y] = network[x][y]
    /\ m_safeTime'[r] = 0 /\ m_stop'[r] = FALSE
    /\ UNCHANGED <<m_currentTs, m_guaranteeTime, current>>

Moved(r) ==
    /\ \/ pc[r] = "event" /\ pc'[r] = "receive"
       \/ pc[r] = "loop" /\ pc'[r] = "done"
    /\ UNCHANGED <<m_events, m_currentTs, m_safeTime, m_stop, m_guaranteeTime, current, network>>

Processed(r) ==
    /\ pc[r] = "loop" /\ m_stop[r] = FALSE
    /\ \E next \in m_events[r] :
         /\ next.ts <= m_safeTime[r] /\ \A e \in m_events[r] : next.ts <= e.ts
         /\ m_events'[r] = m_events[r] \ {next}
         /\ m_currentTs'[r] = next.ts /\ current'[r] = next
         /\ pc'[r] = Invoke(next.fn) /\ m_stop'[r] = (next.fn = "stop")
    /\ UNCHANGED <<m_safeTime, m_guaranteeTime, network>>

NullSent(r) ==
    /\ pc[r] = "null" /\ pc'[r] = "receive" /\ m_events[r] # {}
    /\ \E n \in Events, m \in Message :
         /\ IsNull(n, current[r].to) /\ m_currentTs[r] <= n.ts
         /\ m.rxTime = 0 /\ m.guarantee = Guarantee(r, current[r].to, m_events[r])
         /\ m_events'[r] = m_events[r] \cup {n}
         /\ Sent(r, current[r].to, m)
    /\ UNCHANGED <<m_currentTs, m_safeTime, m_stop, m_guaranteeTime, current>>

Received(r, q) ==
    /\ pc[r] \in {"receive", "loop"} /\ network[q][r] # <<>>
    /\ network'[q][r] = Tail(network[q][r])
    /\ \A x, y \in Ranks : x # q \/ y # r => network'[x][y] = network[x][y]
    /\ m_guaranteeTime'[r][q] = Head(network[q][r]).guarantee
    /\ \A p \in Ranks \ {q} : m_guaranteeTime'[r][p] = m_guaranteeTime[r][p]
    /\ \/ m_events'[r] = m_events[r]
       \/ \E e \in Events : /\ e.fn = "user" /\ e.ts = Head(network[q][r]).rxTime /\ e.ts > 0
                            /\ m_events'[r] = m_events[r] \cup {e}
    /\ m_safeTime'[r] \in {m_safeTime[r], SafeTime(r, m_guaranteeTime'[r])}
    /\ UNCHANGED <<m_currentTs, m_stop, current, pc>>

Refreshed(r) ==
    /\ pc[r] \in {"receive", "loop"} /\ pc'[r] = "loop"
    /\ m_safeTime'[r] = SafeTime(r, m_guaranteeTime[r])
    /\ UNCHANGED <<m_events, m_currentTs, m_stop, m_guaranteeTime, current, network>>

LEMMA ScheduleMove ==
    ASSUME TypeOK, NEW r \in Ranks, NEW delay \in Delays, Schedule(r, delay)
    PROVE  Values' /\ Others(r) /\ Scheduled(r)
<1> DEFINE e == Event(m_currentTs[r] + delay, m_uid[r], "user", r)
<1>a. Values
    BY TypeParts
<1>1. e \in Events /\ e.fn = "user" /\ m_currentTs[r] <= e.ts /\ m_uid[r] + 1 \in Nat
    BY <1>a, TimesAssumption DEF Values, Event, Events, EventFunctions
<1>2. /\ m_events' = [m_events EXCEPT ![r] = @ \cup {e}]
      /\ m_uid' = [m_uid EXCEPT ![r] = @ + 1] /\ calls < MaxCalls /\ calls' = calls + 1
      /\ pc[r] \in {"main", "event"}
      /\ UNCHANGED <<m_currentTs, m_safeTime, m_stop, m_guaranteeTime, current, network, pc>>
    BY DEF Schedule
<1> HIDE DEF e
<1>3. Values'
    BY <1>a, <1>1, <1>2, MaxCallsAssumption DEF Values
<1>4. Others(r)
    BY <1>a, <1>2 DEF Values, Others
<1>5. Scheduled(r)
    BY <1>a, <1>1, <1>2 DEF Values, Scheduled
<1> QED
    BY <1>3, <1>4, <1>5

LEMMA NullEventTyped ==
    ASSUME TypeOK, NEW r \in Ranks, NEW q \in Neighbours(r), NEW uid \in Nat
    PROVE  /\ NullEvent(r, q, uid) \in Events /\ IsNull(NullEvent(r, q, uid), q)
           /\ m_currentTs[r] <= NullEvent(r, q, uid).ts
<1>1. NullDelay[BundleDelay(r, q)] \in Nat /\ m_currentTs[r] \in Nat /\ q \in Ranks
    BY Bundles DEF TypeOK
<1> QED
    BY <1>1 DEF NullEvent, Event, Events, EventFunctions, IsNull

LEMMA CancelTyped ==
    ASSUME NEW q, NEW ev \in SUBSET Events
    PROVE  /\ CancelNullEvents(q, ev) \in SUBSET Events
           /\ \A e \in CancelNullEvents(q, ev) : ~IsNull(e, q) /\ \E f \in ev : e.ts = f.ts
           /\ \A e \in CancelNullEvents(q, ev) : e \in ev \/ e.fn = "cancelled"
           /\ \A e \in ev : IsNull(e, q) \/ e \in CancelNullEvents(q, ev)
    BY DEF CancelNullEvents, Events, EventFunctions, IsNull

LEMMA TransmitMove ==
    ASSUME TypeOK, NEW r \in Ranks, NEW c \in Channels,
           NEW txTime \in TxTimes, TransmitStart(r, c, txTime)
    PROVE  Values' /\ Others(r) /\ \E q \in Neighbours(r) : Transmitted(r, q)
<1> DEFINE rxTime == m_currentTs[r] + txTime + c.delay
           e == Event(m_currentTs[r] + txTime, m_uid[r], "user", r)
           ev == m_events[r] \cup {e}
<1>a. Values
    BY TypeParts
<1>b. txTime \in Nat /\ c.delay \in Nat /\ m_currentTs[r] \in Nat /\ m_uid[r] \in Nat
    BY <1>a, TimesAssumption, ChannelsAssumption DEF Values
<1>1. PICK q \in c.ends \ {r} :
        /\ network' = [network EXCEPT ![r][q] = Append(@,
                [rxTime |-> rxTime, guarantee |-> Guarantee(r, q, ev)])]
        /\ m_events' = [m_events EXCEPT ![r] =
                CancelNullEvents(q, ev) \cup {NullEvent(r, q, m_uid[r] + 1)}]
    BY DEF TransmitStart
<1>2. q \in Neighbours(r) /\ {r, q} \subseteq c.ends
    BY <1>1, ChannelsAssumption DEF Neighbours, TransmitStart
<1>3. /\ pc[r] = "event"
      /\ \E l \in {"event", "receive"} : /\ pc' = [pc EXCEPT ![r] = l]
                                         /\ ~MoreAfterSend => l = "receive"
      /\ m_uid' = [m_uid EXCEPT ![r] = @ + 2]
      /\ calls < MaxCalls /\ calls' = calls + 1
      /\ UNCHANGED <<m_currentTs, m_safeTime, m_stop, m_guaranteeTime, current>>
    BY DEF TransmitStart
<1>4. e \in Events /\ e.fn = "user" /\ m_currentTs[r] <= e.ts
    BY <1>b DEF Event, Events, EventFunctions
<1> HIDE DEF e
<1>5. ev \in SUBSET Events /\ ev # {}
    BY <1>a, <1>4 DEF Values
<1> DEFINE m == [rxTime |-> rxTime, guarantee |-> Guarantee(r, q, ev)]
           n == NullEvent(r, q, m_uid[r] + 1)
<1>6. m \in Message /\ m.guarantee = Guarantee(r, q, ev)
      /\ m_currentTs[r] + BundleDelay(r, q) <= m.rxTime
  <2>1. Guarantee(r, q, ev) \in Nat
      BY <1>2, <1>5, GuaranteeBounds
  <2>2. BundleDelay(r, q) <= c.delay /\ BundleDelay(r, q) \in Nat
      BY <1>2, Bundles
  <2> QED
      BY <1>b, <2>1, <2>2 DEF Message
<1>7. n \in Events /\ IsNull(n, q) /\ m_currentTs[r] <= n.ts
    BY <1>2, <1>b, NullEventTyped
<1>8. CancelNullEvents(q, ev) \in SUBSET Events
    BY <1>5, CancelTyped
<1>9. q \in Ranks /\ network[r][q] \in Seq(Message)
    BY <1>a, <1>2, Bundles DEF Values
<1>10. network' = [network EXCEPT ![r][q] = Append(network[r][q], m)]
    BY <1>1
<1>11. m_events' = [m_events EXCEPT ![r] = CancelNullEvents(q, ev) \cup {n}]
    BY <1>1
<1> HIDE DEF m, n
<1>12. network' \in [Ranks -> [Ranks -> Seq(Message)]] /\ Sent(r, q, m)
  <2> DEFINE a == Append(network[r][q], m)
  <2>1. a \in Seq(Message) /\ network' = [network EXCEPT ![r][q] = a]
      BY <1>6, <1>9, <1>10
  <2>2. network \in [Ranks -> [Ranks -> Seq(Message)]]
      BY <1>a DEF Values
  <2> HIDE DEF a
  <2>3. /\ network' \in [Ranks -> [Ranks -> Seq(Message)]]
        /\ network'[r][q] = a
        /\ \A x, y \in Ranks : x # r \/ y # q => network'[x][y] = network[x][y]
      BY <1>9, <2>1, <2>2, NetworkUpdate
  <2> QED
      BY <2>3 DEF a, Sent
<1> HIDE DEF ev
<1>13. Values'
  <2>1. m_events' \in [Ranks -> SUBSET Events]
      BY <1>a, <1>7, <1>8, <1>11 DEF Values
  <2>2. /\ m_uid' \in [Ranks -> Nat] /\ pc' \in [Ranks -> Locations]
        /\ calls' \in 0..MaxCalls
      BY <1>a, <1>3, MaxCallsAssumption DEF Values, Locations
  <2> QED
      BY <1>a, <1>3, <1>12, <2>1, <2>2 DEF Values
<1>14. Others(r)
    BY <1>a, <1>3, <1>11 DEF Values, Others
<1>15. Transmitted(r, q)
  <2>1. /\ m_events'[r] = CancelNullEvents(q, ev) \cup {n}
        /\ pc'[r] \in {"event", "receive"} /\ (~MoreAfterSend => pc'[r] = "receive")
      BY <1>a, <1>3, <1>11 DEF Values
  <2> QED
      BY <1>3, <1>4, <1>6, <1>7, <1>12, <2>1, Zenon DEF Transmitted, ev
<1> QED
    BY <1>2, <1>13, <1>14, <1>15

LEMMA RunMove ==
    ASSUME TypeOK, NEW r \in Ranks, Run(r)
    PROVE  Values' /\ Others(r) /\ Started(r)
<1> DEFINE row == [q \in Ranks |->
             IF q \in Neighbours(r)
             THEN Append(network[r][q], [rxTime |-> 0, guarantee |-> BundleDelay(r, q)])
             ELSE network[r][q]]
           N == {NullEvent(r, q, m_uid[r] + q) : q \in Neighbours(r)}
<1>a. Values
    BY TypeParts
<1>1. /\ pc[r] = "main" /\ pc' = [pc EXCEPT ![r] = "loop"]
      /\ network' = [network EXCEPT ![r] = row]
      /\ m_events' = [m_events EXCEPT ![r] = @ \cup N]
      /\ m_uid' = [m_uid EXCEPT ![r] = @ + 1 + Max(Ranks)]
      /\ m_safeTime' = [m_safeTime EXCEPT ![r] = 0]
      /\ m_stop' = [m_stop EXCEPT ![r] = FALSE]
      /\ UNCHANGED <<m_currentTs, m_guaranteeTime, current, calls>>
    BY DEF Run
<1>2. row \in [Ranks -> Seq(Message)]
  <2>1. ASSUME NEW q \in Neighbours(r)
        PROVE  Append(network[r][q], [rxTime |-> 0, guarantee |-> BundleDelay(r, q)]) \in Seq(Message)
    <3>1. [rxTime |-> 0, guarantee |-> BundleDelay(r, q)] \in Message
        BY Bundles DEF Message
    <3>2. network[r][q] \in Seq(Message)
        BY <1>a, Bundles DEF Values
    <3> QED
        BY <3>1, <3>2
  <2>2. \A q \in Ranks : network[r][q] \in Seq(Message)
      BY <1>a DEF Values
  <2> QED
      BY <2>1, <2>2
<1>3. \A q \in Neighbours(r) : LET n == NullEvent(r, q, m_uid[r] + q)
                               IN  /\ n \in Events /\ n.fn = "null" /\ n.to = q
                                   /\ m_currentTs[r] <= n.ts
  <2> SUFFICES ASSUME NEW q \in Neighbours(r)
               PROVE  LET n == NullEvent(r, q, m_uid[r] + q)
                      IN  n \in Events /\ n.fn = "null" /\ n.to = q /\ m_currentTs[r] <= n.ts
      OBVIOUS
  <2>0. q \in Nat /\ m_uid[r] \in Nat
      BY <1>a, MaxRank, Bundles DEF Values
  <2>1. m_uid[r] + q \in Nat
      BY <2>0
  <2> QED
      BY <2>1, NullEventTyped DEF IsNull
<1>4. /\ N \in SUBSET Events
      /\ \A n \in N : n.fn = "null" /\ n.to \in Neighbours(r) /\ m_currentTs[r] <= n.ts
      /\ \A q \in Neighbours(r) : \E n \in N : n.to = q
      /\ \A n, k \in N : n.to = k.to => n = k
    BY <1>3
<1> HIDE DEF N
<1>5. /\ \A q \in Neighbours(r) :
           row[q] = Append(network[r][q], [rxTime |-> 0, guarantee |-> BundleDelay(r, q)])
      /\ \A q \in Ranks \ Neighbours(r) : row[q] = network[r][q]
    BY DEF Neighbours
<1> HIDE DEF row
<1>6. Values'
  <2>1. m_uid' \in [Ranks -> Nat]
      BY <1>a, <1>1, MaxRank DEF Values
  <2>2. network' \in [Ranks -> [Ranks -> Seq(Message)]]
      BY <1>a, <1>1, <1>2 DEF Values
  <2> QED
      BY <1>a, <1>1, <1>4, <2>1, <2>2 DEF Values, Locations
<1>7. Others(r)
    BY <1>a, <1>1 DEF TypeOK, Values, Others
<1>8. Started(r)
  <2>1. m_events'[r] = m_events[r] \cup N /\ pc'[r] = "loop" /\ m_safeTime'[r] = 0
      BY <1>a, <1>1 DEF Values
  <2>2. m_stop'[r] = FALSE
      BY <1>1 DEF TypeOK
  <2>3. network'[r] = row /\ \A x \in Ranks \ {r} : network'[x] = network[x]
      BY <1>a, <1>1 DEF Values
  <2>4. \A x, y \in Ranks : x # r \/ y \notin Neighbours(r) => network'[x][y] = network[x][y]
      BY <1>5, <2>3
  <2>5. \A q \in Neighbours(r) :
           network'[r][q] = Append(network[r][q], [rxTime |-> 0, guarantee |-> BundleDelay(r, q)])
      BY <1>5, <2>3
  <2>6. \E M \in SUBSET Events :
         /\ m_events'[r] = m_events[r] \cup M
         /\ \A n \in M : n.fn = "null" /\ n.to \in Neighbours(r) /\ m_currentTs[r] <= n.ts
         /\ \A q \in Neighbours(r) : \E n \in M : n.to = q
         /\ \A n, k \in M : n.to = k.to => n = k
      BY <1>4, <2>1, Zenon
  <2> QED
      BY <1>1, <2>1, <2>2, <2>4, <2>5, <2>6 DEF Started
<1> QED
    BY <1>6, <1>7, <1>8

LEMMA ReturnMove ==
    ASSUME TypeOK, NEW r \in Ranks, EventReturns(r) \/ RunReturns(r)
    PROVE  Values' /\ Others(r) /\ Moved(r)
<1>a. Values
    BY TypeParts
<1>1. PICK l \in {"receive", "done"} :
        /\ \/ pc[r] = "event" /\ l = "receive"
           \/ pc[r] = "loop" /\ l = "done"
        /\ pc' = [pc EXCEPT ![r] = l]
        /\ UNCHANGED <<m_events, m_uid, m_currentTs, m_safeTime, m_stop, m_guaranteeTime,
                       current, network, calls>>
    BY DEF EventReturns, RunReturns
<1>2. Values'
    BY <1>a, <1>1 DEF Values, Locations
<1> QED
    BY <1>a, <1>1, <1>2 DEF Values, Others, Moved

LEMMA ProcessMove ==
    ASSUME TypeOK, NEW r \in Ranks, ProcessOneEvent(r)
    PROVE  Values' /\ Others(r) /\ Processed(r)
<1>a. Values
    BY TypeParts
<1>1. PICK next \in m_events[r] :
         /\ IsEarliest(next, m_events[r])
         /\ m_events' = [m_events EXCEPT ![r] = @ \ {next}]
         /\ m_currentTs' = [m_currentTs EXCEPT ![r] = next.ts]
         /\ current' = [current EXCEPT ![r] = next]
         /\ m_stop' = [m_stop EXCEPT ![r] = @ \/ next.fn = "stop"]
         /\ pc' = [pc EXCEPT ![r] = Invoke(next.fn)]
    BY DEF ProcessOneEvent
<1>2. /\ pc[r] = "loop" /\ ~m_stop[r] /\ NextTs(m_events[r]) <= m_safeTime[r]
      /\ UNCHANGED <<m_uid, m_safeTime, m_guaranteeTime, network, calls>>
    BY DEF ProcessOneEvent, IsFinished, Safe
<1>3. next \in Events /\ m_events[r] \in SUBSET Events /\ \A e \in m_events[r] : e.ts \in Nat
    BY <1>a, SMTT(30) DEF Values, Events
<1>4. \A e \in m_events[r] : next.ts <= e.ts
    BY <1>1, <1>3 DEF IsEarliest, Less
<1>5. next.ts <= m_safeTime[r]
  <2>1. PICK e \in m_events[r] : e.ts = NextTs(m_events[r])
      BY <1>3, NextTsLeast
  <2>2. next.ts \in Nat /\ e.ts \in Nat /\ m_safeTime[r] \in Nat
      BY <1>a, <1>3 DEF Values
  <2> QED
      BY <1>2, <1>4, <2>1, <2>2
<1>6. Invoke(next.fn) \in Locations
    BY DEF Invoke, Locations
<1>7. Values'
  <2>1. next.ts \in Nat
      BY <1>3
  <2>2. m_events' \in [Ranks -> SUBSET Events]
      BY <1>a, <1>1 DEF Values
  <2>3. m_currentTs' \in [Ranks -> Nat] /\ current' \in [Ranks -> Events]
      BY <1>a, <1>1, <1>3, <2>1 DEF Values
  <2>4. pc' \in [Ranks -> Locations]
      BY <1>a, <1>1, <1>6 DEF Values
  <2> QED
      BY <1>a, <1>2, <2>2, <2>3, <2>4 DEF Values
<1>8. \A p \in Ranks \ {r} : m_stop'[p] = m_stop[p]
    BY <1>1 DEF TypeOK
<1>9. Others(r)
    BY <1>a, <1>1, <1>2, <1>8 DEF Values, Others
<1>10. m_stop[r] = FALSE /\ m_stop'[r] = (next.fn = "stop")
  <2>1. m_stop \in [Ranks -> BOOLEAN]
      BY DEF TypeOK
  <2>2. m_stop[r] = FALSE
      BY <1>2, <2>1, Zenon
  <2>3. m_stop'[r] = (m_stop[r] \/ next.fn = "stop")
      BY <1>1, <2>1, Zenon
  <2> QED
      BY <2>2, <2>3, Zenon
<1>11. /\ m_events'[r] = m_events[r] \ {next} /\ m_currentTs'[r] = next.ts
       /\ current'[r] = next /\ pc'[r] = Invoke(next.fn)
    BY <1>a, <1>1 DEF Values
<1>12. Processed(r)
    BY <1>2, <1>4, <1>5, <1>10, <1>11, Zenon DEF Processed
<1> QED
    BY <1>7, <1>9, <1>12

LEMMA NullMove ==
    ASSUME TypeOK, NEW r \in Ranks, current[r].to \in Neighbours(r), NullMessageEventHandler(r)
    PROVE  Values' /\ Others(r) /\ NullSent(r)
<1> DEFINE q == current[r].to
           g == Guarantee(r, q, m_events[r])
           m == [rxTime |-> 0, guarantee |-> g]
           n == NullEvent(r, q, m_uid[r])
<1>a. Values
    BY TypeParts
<1>1. /\ pc[r] = "null" /\ m_events[r] # {}
      /\ network' = [network EXCEPT ![r][q] = Append(network[r][q], m)]
      /\ m_events' = [m_events EXCEPT ![r] = @ \cup {n}]
      /\ m_uid' = [m_uid EXCEPT ![r] = @ + 1]
      /\ pc' = [pc EXCEPT ![r] = "receive"]
      /\ UNCHANGED <<m_currentTs, m_safeTime, m_stop, m_guaranteeTime, current, calls>>
    BY DEF NullMessageEventHandler
<1>2. g \in Nat
  <2>1. m_events[r] \in SUBSET Events
      BY <1>a DEF Values
  <2> QED
      BY <1>1, <2>1, GuaranteeBounds
<1>3. m \in Message /\ m.rxTime = 0 /\ m.guarantee = g
    BY <1>2 DEF Message
<1>4. n \in Events /\ IsNull(n, q) /\ m_currentTs[r] <= n.ts
    BY <1>a, NullEventTyped DEF Values
<1>5. q \in Ranks /\ network[r][q] \in Seq(Message)
    BY <1>a, Bundles DEF Values
<1> HIDE DEF m, n, g
<1>6. network' \in [Ranks -> [Ranks -> Seq(Message)]] /\ Sent(r, q, m)
  <2> DEFINE a == Append(network[r][q], m)
  <2>1. a \in Seq(Message) /\ network' = [network EXCEPT ![r][q] = a]
      BY <1>1, <1>3, <1>5
  <2>2. network \in [Ranks -> [Ranks -> Seq(Message)]]
      BY <1>a DEF Values
  <2> HIDE DEF a, q
  <2>3. /\ network' \in [Ranks -> [Ranks -> Seq(Message)]]
        /\ network'[r][q] = a
        /\ \A x, y \in Ranks : x # r \/ y # q => network'[x][y] = network[x][y]
      BY <1>5, <2>1, <2>2, NetworkUpdate
  <2> QED
      BY <2>3 DEF a, Sent
<1>7. Values'
  <2>1. m_events' \in [Ranks -> SUBSET Events]
      BY <1>a, <1>1, <1>4 DEF Values
  <2>2. m_uid' \in [Ranks -> Nat] /\ pc' \in [Ranks -> Locations]
      BY <1>a, <1>1 DEF Values, Locations
  <2> QED
      BY <1>a, <1>1, <1>6, <2>1, <2>2 DEF Values
<1>8. Others(r)
    BY <1>a, <1>1 DEF Values, Others
<1>9. NullSent(r)
  <2>1. m_events'[r] = m_events[r] \cup {n} /\ pc'[r] = "receive"
      BY <1>a, <1>1 DEF Values
  <2> QED
      BY <1>1, <1>3, <1>4, <1>6, <2>1, Zenon DEF NullSent, g
<1> QED
    BY <1>7, <1>8, <1>9

\* Receive, and what the two callers do to the safe time.
LEMMA ReceiveMove ==
    ASSUME TypeOK, NEW r \in Ranks, NEW q \in Neighbours(r), Receive(r, q),
           pc[r] \in {"receive", "loop"}, pc' = pc,
           m_safeTime' = m_safeTime \/ m_safeTime' = [m_safeTime EXCEPT ![r] = SafeTime(r, m_guaranteeTime'[r])]
    PROVE  Values' /\ Others(r) /\ Received(r, q)
<1> DEFINE m == Head(network[q][r])
           t == Tail(network[q][r])
           e == Event(m.rxTime, m_uid[r], "user", r)
<1>a. Values
    BY TypeParts
<1>b. q \in Ranks /\ q # r
    BY Bundles
<1>1. /\ network[q][r] # <<>>
      /\ network' = [network EXCEPT ![q][r] = t]
      /\ \/ /\ m.rxTime > 0
            /\ m_events' = [m_events EXCEPT ![r] = @ \cup {e}]
            /\ m_uid' = [m_uid EXCEPT ![r] = @ + 1]
         \/ UNCHANGED <<m_events, m_uid>>
      /\ m_guaranteeTime' = [m_guaranteeTime EXCEPT ![r][q] = m.guarantee]
      /\ UNCHANGED <<m_currentTs, m_stop, current, calls>>
    BY DEF Receive
<1>2. network[q][r] \in Seq(Message)
    BY <1>a, <1>b DEF Values
<1>3. m \in Message /\ t \in Seq(Message)
    BY <1>1, <1>2
<1> HIDE DEF t
<1>4. /\ network' \in [Ranks -> [Ranks -> Seq(Message)]]
      /\ network'[q][r] = t
      /\ \A x, y \in Ranks : x # q \/ y # r => network'[x][y] = network[x][y]
  <2>1. network \in [Ranks -> [Ranks -> Seq(Message)]]
      BY <1>a DEF Values
  <2> QED
      BY <1>1, <1>3, <1>b, <2>1, NetworkUpdate
<1> HIDE DEF m
<1>5. m.rxTime \in Nat /\ m.guarantee \in Nat
    BY <1>3 DEF Message
<1>6. e \in Events /\ e.fn = "user" /\ e.ts = m.rxTime
    BY <1>a, <1>5 DEF Values, Event, Events, EventFunctions
<1> HIDE DEF e
<1>7. /\ m_guaranteeTime' \in [Ranks -> [Ranks -> Nat]]
      /\ m_guaranteeTime'[r][q] = m.guarantee
      /\ \A p \in Ranks \ {q} : m_guaranteeTime'[r][p] = m_guaranteeTime[r][p]
      /\ \A p \in Ranks \ {r} : m_guaranteeTime'[p] = m_guaranteeTime[p]
  <2>1. m_guaranteeTime \in [Ranks -> [Ranks -> Nat]]
      BY <1>a DEF Values
  <2> QED
      BY <1>1, <1>5, <1>b, <2>1
<1>8. m_safeTime' \in [Ranks -> Nat]
  <2>1. SafeTime(r, m_guaranteeTime'[r]) \in Nat
    <3>1. m_guaranteeTime'[r] \in [Ranks -> Nat]
        BY <1>7
    <3> QED
        BY <3>1, SafeTimeBounds
  <2> QED
      BY <1>a, <2>1 DEF Values
<1>9. Values'
  <2>1. m_events' \in [Ranks -> SUBSET Events]
    <3>1. m_events \in [Ranks -> SUBSET Events]
        BY <1>a DEF Values
    <3>2. CASE m_events' = [m_events EXCEPT ![r] = @ \cup {e}]
        BY <1>6, <3>1, <3>2
    <3> QED
        BY <1>1, <3>1, <3>2
  <2>2. m_uid' \in [Ranks -> Nat]
    <3>1. m_uid \in [Ranks -> Nat]
        BY <1>a DEF Values
    <3>2. m_uid' = [m_uid EXCEPT ![r] = @ + 1] \/ m_uid' = m_uid
        BY <1>1
    <3> QED
        BY <3>1, <3>2
  <2> QED
      BY <1>a, <1>1, <1>4, <1>7, <1>8, <2>1, <2>2 DEF Values
<1>10. Others(r)
    BY <1>a, <1>1, <1>7 DEF Values, Others
<1>11. Received(r, q)
  <2>1. \/ m_events'[r] = m_events[r]
        \/ e.ts > 0 /\ m_events'[r] = m_events[r] \cup {e}
      BY <1>a, <1>1, <1>6 DEF Values
  <2>2. m_safeTime'[r] \in {m_safeTime[r], SafeTime(r, m_guaranteeTime'[r])}
      BY <1>a DEF Values
  <2> QED
      BY <1>1, <1>4, <1>6, <1>7, <2>1, <2>2 DEF Received, m, t
<1> QED
    BY <1>9, <1>10, <1>11

LEMMA RefreshMove ==
    ASSUME TypeOK, NEW r \in Ranks, pc[r] \in {"receive", "loop"},
           pc' = [pc EXCEPT ![r] = "loop"],
           m_safeTime' = [m_safeTime EXCEPT ![r] = SafeTime(r, m_guaranteeTime[r])],
           UNCHANGED <<m_events, m_uid, m_currentTs, m_stop, m_guaranteeTime, current,
                       network, calls>>
    PROVE  Values' /\ Others(r) /\ Refreshed(r)
<1>a. Values
    BY TypeParts
<1>1. SafeTime(r, m_guaranteeTime[r]) \in Nat
  <2>1. m_guaranteeTime[r] \in [Ranks -> Nat]
      BY <1>a DEF Values
  <2> QED
      BY <2>1, SafeTimeBounds
<1>2. Values'
    BY <1>a, <1>1 DEF Values, Locations
<1> QED
    BY <1>a, <1>2 DEF Values, Others, Refreshed

-----------------------------------------------------------------------------
(* The null message events.                                                *)

\* A null message event is of a bundle, and no bundle has two; in Run each has
\* one, but for the one whose handler is running.
NullInv(r) ==
    /\ \A e \in m_events[r] : e.fn = "null" => pc[r] # "main" /\ e.to \in Neighbours(r)
    /\ pc[r] = "null" => current[r].to \in Neighbours(r)
    /\ \A q \in Neighbours(r) : \A e, f \in m_events[r] : IsNull(e, q) /\ IsNull(f, q) => e = f
    /\ \A q \in Neighbours(r) : pc[r] \notin {"main", "done"} =>
         ((\E e \in m_events[r] : IsNull(e, q)) <=> ~(pc[r] = "null" /\ current[r].to = q))


Move(r) == \/ Scheduled(r) \/ Started(r) \/ Moved(r) \/ Processed(r) \/ NullSent(r) \/ Refreshed(r)
           \/ \E q \in Neighbours(r) : Transmitted(r, q) \/ Received(r, q)

\* Every step is a move of one rank.
LEMMA StepMoves ==
    ASSUME TypeOK, \A r \in Ranks : NullInv(r), [Next]_vars
    PROVE  /\ TypeOK'
           /\ UNCHANGED vars \/ \E r \in Ranks : Others(r) /\ Move(r)
<1>a. Values /\ m_stop \in [Ranks -> BOOLEAN]
    BY TypeParts
<1>1. ASSUME UNCHANGED vars
      PROVE  Values'
    BY <1>1, <1>a DEF vars, Values
<1>2. ASSUME NEW r \in Ranks, UserCode(r)
      PROVE  Values' /\ Others(r) /\ Move(r)
    BY <1>2, ScheduleMove, TransmitMove DEF UserCode, Move
<1>3. ASSUME NEW r \in Ranks, Run(r) \/ ProcessOneEvent(r) \/ EventReturns(r) \/ RunReturns(r)
      PROVE  Values' /\ Others(r) /\ Move(r)
    BY <1>3, RunMove, ProcessMove, ReturnMove DEF Move
<1>4. ASSUME NEW r \in Ranks, NullMessageEventHandler(r)
      PROVE  Values' /\ Others(r) /\ Move(r)
  <2>1. current[r].to \in Neighbours(r)
      BY <1>4 DEF NullMessageEventHandler, NullInv
  <2> QED
      BY <1>4, <2>1, NullMove DEF Move
<1>5. ASSUME NEW r \in Ranks, ReceiveMessage(r)
      PROVE  Values' /\ Others(r) /\ Move(r)
  <2>1. PICK q \in Neighbours(r) : Receive(r, q)
      BY <1>5 DEF ReceiveMessage
  <2>2. pc[r] = "receive" /\ pc' = pc /\ m_safeTime' = m_safeTime
      BY <1>5 DEF ReceiveMessage
  <2> QED
      BY <2>1, <2>2, ReceiveMove DEF Move
<1>6. ASSUME NEW r \in Ranks, HandleArrivingMessagesNonBlocking(r)
      PROVE  Values' /\ Others(r) /\ Move(r)
    BY <1>6, RefreshMove DEF HandleArrivingMessagesNonBlocking, Move
<1>7. ASSUME NEW r \in Ranks, HandleArrivingMessagesBlocking(r)
      PROVE  Values' /\ Others(r) /\ Move(r)
  <2>0. pc[r] = "loop" /\ pc' = pc /\ pc' = [pc EXCEPT ![r] = "loop"]
        /\ m_safeTime' = [m_safeTime EXCEPT ![r] = SafeTime(r, m_guaranteeTime'[r])]
      BY <1>a, <1>7 DEF HandleArrivingMessagesBlocking, Values
  <2>1. ASSUME NEW q \in Neighbours(r), Receive(r, q)
        PROVE  Values' /\ Others(r) /\ Move(r)
      BY <2>0, <2>1, ReceiveMove DEF Move
  <2>2. CASE UNCHANGED <<m_events, m_uid, m_currentTs, m_stop, m_guaranteeTime, current,
                         network, calls>>
      BY <2>0, <2>2, RefreshMove DEF Move
  <2> QED
      BY <1>7, <2>1, <2>2 DEF HandleArrivingMessagesBlocking
<1>8. m_stop' \in [Ranks -> BOOLEAN]
    BY <1>a, StopTypes
<1>9. /\ Values'
      /\ UNCHANGED vars \/ \E r \in Ranks : Others(r) /\ Move(r)
    BY <1>1, <1>2, <1>3, <1>4, <1>5, <1>6, <1>7 DEF Next, Loop, Terminated
<1>10. (TypeOK <=> Values /\ m_stop \in [Ranks -> BOOLEAN])'
    BY TypeParts, PTL
<1> QED
    BY <1>8, <1>9, <1>10

LEMMA NullInit == ASSUME Init, NEW r \in Ranks PROVE NullInv(r)
<1>1. pc[r] = "main" /\ \A e \in m_events[r] : e.fn = "stop"
    BY DEF Init, Event
<1> QED
    BY <1>1 DEF NullInv, IsNull

LEMMA NullStep ==
    ASSUME TypeOK, NEW r \in Ranks, NullInv(r), Others(r), Move(r)
    PROVE  NullInv(r)'
<1>a. m_events[r] \in SUBSET Events /\ pc[r] \in Locations
    BY DEF TypeOK, Events, Locations
<1> USE DEF NullInv, IsNull
<1>1. CASE Scheduled(r)
    BY <1>1 DEF Scheduled
<1>2. CASE Started(r)
    BY <1>2 DEF Started
<1>3. CASE Moved(r)
    BY <1>3 DEF Moved
<1>4. CASE Processed(r)
    BY <1>4 DEF Processed, Invoke
<1>5. CASE NullSent(r)
    BY <1>5 DEF NullSent
<1>6. CASE Refreshed(r)
    BY <1>6 DEF Refreshed
<1>7. ASSUME NEW q \in Neighbours(r), Received(r, q)
      PROVE  NullInv(r)'
    BY <1>7 DEF Received
<1>8. ASSUME NEW q \in Neighbours(r), Transmitted(r, q)
      PROVE  NullInv(r)'
  <2>1. PICK e \in Events, n \in Events :
           /\ e.fn = "user" /\ n.fn = "null" /\ n.to = q
           /\ m_events'[r] = CancelNullEvents(q, m_events[r] \cup {e}) \cup {n}
      BY <1>8 DEF Transmitted
  <2> DEFINE ev == m_events[r] \cup {e}
             C == CancelNullEvents(q, ev)
  <2>2. ev \in SUBSET Events
      BY <1>a
  <2>3. /\ \A x \in C : ~(x.fn = "null" /\ x.to = q) /\ (x \in ev \/ x.fn = "cancelled")
        /\ \A x \in ev : (x.fn = "null" /\ x.to = q) \/ x \in C
    <3> HIDE DEF ev
    <3> QED
        BY <2>2, CancelTyped DEF IsNull
  <2> HIDE DEF C
  <2>4. \A x \in m_events'[r] : x.fn = "null" => x = n \/ (x \in m_events[r] /\ x.to # q)
      BY <2>1, <2>3 DEF C
  <2>5. \A x \in m_events[r] : x.fn = "null" /\ x.to # q => x \in m_events'[r]
      BY <2>1, <2>3 DEF C
  <2>6. n \in m_events'[r]
      BY <2>1
  <2>7. pc[r] = "event" /\ pc'[r] \in {"event", "receive"}
      BY <1>8 DEF Transmitted
  <2> HIDE DEF ev
  <2> QED
      BY <2>1, <2>4, <2>5, <2>6, <2>7
<1> QED
    BY <1>1, <1>2, <1>3, <1>4, <1>5, <1>6, <1>7, <1>8 DEF Move
Nulls == \A r \in Ranks : NullInv(r)

LEMMA NullsStep ==
    ASSUME TypeOK, Nulls, [Next]_vars
    PROVE  TypeOK' /\ Nulls'
<1>1. TypeOK'
    BY StepMoves DEF Nulls
<1>2. ASSUME NEW p \in Ranks
      PROVE  NullInv(p)'
  <2>1. CASE UNCHANGED vars
      BY <2>1 DEF vars, Nulls, NullInv
  <2>2. ASSUME NEW r \in Ranks, Others(r), Move(r)
        PROVE  NullInv(p)'
    <3>1. CASE p = r
        BY <2>2, <3>1, NullStep DEF Nulls
    <3>2. CASE p # r
        BY <2>2, <3>2 DEF Others, Nulls, NullInv
    <3> QED
        BY <3>1, <3>2
  <2> QED
      BY <2>1, <2>2, StepMoves DEF Nulls
<1> QED
    BY <1>1, <1>2 DEF Nulls

LEMMA NullsInit == Init => Nulls
    BY NullInit DEF Nulls

\* Locations and functions are those of the code and times are natural numbers
\* (TypeOK), whatever guarantees and safe times are computed from each other.
THEOREM TypeCorrect == Spec => []TypeOK
<1> QED
    BY TypeInit, NullsInit, NullsStep, PTL DEF Spec

\* The stop event is pending until it is run, and Run does nothing after that.
StopPending ==
    \A r \in Ranks :
        /\ pc[r] \in {"main", "event", "null"} => m_stop[r] = FALSE
        /\ m_stop[r] = FALSE => \E e \in m_events[r] : e.fn = "stop"

LEMMA StopStep ==
    ASSUME TypeOK, Nulls, StopPending, [Next]_vars
    PROVE  StopPending'
<1> SUFFICES ASSUME NEW p \in Ranks
             PROVE  /\ pc'[p] \in {"main", "event", "null"} => m_stop'[p] = FALSE
                    /\ m_stop'[p] = FALSE => \E e \in m_events'[p] : e.fn = "stop"
    BY DEF StopPending
<1>a. /\ pc[p] \in {"main", "event", "null"} => m_stop[p] = FALSE
      /\ m_stop[p] = FALSE => \E e \in m_events[p] : e.fn = "stop"
    BY DEF StopPending
<1>b. m_events[p] \in SUBSET Events
    BY DEF TypeOK, Events
<1>1. CASE UNCHANGED vars
    BY <1>1, <1>a DEF vars
<1>2. ASSUME NEW r \in Ranks, r # p, Others(r)
      PROVE  /\ pc'[p] \in {"main", "event", "null"} => m_stop'[p] = FALSE
             /\ m_stop'[p] = FALSE => \E e \in m_events'[p] : e.fn = "stop"
    BY <1>2, <1>a DEF Others
<1>3. CASE Scheduled(p) \/ Moved(p) \/ NullSent(p) \/ Refreshed(p)
    BY <1>3, <1>a DEF Scheduled, Moved, NullSent, Refreshed
<1>4. CASE Started(p)
  <2>1. pc[p] = "main" /\ m_events[p] \subseteq m_events'[p] /\ m_stop'[p] = FALSE
      BY <1>4 DEF Started
  <2>2. PICK e \in m_events[p] : e.fn = "stop"
      BY <1>a, <2>1
  <2> QED
      BY <2>1, <2>2
<1>5. CASE Processed(p)
  <2>1. PICK next \in m_events[p] :
           /\ m_events'[p] = m_events[p] \ {next} /\ pc'[p] = Invoke(next.fn)
           /\ m_stop'[p] = (next.fn = "stop")
      BY <1>5 DEF Processed
  <2>2. m_stop[p] = FALSE
      BY <1>5 DEF Processed
  <2>3. CASE next.fn = "stop"
    <3>1. m_stop'[p] = TRUE /\ pc'[p] = "receive"
        BY <2>1, <2>3 DEF Invoke
    <3> QED
        BY <3>1
  <2>4. CASE next.fn # "stop"
    <3>1. m_stop'[p] = FALSE
        BY <2>1, <2>4
    <3> QED
        BY <1>a, <2>1, <2>2, <2>4, <3>1
  <2> QED
      BY <2>3, <2>4
<1>6. ASSUME NEW q \in Neighbours(p), Received(p, q)
      PROVE  /\ pc'[p] \in {"main", "event", "null"} => m_stop'[p] = FALSE
             /\ m_stop'[p] = FALSE => \E e \in m_events'[p] : e.fn = "stop"
    BY <1>6, <1>a DEF Received
<1>7. ASSUME NEW q \in Neighbours(p), Transmitted(p, q)
      PROVE  /\ pc'[p] \in {"main", "event", "null"} => m_stop'[p] = FALSE
             /\ m_stop'[p] = FALSE => \E e \in m_events'[p] : e.fn = "stop"
  <2>1. PICK e \in Events, n \in Events :
           m_events'[p] = CancelNullEvents(q, m_events[p] \cup {e}) \cup {n}
      BY <1>7 DEF Transmitted
  <2>2. m_stop'[p] = m_stop[p] /\ m_stop[p] = FALSE
      BY <1>7, <1>a DEF Transmitted
  <2>3. PICK x \in m_events[p] : x.fn = "stop"
      BY <1>a, <2>2
  <2>4. x \in CancelNullEvents(q, m_events[p] \cup {e})
    <3> DEFINE ev == m_events[p] \cup {e}
    <3>1. ev \in SUBSET Events /\ x \in ev /\ ~IsNull(x, q)
        BY <1>b, <2>3 DEF IsNull
    <3> HIDE DEF ev
    <3>2. x \in CancelNullEvents(q, ev)
        BY <3>1, CancelTyped
    <3> QED
        BY <3>2 DEF ev
  <2>5. x \in m_events'[p]
      BY <2>1, <2>4
  <2> QED
      BY <2>2, <2>3, <2>5
<1>8. CASE Others(p) /\ Move(p)
    BY <1>8, <1>3, <1>4, <1>5, <1>6, <1>7 DEF Move
<1> QED
    BY <1>1, <1>2, <1>8, StepMoves DEF Nulls

\* Every bundle keeps exactly one null message event (OneNullEvent), if the
\* simulation is to be stopped at some time: without the stop event the handler
\* may find no event to compute its promise from.
THEOREM NullEventKept == ASSUME StopTimes # {} PROVE Spec => []OneNullEvent
<1>1. Init => StopPending
  <2> SUFFICES ASSUME Init, NEW r \in Ranks
               PROVE  m_stop[r] = FALSE /\ \E e \in m_events[r] : e.fn = "stop"
      BY DEF StopPending
  <2>1. PICK t \in StopTimes : TRUE
      OBVIOUS
  <2>2. Event(t, 4, "stop", r) \in m_events[r] /\ m_stop[r] = FALSE
      BY <2>1 DEF Init
  <2>3. Event(t, 4, "stop", r).fn = "stop"
      BY DEF Event
  <2> QED
      BY <2>2, <2>3
<1>2. TypeOK /\ Nulls /\ StopPending => OneNullEvent
  <2> SUFFICES ASSUME TypeOK, Nulls, StopPending PROVE OneNullEvent
      OBVIOUS
  <2>1. \A r \in Ranks : pc[r] = "null" => m_events[r] # {}
      BY DEF StopPending
  <2>2. ASSUME NEW r \in Ranks, NEW q \in Neighbours(r), pc[r] \notin {"main", "done"}
        PROVE  Cardinality({e \in m_events[r] : e.fn = "null" /\ e.to = q})
                 = IF pc[r] = "null" /\ current[r].to = q THEN 0 ELSE 1
    <3> DEFINE S == {e \in m_events[r] : e.fn = "null" /\ e.to = q}
    <3>1. CASE pc[r] = "null" /\ current[r].to = q
      <4>1. S = {}
          BY <2>2, <3>1 DEF Nulls, NullInv, IsNull
      <4> QED
          BY <3>1, <4>1, FS_EmptySet
    <3>2. CASE ~(pc[r] = "null" /\ current[r].to = q)
      <4>1. PICK e \in m_events[r] : IsNull(e, q)
          BY <2>2, <3>2 DEF Nulls, NullInv
      <4>2. S = {e}
          BY <4>1 DEF Nulls, NullInv, IsNull
      <4>3. Cardinality(S) = 1
          BY <4>2, FS_Singleton
      <4> QED
          BY <3>2, <4>3
    <3> QED
        BY <3>1, <3>2
  <2> QED
      BY <2>1, <2>2 DEF OneNullEvent
<1> QED
    BY <1>1, <1>2, TypeInit, NullsInit, NullsStep, StopStep, PTL DEF Spec

-----------------------------------------------------------------------------
(* Guarantees.  Time t is a floor of rank s for its neighbour q if nothing *)
(* that s still sends to q can be based on an earlier time: in a function  *)
(* that can send to q or schedule events t is behind the clock, and        *)
(* otherwise behind the safe time and all events, but for the one that     *)
(* only sends the promise itself.  A floor stays a floor, and every        *)
(* guarantee given to q is a floor plus the delay of the bundle.           *)

Below(s, q, t) == /\ t <= m_safeTime[s]
                  /\ \A e \in m_events[s] : IsNull(e, q) \/ t <= e.ts

Exposed(s, q) == pc[s] = "event" \/ (pc[s] = "null" /\ current[s].to # q)

Floor(s, q, t) == IF Exposed(s, q) THEN t <= m_currentTs[s] ELSE Below(s, q, t)

\* A rank is not ahead of its events, of its safe time, and of its guarantees.
RankInv(r) ==
    /\ m_currentTs[r] <= m_safeTime[r] /\ m_safeTime[r] <= Infinity
    /\ \A q \in Neighbours(r) : m_safeTime[r] <= m_guaranteeTime[r][q]
    /\ \A e \in m_events[r] : m_currentTs[r] <= e.ts
    /\ pc[r] = "main" => m_safeTime[r] = 0

\* What arrives next from any neighbour is not before the guarantee it gave.
Arrivals(r) ==
    \A q \in Neighbours(r) : network[q][r] # <<>> =>
        /\ m_guaranteeTime[r][q] <= Head(network[q][r]).guarantee
        /\ Head(network[q][r]).rxTime > 0 =>
              m_guaranteeTime[r][q] <= Head(network[q][r]).rxTime

LEMMA Typed ==
    ASSUME TypeOK, NEW r \in Ranks
    PROVE  /\ m_currentTs[r] \in Nat /\ m_safeTime[r] \in Nat /\ m_events[r] \in SUBSET Events
           /\ \A e \in m_events[r] : e.ts \in Nat
           /\ m_guaranteeTime[r] \in [Ranks -> Nat]
           /\ \A q \in Ranks : network[r][q] \in Seq(Message) /\ m_guaranteeTime[r][q] \in Nat
    BY DEF TypeOK, Events

\* What is received is not before the safe time, which does not fall.
LEMMA ReceiveStep ==
    ASSUME TypeOK, TypeOK', NEW r \in Ranks, NEW q \in Neighbours(r),
           RankInv(r), Arrivals(r), Received(r, q)
    PROVE  /\ m_safeTime[r] <= m_safeTime'[r] /\ m_safeTime'[r] <= Infinity
           /\ \A p \in Neighbours(r) : m_safeTime'[r] <= m_guaranteeTime'[r][p]
           /\ \A e \in m_events'[r] : e \in m_events[r] \/ m_safeTime[r] <= e.ts
<1> DEFINE m == Head(network[q][r])
<1>a. /\ m_safeTime[r] \in Nat /\ m_safeTime'[r] \in Nat /\ Infinity \in Nat /\ q \in Ranks
      /\ \A p \in Ranks : m_guaranteeTime[r][p] \in Nat /\ m_guaranteeTime'[r][p] \in Nat
      /\ m_guaranteeTime'[r] \in [Ranks -> Nat]
      /\ \A p \in Neighbours(r) : p \in Ranks
  <2>1. m_safeTime'[r] \in Nat /\ m_guaranteeTime'[r] \in [Ranks -> Nat]
      BY DEF TypeOK
  <2>2. \A p \in Neighbours(r) : p \in Ranks
      BY DEF Neighbours
  <2>3. /\ m_safeTime[r] \in Nat /\ m_guaranteeTime[r] \in [Ranks -> Nat]
        /\ \A p \in Ranks : m_guaranteeTime[r][p] \in Nat
      BY Typed
  <2> QED
      BY <2>1, <2>2, <2>3, TimesAssumption
<1>b. m \in Message
  <2>1. network[q][r] \in Seq(Message) /\ network[q][r] # <<>>
      BY <1>a, Typed DEF Received
  <2> QED
      BY <2>1
<1>c. m.rxTime \in Nat /\ m.guarantee \in Nat
    BY <1>b DEF Message
<1>d. /\ m_guaranteeTime[r][q] <= m.guarantee
      /\ m.rxTime > 0 => m_guaranteeTime[r][q] <= m.rxTime
    BY DEF Arrivals, Received
<1>e. /\ m_guaranteeTime'[r][q] = m.guarantee
      /\ \A p \in Ranks \ {q} : m_guaranteeTime'[r][p] = m_guaranteeTime[r][p]
      /\ \/ m_events'[r] = m_events[r]
         \/ \E e \in Events : /\ e.ts = m.rxTime /\ e.ts > 0
                              /\ m_events'[r] = m_events[r] \cup {e}
      /\ m_safeTime'[r] \in {m_safeTime[r], SafeTime(r, m_guaranteeTime'[r])}
    BY DEF Received
<1> HIDE DEF m
<1>1. \A p \in Neighbours(r) : m_safeTime[r] <= m_guaranteeTime'[r][p]
  <2> SUFFICES ASSUME NEW p \in Neighbours(r) PROVE m_safeTime[r] <= m_guaranteeTime'[r][p]
      OBVIOUS
  <2>1. p \in Ranks /\ m_safeTime[r] <= m_guaranteeTime[r][p]
      BY <1>a DEF RankInv
  <2>2. m_safeTime[r] <= m_guaranteeTime[r][q]
      BY DEF RankInv
  <2> QED
      BY <1>a, <1>c, <1>d, <1>e, <2>1, <2>2
<1>2. m_safeTime[r] <= Infinity
    BY DEF RankInv
<1> DEFINE g == m_guaranteeTime'[r]
           safe == SafeTime(r, g)
<1>3. /\ safe \in Nat /\ safe <= Infinity
      /\ \A p \in Neighbours(r) : safe <= g[p]
      /\ m_safeTime[r] <= safe
  <2>1. g \in [Ranks -> Nat] /\ \A p \in Neighbours(r) : m_safeTime[r] <= g[p]
      BY <1>a, <1>1
  <2> HIDE DEF g
  <2> QED
      BY <1>a, <1>2, <2>1, SafeTimeBounds
<1>4. m_safeTime'[r] \in {m_safeTime[r], safe}
    BY <1>e
<1>5. \A e \in m_events'[r] : e \in m_events[r] \/ m_safeTime[r] <= e.ts
  <2>1. m_safeTime[r] <= m_guaranteeTime[r][q]
      BY DEF RankInv
  <2> QED
      BY <1>a, <1>c, <1>d, <1>e, <2>1
<1> HIDE DEF safe
<1>6. \A p \in Neighbours(r) : m_safeTime[r] <= g[p] /\ safe <= g[p]
    BY <1>1, <1>3
<1>7. \A p \in Neighbours(r) : m_safeTime'[r] <= g[p]
    BY <1>4, <1>6
<1> QED
    BY <1>a, <1>2, <1>3, <1>4, <1>5, <1>7

LEMMA RefreshStep ==
    ASSUME TypeOK, NEW r \in Ranks, RankInv(r), Refreshed(r)
    PROVE  /\ m_safeTime[r] <= m_safeTime'[r] /\ m_safeTime'[r] <= Infinity
           /\ \A p \in Neighbours(r) : m_safeTime'[r] <= m_guaranteeTime[r][p]
<1>1. m_safeTime[r] \in Nat /\ m_guaranteeTime[r] \in [Ranks -> Nat]
    BY Typed
<1> QED
    BY <1>1, SafeTimeBounds DEF RankInv, Refreshed

LEMMA RankStep ==
    ASSUME TypeOK, TypeOK', NEW r \in Ranks, RankInv(r), Arrivals(r), Move(r)
    PROVE  RankInv(r)' /\ m_safeTime[r] <= m_safeTime'[r]
<1>a. /\ m_safeTime[r] \in Nat /\ m_currentTs[r] \in Nat /\ m_events[r] \in SUBSET Events
      /\ \A e \in m_events[r] : e.ts \in Nat
    BY Typed
<1>b. \A e \in Events : e.ts \in Nat
    BY DEF Events
<1>1. CASE Scheduled(r)
    BY <1>1, <1>a DEF Scheduled, RankInv
<1>2. CASE Started(r)
    BY <1>2, <1>a DEF Started, RankInv
<1>3. CASE Moved(r)
    BY <1>3, <1>a DEF Moved, RankInv
<1>4. CASE Processed(r)
  <2>1. /\ pc'[r] # "main" /\ m_currentTs'[r] <= m_safeTime[r]
        /\ \A e \in m_events'[r] : m_currentTs'[r] <= e.ts
      BY <1>4 DEF Processed, Invoke
  <2>2. UNCHANGED <<m_safeTime, m_guaranteeTime>>
      BY <1>4 DEF Processed
  <2> QED
      BY <1>a, <2>1, <2>2 DEF RankInv
<1>5. CASE NullSent(r)
    BY <1>5, <1>a DEF NullSent, RankInv
<1>6. CASE Refreshed(r)
  <2>1. pc'[r] # "main" /\ UNCHANGED <<m_events, m_currentTs, m_guaranteeTime>>
      BY <1>6 DEF Refreshed
  <2>2. /\ m_safeTime[r] <= m_safeTime'[r] /\ m_safeTime'[r] <= Infinity
        /\ \A p \in Neighbours(r) : m_safeTime'[r] <= m_guaranteeTime[r][p]
      BY <1>6, RefreshStep
  <2>3. m_safeTime'[r] \in Nat
      BY DEF TypeOK
  <2>4. m_currentTs'[r] <= m_safeTime'[r]
      BY <1>a, <2>1, <2>2, <2>3 DEF RankInv
  <2> QED
      BY <2>1, <2>2, <2>4 DEF RankInv
<1>7. ASSUME NEW q \in Neighbours(r), Transmitted(r, q)
      PROVE  RankInv(r)' /\ m_safeTime[r] <= m_safeTime'[r]
  <2>1. PICK e \in Events, n \in Events :
           /\ m_currentTs[r] <= e.ts /\ m_currentTs[r] <= n.ts
           /\ m_events'[r] = CancelNullEvents(q, m_events[r] \cup {e}) \cup {n}
      BY <1>7 DEF Transmitted
  <2>2. pc'[r] # "main" /\ UNCHANGED <<m_currentTs, m_safeTime, m_guaranteeTime>>
      BY <1>7 DEF Transmitted
  <2> DEFINE ev == m_events[r] \cup {e}
  <2>3. ev \in SUBSET Events /\ \A x \in ev : m_currentTs[r] <= x.ts
      BY <1>a, <2>1 DEF RankInv
  <2>4. \A x \in CancelNullEvents(q, ev) : m_currentTs[r] <= x.ts
    <3> HIDE DEF ev
    <3> QED
        BY <2>3, CancelTyped
  <2>5. \A x \in m_events'[r] : m_currentTs[r] <= x.ts
      BY <2>1, <2>4
  <2> QED
      BY <1>a, <2>2, <2>5 DEF RankInv
<1>8. ASSUME NEW q \in Neighbours(r), Received(r, q)
      PROVE  RankInv(r)' /\ m_safeTime[r] <= m_safeTime'[r]
  <2>1. pc'[r] # "main" /\ m_currentTs'[r] = m_currentTs[r]
      BY <1>8 DEF Received
  <2>2. /\ m_safeTime[r] <= m_safeTime'[r] /\ m_safeTime'[r] <= Infinity
        /\ \A p \in Neighbours(r) : m_safeTime'[r] <= m_guaranteeTime'[r][p]
        /\ \A e \in m_events'[r] : e \in m_events[r] \/ m_safeTime[r] <= e.ts
      BY <1>8, ReceiveStep
  <2>3. m_safeTime'[r] \in Nat /\ \A e \in m_events'[r] : e.ts \in Nat
      BY DEF TypeOK
  <2>4. m_currentTs[r] <= m_safeTime'[r]
      BY <1>a, <2>2, <2>3 DEF RankInv
  <2>5. \A e \in m_events'[r] : m_currentTs[r] <= e.ts
      BY <1>a, <2>2, <2>3 DEF RankInv
  <2> QED
      BY <2>1, <2>2, <2>4, <2>5 DEF RankInv
<1> QED
    BY <1>1, <1>2, <1>3, <1>4, <1>5, <1>6, <1>7, <1>8 DEF Move

LEMMA FloorBelow ==
    ASSUME TypeOK, NEW s \in Ranks, RankInv(s), NEW q, NEW t \in Int, Floor(s, q, t)
    PROVE  Below(s, q, t)
<1>1. CASE Exposed(s, q)
  <2>1. t <= m_currentTs[s]
      BY <1>1 DEF Floor
  <2>2. /\ m_currentTs[s] \in Nat /\ m_safeTime[s] \in Nat /\ m_currentTs[s] <= m_safeTime[s]
        /\ \A e \in m_events[s] : e.ts \in Nat /\ m_currentTs[s] <= e.ts
      BY Typed DEF RankInv
  <2> QED
      BY <2>1, <2>2 DEF Below
<1>2. CASE ~Exposed(s, q)
    BY <1>2 DEF Floor
<1> QED
    BY <1>1, <1>2

\* A floor stays a floor, if an event does not go on after it sent a packet.
LEMMA FloorStep ==
    ASSUME MoreAfterSend = FALSE, TypeOK, TypeOK', NEW s \in Ranks, NEW q \in Neighbours(s),
           RankInv(s), Arrivals(s), Move(s), NEW t \in Int, Floor(s, q, t)
    PROVE  Floor(s, q, t)'
<1>a. /\ m_safeTime[s] \in Nat /\ m_currentTs[s] \in Nat /\ m_events[s] \in SUBSET Events
      /\ \A e \in m_events[s] : e.ts \in Nat
    BY Typed
<1>b. \A e \in Events : e.ts \in Nat
    BY DEF Events
<1>c. t <= m_safeTime[s] /\ \A e \in m_events[s] : IsNull(e, q) \/ t <= e.ts
    BY FloorBelow DEF Below
<1>d. m_currentTs[s] <= m_safeTime[s] /\ \A e \in m_events[s] : m_currentTs[s] <= e.ts
    BY DEF RankInv
<1>e. m_safeTime'[s] \in Nat /\ m_safeTime[s] <= m_safeTime'[s]
    BY RankStep DEF TypeOK
<1>f. ASSUME \A e \in m_events'[s] : IsNull(e, q) \/ t <= e.ts,
             ~(pc'[s] = "event" \/ (pc'[s] = "null" /\ current'[s].to # q))
      PROVE  Floor(s, q, t)'
  <2>1. t <= m_safeTime'[s]
      BY <1>a, <1>c, <1>e
  <2> QED
      BY <1>f, <2>1 DEF Floor, Below, Exposed
<1>1. CASE Scheduled(s)
  <2>1. PICK e \in Events : m_currentTs[s] <= e.ts /\ m_events'[s] = m_events[s] \cup {e}
      BY <1>1 DEF Scheduled
  <2>2. CASE pc[s] = "event"
      BY <1>1, <2>2 DEF Scheduled, Floor, Exposed
  <2>3. CASE pc[s] = "main"
    <3>1. t <= e.ts
        BY <1>a, <1>b, <1>c, <2>1, <2>3 DEF RankInv
    <3> QED
        BY <1>1, <1>c, <1>f, <2>1, <2>3, <3>1 DEF Scheduled
  <2> QED
      BY <1>1, <2>2, <2>3 DEF Scheduled
<1>2. CASE Started(s)
  <2>1. PICK N \in SUBSET Events : /\ m_events'[s] = m_events[s] \cup N
                                   /\ \A n \in N : m_currentTs[s] <= n.ts
      BY <1>2 DEF Started
  <2>2. pc[s] = "main" /\ pc'[s] = "loop"
      BY <1>2 DEF Started
  <2>3. \A n \in N : t <= n.ts
      BY <1>a, <1>b, <1>c, <2>1, <2>2 DEF RankInv
  <2> QED
      BY <1>c, <1>f, <2>1, <2>2, <2>3
<1>3. CASE Moved(s)
    BY <1>3, <1>c, <1>f DEF Moved
<1>4. CASE Processed(s)
  <2>1. PICK next \in m_events[s] :
           /\ m_events'[s] = m_events[s] \ {next} /\ m_currentTs'[s] = next.ts
           /\ current'[s] = next /\ pc'[s] = Invoke(next.fn)
      BY <1>4 DEF Processed
  <2>2. CASE next.fn = "user" \/ (next.fn = "null" /\ next.to # q)
    <3>1. t <= next.ts
        BY <1>c, <2>2 DEF IsNull
    <3>2. pc'[s] = "event" \/ (pc'[s] = "null" /\ current'[s].to # q)
        BY <2>1, <2>2 DEF Invoke
    <3> QED
        BY <2>1, <3>1, <3>2 DEF Floor, Exposed
  <2>3. CASE ~(next.fn = "user" \/ (next.fn = "null" /\ next.to # q))
    <3>1. ~(pc'[s] = "event" \/ (pc'[s] = "null" /\ current'[s].to # q))
        BY <2>1, <2>3 DEF Invoke
    <3> QED
        BY <1>c, <1>f, <2>1, <3>1
  <2> QED
      BY <2>2, <2>3
<1>5. CASE NullSent(s)
  <2>1. PICK n \in Events : /\ IsNull(n, current[s].to) /\ m_currentTs[s] <= n.ts
                            /\ m_events'[s] = m_events[s] \cup {n}
      BY <1>5 DEF NullSent
  <2>2. pc[s] = "null" /\ pc'[s] = "receive"
      BY <1>5 DEF NullSent
  <2>3. IsNull(n, q) \/ t <= n.ts
    <3>1. CASE current[s].to = q
        BY <2>1, <3>1
    <3>2. CASE current[s].to # q
      <4>1. t <= m_currentTs[s]
          BY <2>2, <3>2 DEF Floor, Exposed
      <4> QED
          BY <1>a, <1>b, <2>1, <4>1
    <3> QED
        BY <3>1, <3>2
  <2> QED
      BY <1>c, <1>f, <2>1, <2>2, <2>3
<1>6. CASE Refreshed(s)
    BY <1>6, <1>c, <1>f DEF Refreshed
<1>7. ASSUME NEW p \in Neighbours(s), Transmitted(s, p)
      PROVE  Floor(s, q, t)'
  <2>1. PICK e \in Events, n \in Events :
           /\ m_currentTs[s] <= e.ts /\ m_currentTs[s] <= n.ts
           /\ m_events'[s] = CancelNullEvents(p, m_events[s] \cup {e}) \cup {n}
      BY <1>7 DEF Transmitted
  <2>2. pc[s] = "event" /\ pc'[s] = "receive"
      BY <1>7 DEF Transmitted
  <2>3. t <= m_currentTs[s]
      BY <2>2 DEF Floor, Exposed
  <2> DEFINE ev == m_events[s] \cup {e}
  <2>4. ev \in SUBSET Events /\ t <= n.ts /\ \A x \in ev : t <= x.ts
      BY <1>a, <1>b, <1>d, <2>1, <2>3
  <2>5. \A x \in CancelNullEvents(p, ev) : t <= x.ts
    <3> HIDE DEF ev
    <3> QED
        BY <2>4, CancelTyped
  <2>6. \A x \in m_events'[s] : t <= x.ts
      BY <2>1, <2>4, <2>5
  <2> QED
      BY <1>f, <2>2, <2>6
<1>8. ASSUME NEW p \in Neighbours(s), Received(s, p)
      PROVE  Floor(s, q, t)'
  <2>1. pc'[s] \in {"receive", "loop"}
      BY <1>8 DEF Received
  <2>2. \A e \in m_events'[s] : e \in m_events[s] \/ m_safeTime[s] <= e.ts
      BY <1>8, ReceiveStep
  <2>3. \A e \in m_events'[s] : e.ts \in Nat
      BY DEF TypeOK
  <2>4. \A e \in m_events'[s] : IsNull(e, q) \/ t <= e.ts
      BY <1>a, <1>c, <2>2, <2>3
  <2> QED
      BY <1>f, <2>1, <2>4
<1> QED
    BY <1>1, <1>2, <1>3, <1>4, <1>5, <1>6, <1>7, <1>8 DEF Move

-----------------------------------------------------------------------------
(* What a step does to the messages from s to its neighbour r.             *)

Same(s, r) == /\ network'[s][r] = network[s][r]
              /\ m_guaranteeTime'[r][s] = m_guaranteeTime[r][s]

\* A message is sent that no floor of s was ahead of, and its guarantee is a new one.
Pushed(s, r) ==
    /\ m_guaranteeTime'[r][s] = m_guaranteeTime[r][s]
    /\ \E m \in Message :
         /\ network'[s][r] = Append(network[s][r], m)
         /\ \E t \in Int : m.guarantee = t + BundleDelay(s, r) /\ Floor(s, r, t)'
         /\ \A t \in Int : Floor(s, r, t) =>
              /\ t + BundleDelay(s, r) <= m.guarantee
              /\ m.rxTime > 0 => t + BundleDelay(s, r) <= m.rxTime

Taken(s, r) == /\ network[s][r] # <<>>
               /\ network'[s][r] = Tail(network[s][r])
               /\ m_guaranteeTime'[r][s] = Head(network[s][r]).guarantee

LEMMA TransmitPushes ==
    ASSUME MoreAfterSend = FALSE, TypeOK, NEW s \in Ranks, NEW r \in Neighbours(s), RankInv(s),
           Transmitted(s, r)
    PROVE  Pushed(s, r)
<1> DEFINE D == BundleDelay(s, r)
<1>1. PICK e \in Events, n \in Events, m \in Message :
         /\ e.fn = "user" /\ m_currentTs[s] <= e.ts
         /\ IsNull(n, r) /\ m_currentTs[s] <= n.ts
         /\ m.guarantee = Guarantee(s, r, m_events[s] \cup {e})
         /\ m_currentTs[s] + D <= m.rxTime
         /\ m_events'[s] = CancelNullEvents(r, m_events[s] \cup {e}) \cup {n}
         /\ Sent(s, r, m)
    BY DEF Transmitted
<1> DEFINE ev == m_events[s] \cup {e}
<1>2. /\ m_currentTs[s] \in Nat /\ m_safeTime[s] \in Nat /\ D \in Nat
      /\ ev \in SUBSET Events /\ ev # {} /\ m.rxTime \in Nat /\ m.guarantee \in Nat
    BY Typed, Bundles DEF Message
<1>3. /\ pc[s] = "event" /\ pc'[s] = "receive"
      /\ UNCHANGED <<m_currentTs, m_safeTime, m_guaranteeTime>>
    BY DEF Transmitted
<1>4. m_currentTs[s] <= m_safeTime[s] /\ \A x \in ev : m_currentTs[s] <= x.ts
    BY <1>1 DEF RankInv
<1>5. \A x \in ev : x.ts \in Nat
    BY <1>2 DEF Events
<1>6. PICK b \in Int :
         /\ Guarantee(s, r, ev) = b + D /\ b <= m_safeTime[s] /\ \A x \in ev : b <= x.ts
         /\ \A t \in Int : t <= m_safeTime[s] /\ (\A x \in ev : t <= x.ts) => t <= b
  <2> DEFINE b == Guarantee(s, r, ev) - D
  <2> HIDE DEF ev
  <2>1. /\ Guarantee(s, r, ev) \in Nat /\ b <= m_safeTime[s] /\ \A x \in ev : b <= x.ts
        /\ \A t \in Int : t <= m_safeTime[s] /\ (\A x \in ev : t <= x.ts) => t <= b
      BY <1>2, GuaranteeBounds
  <2>2. b \in Int /\ Guarantee(s, r, ev) = b + D
      BY <1>2, <2>1
  <2> HIDE DEF b
  <2> QED
      BY <2>1, <2>2
<1>7. \A x \in CancelNullEvents(r, ev) : b <= x.ts
  <2>1. \A x \in ev : b <= x.ts
      BY <1>6
  <2> HIDE DEF ev
  <2> QED
      BY <1>2, <2>1, CancelTyped
<1>8. m.guarantee = b + D /\ b \in Int
    BY <1>1, <1>2, <1>6
<1>9. Floor(s, r, b)'
  <2>1. \A x \in m_events'[s] : IsNull(x, r) \/ b <= x.ts
      BY <1>1, <1>7
  <2> QED
      BY <1>3, <1>6, <2>1 DEF Floor, Exposed, Below
<1>10. ASSUME NEW t \in Int, Floor(s, r, t)
       PROVE  t + D <= m.guarantee /\ t + D <= m.rxTime
  <2>1. t <= m_currentTs[s]
      BY <1>3, <1>10 DEF Floor, Exposed
  <2>2. t <= m_safeTime[s] /\ \A x \in ev : t <= x.ts
      BY <1>2, <1>4, <1>5, <2>1
  <2>3. t <= b
      BY <1>6, <2>2
  <2> HIDE DEF D
  <2> QED
      BY <1>1, <1>2, <1>8, <2>1, <2>3
<1>11. network'[s][r] = Append(network[s][r], m)
    BY <1>1 DEF Sent
<1> HIDE DEF ev
<1> QED
    BY <1>3, <1>8, <1>9, <1>10, <1>11 DEF Pushed

LEMMA StartPushes ==
    ASSUME TypeOK, NEW s \in Ranks, NEW r \in Neighbours(s), RankInv(s), Started(s)
    PROVE  Pushed(s, r)
<1> DEFINE D == BundleDelay(s, r)
           m == [rxTime |-> 0, guarantee |-> D]
<1>1. D \in Nat /\ m \in Message /\ m.rxTime = 0 /\ m.guarantee = D
    BY Bundles DEF Message
<1>2. /\ pc[s] = "main" /\ pc'[s] = "loop" /\ m_safeTime'[s] = 0
      /\ network'[s][r] = Append(network[s][r], m) /\ UNCHANGED m_guaranteeTime
    BY DEF Started
<1>3. \A e \in m_events'[s] : 0 <= e.ts
  <2>1. PICK N \in SUBSET Events : m_events'[s] = m_events[s] \cup N
      BY DEF Started
  <2>2. m_events[s] \in SUBSET Events
      BY Typed
  <2> QED
      BY <2>1, <2>2 DEF Events
<1>4. Floor(s, r, 0)'
    BY <1>2, <1>3 DEF Floor, Exposed, Below
<1>5. \A t \in Int : Floor(s, r, t) => t <= 0
    BY <1>2 DEF Floor, Exposed, Below, RankInv
<1> HIDE DEF m, D
<1>6. m.guarantee = 0 + D
    BY <1>1
<1>7. \A t \in Int : Floor(s, r, t) => t + D <= m.guarantee
    BY <1>1, <1>5
<1> QED
    BY <1>1, <1>2, <1>4, <1>6, <1>7 DEF Pushed, D

LEMMA NullPushes ==
    ASSUME TypeOK, NEW s \in Ranks, NEW r \in Neighbours(s), NullInv(s),
           NullSent(s), current[s].to = r
    PROVE  Pushed(s, r)
<1> DEFINE D == BundleDelay(s, r)
           ev == m_events[s]
<1>1. PICK n \in Events, m \in Message :
         /\ IsNull(n, r) /\ m.rxTime = 0 /\ m.guarantee = Guarantee(s, r, ev)
         /\ m_events'[s] = ev \cup {n} /\ Sent(s, r, m)
    BY DEF NullSent
<1>2. m_safeTime[s] \in Nat /\ D \in Nat /\ ev \in SUBSET Events /\ ev # {}
    BY Typed, Bundles DEF NullSent
<1>3. pc[s] = "null" /\ pc'[s] = "receive" /\ UNCHANGED <<m_safeTime, m_guaranteeTime>>
    BY DEF NullSent
<1>4. \A e \in ev : ~IsNull(e, r)
    BY <1>3 DEF NullInv
<1>5. PICK b \in Int :
         /\ Guarantee(s, r, ev) = b + D /\ b <= m_safeTime[s] /\ \A x \in ev : b <= x.ts
         /\ \A t \in Int : t <= m_safeTime[s] /\ (\A x \in ev : t <= x.ts) => t <= b
  <2> DEFINE b == Guarantee(s, r, ev) - D
  <2> HIDE DEF ev
  <2>1. /\ Guarantee(s, r, ev) \in Nat /\ b <= m_safeTime[s] /\ \A x \in ev : b <= x.ts
        /\ \A t \in Int : t <= m_safeTime[s] /\ (\A x \in ev : t <= x.ts) => t <= b
      BY <1>2, GuaranteeBounds
  <2>2. b \in Int /\ Guarantee(s, r, ev) = b + D
      BY <1>2, <2>1
  <2> HIDE DEF b
  <2> QED
      BY <2>1, <2>2
<1>6. m.guarantee = b + D /\ b \in Int
    BY <1>1, <1>2, <1>5
<1>7. Floor(s, r, b)'
    BY <1>1, <1>3, <1>5 DEF Floor, Exposed, Below
<1>8. ASSUME NEW t \in Int, Floor(s, r, t)
      PROVE  t + D <= m.guarantee
  <2>1. t <= m_safeTime[s] /\ \A x \in ev : t <= x.ts
      BY <1>3, <1>4, <1>8 DEF Floor, Exposed, Below
  <2>2. t <= b
      BY <1>5, <2>1
  <2> HIDE DEF D
  <2> QED
      BY <1>2, <1>6, <2>2
<1>9. network'[s][r] = Append(network[s][r], m)
    BY <1>1 DEF Sent
<1> HIDE DEF ev
<1> QED
    BY <1>1, <1>3, <1>6, <1>7, <1>8, <1>9 DEF Pushed

LEMMA LinkMoves ==
    ASSUME MoreAfterSend = FALSE, TypeOK, NEW s \in Ranks, NEW r \in Neighbours(s), RankInv(s),
           NullInv(s), NEW p \in Ranks, Others(p), Move(p)
    PROVE  Same(s, r) \/ Pushed(s, r) \/ Taken(s, r)
<1>a. r \in Ranks /\ r # s
    BY Bundles
<1>1. CASE Scheduled(p) \/ Moved(p) \/ Processed(p) \/ Refreshed(p)
    BY <1>1 DEF Scheduled, Moved, Processed, Refreshed, Same
<1>2. CASE Started(p)
  <2>1. CASE p = s
      BY <1>2, <2>1, StartPushes
  <2>2. CASE p # s
      BY <1>2, <1>a, <2>2 DEF Started, Same
  <2> QED
      BY <2>1, <2>2
<1>3. CASE NullSent(p)
  <2>1. CASE p = s /\ current[s].to = r
      BY <1>3, <2>1, NullPushes
  <2>2. CASE ~(p = s /\ current[s].to = r)
      BY <1>3, <1>a, <2>2 DEF NullSent, Sent, Same
  <2> QED
      BY <2>1, <2>2
<1>4. ASSUME NEW q \in Neighbours(p), Transmitted(p, q)
      PROVE  Same(s, r) \/ Pushed(s, r)
  <2>1. CASE p = s /\ q = r
      BY <1>4, <2>1, TransmitPushes
  <2>2. CASE ~(p = s /\ q = r)
      BY <1>4, <1>a, <2>2 DEF Transmitted, Sent, Same
  <2> QED
      BY <2>1, <2>2
<1>5. ASSUME NEW q \in Neighbours(p), Received(p, q)
      PROVE  Same(s, r) \/ Taken(s, r)
  <2>1. CASE p = r /\ q = s
      BY <1>5, <2>1 DEF Received, Taken
  <2>2. CASE p = r /\ q # s
      BY <1>5, <1>a, <2>2 DEF Received, Same
  <2>3. CASE p # r
    <3>1. m_guaranteeTime'[r] = m_guaranteeTime[r]
        BY <1>a, <2>3 DEF Others
    <3> QED
        BY <1>5, <1>a, <2>3, <3>1 DEF Received, Same
  <2> QED
      BY <2>1, <2>2, <2>3
<1> QED
    BY <1>1, <1>2, <1>3, <1>4, <1>5 DEF Move

-----------------------------------------------------------------------------
(* Guarantees on the way from s to r are in order and kept by the packets  *)
(* behind them, and s keeps to all of them.                                *)

Ordered(s, r) ==
    \A i \in DOMAIN network[s][r] :
        /\ m_guaranteeTime[r][s] <= network[s][r][i].guarantee
        /\ \A j \in 1..i - 1 : network[s][r][j].guarantee <= network[s][r][i].guarantee

Kept(s, r) ==
    \A i \in DOMAIN network[s][r] : network[s][r][i].rxTime > 0 =>
        /\ m_guaranteeTime[r][s] <= network[s][r][i].rxTime
        /\ \A j \in 1..i - 1 : network[s][r][j].guarantee <= network[s][r][i].rxTime

Promised(s, r) ==
    /\ \E t \in Int : m_guaranteeTime[r][s] <= t + BundleDelay(s, r) /\ Floor(s, r, t)
    /\ \A i \in DOMAIN network[s][r] :
         \E t \in Int : network[s][r][i].guarantee <= t + BundleDelay(s, r) /\ Floor(s, r, t)

LinkInv(s, r) == Ordered(s, r) /\ Kept(s, r) /\ Promised(s, r)

LEMMA LinkArrivals ==
    ASSUME TypeOK, NEW r \in Ranks, \A q \in Neighbours(r) : LinkInv(q, r)
    PROVE  Arrivals(r)
<1> SUFFICES ASSUME NEW q \in Neighbours(r), network[q][r] # <<>>
             PROVE  LET m == Head(network[q][r])
                    IN  /\ m_guaranteeTime[r][q] <= m.guarantee
                        /\ m.rxTime > 0 => m_guaranteeTime[r][q] <= m.rxTime
    BY DEF Arrivals
<1>1. network[q][r] \in Seq(Message)
    BY Typed, Bundles
<1>2. 1 \in DOMAIN network[q][r] /\ Head(network[q][r]) = network[q][r][1]
    BY <1>1
<1> QED
    BY <1>2 DEF LinkInv, Ordered, Kept

LEMMA LinkStep ==
    ASSUME TypeOK, NEW s \in Ranks, NEW r \in Neighbours(s), LinkInv(s, r),
           \A t \in Int : Floor(s, r, t) => Floor(s, r, t)',
           Same(s, r) \/ Pushed(s, r) \/ Taken(s, r)
    PROVE  LinkInv(s, r)'
<1> DEFINE net == network[s][r]
           new == network'[s][r]
           D == BundleDelay(s, r)
           g == m_guaranteeTime[r][s]
           h == m_guaranteeTime'[r][s]
<1>a. net \in Seq(Message) /\ D \in Nat /\ g \in Nat
    BY Typed, Bundles
<1>b. /\ \A i \in 1..Len(net) : g <= net[i].guarantee
      /\ \A i \in 1..Len(net) : \A j \in 1..i - 1 : net[j].guarantee <= net[i].guarantee
    BY <1>a, SMTT(30) DEF LinkInv, Ordered
<1>c. /\ \A i \in 1..Len(net) : net[i].rxTime > 0 => g <= net[i].rxTime
      /\ \A i \in 1..Len(net) : net[i].rxTime > 0 =>
            \A j \in 1..i - 1 : net[j].guarantee <= net[i].rxTime
    BY <1>a DEF LinkInv, Kept
<1>d. /\ \E t \in Int : g <= t + D /\ Floor(s, r, t)
      /\ \A i \in 1..Len(net) : \E t \in Int : net[i].guarantee <= t + D /\ Floor(s, r, t)
    BY <1>a DEF LinkInv, Promised
<1>e. \A i \in 1..Len(net) : net[i].guarantee \in Nat /\ net[i].rxTime \in Nat
  <2> HIDE DEF net
  <2>1. \A i \in 1..Len(net) : net[i] \in Message
      BY <1>a
  <2> QED
      BY <2>1 DEF Message
<1>f. ASSUME new \in Seq(Message),
             \A i \in 1..Len(new) :
                /\ h <= new[i].guarantee
                /\ \A j \in 1..i - 1 : new[j].guarantee <= new[i].guarantee
                /\ new[i].rxTime > 0 =>
                      h <= new[i].rxTime /\ \A j \in 1..i - 1 : new[j].guarantee <= new[i].rxTime
                /\ \E t \in Int : new[i].guarantee <= t + D /\ Floor(s, r, t)',
             \E t \in Int : h <= t + D /\ Floor(s, r, t)'
      PROVE  LinkInv(s, r)'
  <2>1. DOMAIN new = 1..Len(new)
      BY <1>f
  <2>2. Ordered(s, r)'
      BY <1>f, <2>1 DEF Ordered
  <2>3. Kept(s, r)'
      BY <1>f, <2>1 DEF Kept
  <2>4. Promised(s, r)'
      BY <1>f, <2>1 DEF Promised
  <2> QED
      BY <2>2, <2>3, <2>4 DEF LinkInv
<1>g. /\ \E t \in Int : g <= t + D /\ Floor(s, r, t)'
      /\ \A i \in 1..Len(net) : \E t \in Int : net[i].guarantee <= t + D /\ Floor(s, r, t)'
    BY <1>d
<1>1. CASE Same(s, r)
  <2>1. new = net /\ h = g
      BY <1>1 DEF Same
  <2> HIDE DEF new, net, h, g, D
  <2> QED
      BY <1>a, <1>b, <1>c, <1>f, <1>g, <2>1
<1>2. CASE Taken(s, r)
  <2>1. net # <<>> /\ new = Tail(net) /\ h = Head(net).guarantee
      BY <1>2 DEF Taken
  <2>2. /\ 1 \in 1..Len(net) /\ h = net[1].guarantee
        /\ new \in Seq(Message) /\ Len(new) = Len(net) - 1 /\ Len(net) \in Nat
        /\ \A i \in 1..Len(new) : i + 1 \in 1..Len(net) /\ new[i] = net[i + 1]
    <3> HIDE DEF new, net, h
    <3>1. Len(net) \in Nat /\ Len(net) > 0 /\ Head(net) = net[1]
        BY <1>a, <2>1
    <3>2. Tail(net) \in Seq(Message) /\ Len(Tail(net)) = Len(net) - 1
        BY <1>a, <2>1
    <3>3. \A i \in 1..Len(net) - 1 : Tail(net)[i] = net[i + 1]
        BY <1>a, <2>1
    <3> QED
        BY <2>1, <3>1, <3>2, <3>3
  <2> HIDE DEF new, net, h, g, D
  <2>3. ASSUME NEW i \in 1..Len(new)
        PROVE  /\ h <= new[i].guarantee
               /\ \A j \in 1..i - 1 : new[j].guarantee <= new[i].guarantee
               /\ new[i].rxTime > 0 =>
                     h <= new[i].rxTime /\ \A j \in 1..i - 1 : new[j].guarantee <= new[i].rxTime
               /\ \E t \in Int : new[i].guarantee <= t + D /\ Floor(s, r, t)'
    <3>1. i + 1 \in 1..Len(net) /\ new[i] = net[i + 1] /\ 1 \in 1..(i + 1) - 1
        BY <2>2
    <3>2. \A j \in 1..i - 1 : j + 1 \in 1..(i + 1) - 1 /\ new[j] = net[j + 1]
        BY <2>2
    <3>3. h <= new[i].guarantee /\ (new[i].rxTime > 0 => h <= new[i].rxTime)
        BY <1>b, <1>c, <2>2, <3>1
    <3>4. \A j \in 1..i - 1 : new[j].guarantee <= new[i].guarantee
        BY <1>b, <3>1, <3>2
    <3>5. new[i].rxTime > 0 => \A j \in 1..i - 1 : new[j].guarantee <= new[i].rxTime
        BY <1>c, <3>1, <3>2
    <3>6. \E t \in Int : new[i].guarantee <= t + D /\ Floor(s, r, t)'
        BY <1>g, <3>1
    <3> QED
        BY <3>3, <3>4, <3>5, <3>6
  <2>4. \E t \in Int : h <= t + D /\ Floor(s, r, t)'
      BY <1>g, <2>2
  <2> QED
      BY <1>f, <2>2, <2>3, <2>4
<1>3. CASE Pushed(s, r)
  <2>1. PICK m \in Message :
          /\ new = Append(net, m)
          /\ \E t \in Int : m.guarantee = t + D /\ Floor(s, r, t)'
          /\ \A t \in Int : Floor(s, r, t) =>
               t + D <= m.guarantee /\ (m.rxTime > 0 => t + D <= m.rxTime)
      BY <1>3 DEF Pushed
  <2>2. h = g
      BY <1>3 DEF Pushed
  <2>3. m.guarantee \in Nat /\ m.rxTime \in Nat
      BY DEF Message
  <2>4. /\ Len(net) \in Nat /\ Len(new) = Len(net) + 1 /\ new \in Seq(Message)
        /\ new[Len(net) + 1] = m /\ \A i \in 1..Len(net) : new[i] = net[i]
    <3> HIDE DEF new, net
    <3>1. Len(net) \in Nat
        BY <1>a
    <3>2. new \in Seq(Message) /\ Len(new) = Len(net) + 1
        BY <1>a, <2>1
    <3>3. new[Len(net) + 1] = m
        BY <1>a, <2>1, <3>1
    <3>4. \A i \in 1..Len(net) : new[i] = net[i]
        BY <1>a, <2>1, <3>1
    <3> QED
        BY <3>1, <3>2, <3>3, <3>4
  <2> HIDE DEF new, net, h, g, D
  <2>5. g <= m.guarantee /\ (m.rxTime > 0 => g <= m.rxTime)
    <3>1. PICK t \in Int : g <= t + D /\ Floor(s, r, t)
        BY <1>d
    <3> QED
        BY <1>a, <2>1, <2>3, <3>1
  <2>6. ASSUME NEW j \in 1..Len(net)
        PROVE  net[j].guarantee <= m.guarantee /\ (m.rxTime > 0 => net[j].guarantee <= m.rxTime)
    <3>1. PICK t \in Int : net[j].guarantee <= t + D /\ Floor(s, r, t)
        BY <1>d
    <3> QED
        BY <1>a, <1>e, <2>1, <2>3, <3>1
  <2>7. ASSUME NEW i \in 1..Len(new)
        PROVE  /\ h <= new[i].guarantee
               /\ \A j \in 1..i - 1 : new[j].guarantee <= new[i].guarantee
               /\ new[i].rxTime > 0 =>
                     h <= new[i].rxTime /\ \A j \in 1..i - 1 : new[j].guarantee <= new[i].rxTime
               /\ \E t \in Int : new[i].guarantee <= t + D /\ Floor(s, r, t)'
    <3>1. CASE i \in 1..Len(net)
      <4>1. new[i] = net[i] /\ \A j \in 1..i - 1 : new[j] = net[j]
          BY <2>4, <3>1
      <4> QED
          BY <1>b, <1>c, <1>g, <2>2, <3>1, <4>1
    <3>2. CASE i = Len(net) + 1
      <4>1. new[i] = m /\ \A j \in 1..i - 1 : j \in 1..Len(net) /\ new[j] = net[j]
          BY <2>4, <3>2
      <4>2. \E t \in Int : m.guarantee <= t + D /\ Floor(s, r, t)'
        <5>1. PICK t \in Int : m.guarantee = t + D /\ Floor(s, r, t)'
            BY <2>1
        <5> QED
            BY <2>3, <5>1
      <4> QED
          BY <2>2, <2>5, <2>6, <4>1, <4>2
    <3> QED
        BY <2>4, <3>1, <3>2
  <2> QED
      BY <1>f, <1>g, <2>2, <2>4, <2>7
<1> QED
    BY <1>1, <1>2, <1>3

\* Ranks that share no channel exchange no messages.
Quiet(s, r) == r \in Neighbours(s) \/ network[s][r] = <<>>

LEMMA QuietStep ==
    ASSUME TypeOK, Nulls, NEW s \in Ranks, NEW r \in Ranks, Quiet(s, r),
           NEW p \in Ranks, Move(p)
    PROVE  Quiet(s, r)'
<1> SUFFICES ASSUME r \notin Neighbours(s)
             PROVE  network'[s][r] = <<>>
    BY DEF Quiet
<1>a. network[s][r] = <<>>
    BY DEF Quiet
<1>1. CASE Scheduled(p) \/ Moved(p) \/ Processed(p) \/ Refreshed(p)
    BY <1>1, <1>a DEF Scheduled, Moved, Processed, Refreshed
<1>2. CASE Started(p)
    BY <1>2, <1>a DEF Started
<1>3. CASE NullSent(p)
  <2>1. current[p].to \in Neighbours(p)
      BY <1>3 DEF Nulls, NullInv, NullSent
  <2> QED
      BY <1>3, <1>a, <2>1 DEF NullSent, Sent
<1>4. ASSUME NEW q \in Neighbours(p), Transmitted(p, q)
      PROVE  network'[s][r] = <<>>
    BY <1>4, <1>a DEF Transmitted, Sent
<1>5. ASSUME NEW q \in Neighbours(p), Received(p, q)
      PROVE  network'[s][r] = <<>>
  <2>1. q # s \/ p # r
      BY Bundles
  <2> QED
      BY <1>5, <1>a, <2>1 DEF Received
<1> QED
    BY <1>1, <1>2, <1>3, <1>4, <1>5 DEF Move

Guarantees == /\ \A r \in Ranks : RankInv(r)
              /\ \A s \in Ranks : \A r \in Neighbours(s) : LinkInv(s, r)
              /\ \A s, r \in Ranks : Quiet(s, r)

LEMMA GuaranteesInit == Init => Guarantees
<1> SUFFICES ASSUME Init PROVE Guarantees
    OBVIOUS
<1>1. ASSUME NEW r \in Ranks
      PROVE  /\ m_currentTs[r] = 0 /\ m_safeTime[r] = 0 /\ pc[r] = "main"
             /\ \A q \in Ranks : m_guaranteeTime[r][q] = 0 /\ network[r][q] = <<>>
             /\ \A e \in m_events[r] : e.ts \in Nat
    BY TimesAssumption DEF Init, Event
<1>2. ASSUME NEW r \in Ranks
      PROVE  RankInv(r)
  <2>1. \A q \in Neighbours(r) : m_guaranteeTime[r][q] = 0
      BY <1>1, Bundles
  <2> QED
      BY <1>1, <2>1, TimesAssumption DEF RankInv
<1>3. ASSUME NEW s \in Ranks, NEW r \in Neighbours(s)
      PROVE  LinkInv(s, r)
  <2>1. /\ r \in Ranks /\ BundleDelay(s, r) \in Nat
        /\ m_guaranteeTime[r][s] = 0 /\ network[s][r] = <<>>
      BY <1>1, Bundles
  <2>2. DOMAIN network[s][r] = {}
      BY <2>1
  <2>3. Ordered(s, r) /\ Kept(s, r)
      BY <2>2 DEF Ordered, Kept
  <2>4. Floor(s, r, 0)
      BY <1>1 DEF Floor, Exposed, Below
  <2>5. m_guaranteeTime[r][s] <= 0 + BundleDelay(s, r)
      BY <2>1
  <2>6. Promised(s, r)
      BY <2>2, <2>4, <2>5 DEF Promised
  <2> QED
      BY <2>3, <2>6 DEF LinkInv
<1> QED
    BY <1>1, <1>2, <1>3 DEF Guarantees, Quiet

LEMMA GuaranteesStep ==
    ASSUME MoreAfterSend = FALSE, TypeOK, Nulls, Guarantees, [Next]_vars
    PROVE  Guarantees'
<1>1. CASE UNCHANGED vars
    BY <1>1 DEF vars, Guarantees, RankInv, LinkInv, Ordered, Kept, Promised, Floor, Exposed,
                Below, Quiet
<1>2. ASSUME NEW p \in Ranks, Others(p), Move(p)
      PROVE  Guarantees'
  <2>a. TypeOK'
      BY NullsStep
  <2>b. \A r \in Ranks : Arrivals(r)
    <3> SUFFICES ASSUME NEW r \in Ranks PROVE Arrivals(r)
        OBVIOUS
    <3>1. \A q \in Neighbours(r) : LinkInv(q, r)
        BY Bundles DEF Guarantees
    <3> QED
        BY <3>1, LinkArrivals
  <2>1. ASSUME NEW r \in Ranks
        PROVE  RankInv(r)'
    <3>1. CASE r = p
        BY <1>2, <2>a, <2>b, <3>1, RankStep DEF Guarantees
    <3>2. CASE r # p
      <4>1. RankInv(r)
          BY DEF Guarantees
      <4> QED
          BY <1>2, <3>2, <4>1 DEF Others, RankInv
    <3> QED
        BY <3>1, <3>2
  <2>2. ASSUME NEW s \in Ranks, NEW r \in Neighbours(s)
        PROVE  LinkInv(s, r)'
    <3>1. \A t \in Int : Floor(s, r, t) => Floor(s, r, t)'
      <4> SUFFICES ASSUME NEW t \in Int, Floor(s, r, t) PROVE Floor(s, r, t)'
          OBVIOUS
      <4>1. CASE s = p
          BY <1>2, <2>a, <2>b, <4>1, FloorStep DEF Guarantees
      <4>2. CASE s # p
          BY <1>2, <4>2 DEF Others, Floor, Exposed, Below
      <4> QED
          BY <4>1, <4>2
    <3>2. Same(s, r) \/ Pushed(s, r) \/ Taken(s, r)
        BY <1>2, LinkMoves DEF Guarantees, Nulls
    <3>3. LinkInv(s, r)
        BY DEF Guarantees
    <3> QED
        BY <3>1, <3>2, <3>3, LinkStep
  <2>3. \A s, r \in Ranks : Quiet(s, r)'
      BY <1>2, QuietStep DEF Guarantees
  <2> QED
      BY <2>1, <2>2, <2>3 DEF Guarantees
<1> QED
    BY <1>1, <1>2, StepMoves DEF Nulls

LEMMA PacketsQuiet ==
    ASSUME Guarantees, NEW s \in Ranks, NEW r \in Ranks, NEW i \in Packets(s, r)
    PROVE  /\ r \in Neighbours(s) /\ i \in DOMAIN network[s][r] /\ network[s][r][i].rxTime > 0
           /\ LinkInv(s, r)
<1>1. i \in DOMAIN network[s][r] /\ network[s][r][i].rxTime > 0
    BY DEF Packets
<1>2. network[s][r] # <<>>
    BY <1>1
<1> QED
    BY <1>1, <1>2 DEF Guarantees, Quiet

\* A packet is never received before a guarantee its sender gave before it
\* (GuaranteeKept), whatever the ranks compute their guarantees from, if no event
\* goes on after it transmitted a packet: SendPacket computes the guarantee from the
\* events pending at that moment, and what the event schedules or sends later is
\* not among them.
THEOREM GuaranteesKept == ASSUME MoreAfterSend = FALSE PROVE Spec => []GuaranteeKept
<1>1. Guarantees => GuaranteeKept
    BY PacketsQuiet DEF GuaranteeKept, LinkInv, Kept
<1> QED
    BY <1>1, TypeInit, NullsInit, NullsStep, GuaranteesInit, GuaranteesStep, PTL DEF Spec

\* No rank runs past a packet on its way to it, past an event it holds or past its
\* safe time (Causality), under the same condition.
THEOREM CausalityKept == ASSUME MoreAfterSend = FALSE PROVE Spec => []Causality
<1>1. TypeOK /\ Guarantees => Causality
  <2> SUFFICES ASSUME TypeOK, Guarantees PROVE Causality
      OBVIOUS
  <2>1. \A r \in Ranks : RankInv(r)
      BY DEF Guarantees
  <2>2. ASSUME NEW s \in Ranks, NEW r \in Ranks, NEW i \in Packets(s, r)
        PROVE  m_currentTs[r] <= network[s][r][i].rxTime
    <3>1. /\ r \in Neighbours(s) /\ i \in DOMAIN network[s][r] /\ network[s][r][i].rxTime > 0
          /\ LinkInv(s, r)
        BY PacketsQuiet
    <3>2. s \in Neighbours(r)
        BY <3>1, Bundles
    <3>3. m_guaranteeTime[r][s] <= network[s][r][i].rxTime
        BY <3>1 DEF LinkInv, Kept
    <3>4. m_currentTs[r] <= m_safeTime[r] /\ m_safeTime[r] <= m_guaranteeTime[r][s]
        BY <2>1, <3>2 DEF RankInv
    <3>5. /\ m_currentTs[r] \in Nat /\ m_safeTime[r] \in Nat /\ m_guaranteeTime[r][s] \in Nat
          /\ network[s][r] \in Seq(Message)
        BY Typed
    <3>6. network[s][r][i] \in Message
        BY <3>1, <3>5
    <3>7. network[s][r][i].rxTime \in Nat
        BY <3>6 DEF Message
    <3> QED
        BY <3>3, <3>4, <3>5, <3>7
  <2> QED
      BY <2>1, <2>2 DEF Causality, RankInv
<1> QED
    BY <1>1, TypeInit, NullsInit, NullsStep, GuaranteesInit, GuaranteesStep, PTL DEF Spec

\* A guarantee is never taken back (GuaranteeGrows): SetGuaranteeTime overwrites the
\* old one unseen, and what overwrites it was promised later by the same rank.
THEOREM GuaranteesGrow == ASSUME MoreAfterSend = FALSE PROVE Spec => GuaranteeGrows
<1>1. ASSUME TypeOK, Nulls, Guarantees, [Next]_vars, NEW r \in Ranks, NEW s \in Ranks
      PROVE  m_guaranteeTime[r][s] <= m_guaranteeTime'[r][s]
  <2>a. m_guaranteeTime[r][s] \in Nat
      BY <1>1, Typed
  <2>1. CASE UNCHANGED vars
      BY <2>1, <2>a DEF vars
  <2>2. ASSUME NEW p \in Ranks, Others(p), Move(p)
        PROVE  m_guaranteeTime[r][s] <= m_guaranteeTime'[r][s]
    <3>1. CASE p # r
        BY <2>2, <2>a, <3>1 DEF Others
    <3>2. CASE Scheduled(p) \/ Started(p) \/ Moved(p) \/ Processed(p) \/ NullSent(p) \/ Refreshed(p)
        BY <2>a, <3>2 DEF Scheduled, Started, Moved, Processed, NullSent, Refreshed
    <3>3. ASSUME NEW q \in Neighbours(p), Transmitted(p, q)
          PROVE  m_guaranteeTime[r][s] <= m_guaranteeTime'[r][s]
        BY <2>a, <3>3 DEF Transmitted
    <3>4. ASSUME NEW q \in Neighbours(p), Received(p, q), p = r
          PROVE  m_guaranteeTime[r][s] <= m_guaranteeTime'[r][s]
      <4>1. CASE q # s
          BY <2>a, <3>4, <4>1 DEF Received
      <4>2. CASE q = s
        <5>1. \A k \in Neighbours(r) : LinkInv(k, r)
            BY <1>1, Bundles DEF Guarantees
        <5>2. Arrivals(r)
            BY <1>1, <5>1, LinkArrivals
        <5> QED
            BY <3>4, <4>2, <5>2 DEF Received, Arrivals
      <4> QED
          BY <4>1, <4>2
    <3> QED
        BY <2>2, <3>1, <3>2, <3>3, <3>4 DEF Move
  <2> QED
      BY <1>1, <2>1, <2>2, StepMoves DEF Nulls
<1>2. TypeOK /\ Nulls /\ Guarantees /\ [Next]_vars
        => [\A r, s \in Ranks : m_guaranteeTime[r][s] <= m_guaranteeTime'[r][s]]_vars
    BY <1>1
<1> QED
    BY <1>2, TypeInit, NullsInit, NullsStep, GuaranteesInit, GuaranteesStep, PTL
    DEF Spec, GuaranteeGrows
=============================================================================
