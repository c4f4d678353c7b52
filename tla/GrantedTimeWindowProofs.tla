----------------------- MODULE GrantedTimeWindowProofs -----------------------
(***************************************************************************)
(* Proofs about GrantedTimeWindow.                                         *)
(***************************************************************************)
EXTENDS GrantedTimeWindow, FiniteSetTheorems, TLAPS

\* Every non-empty set of natural numbers has a least element.
LEMMA LeastNatural ==
    ASSUME NEW S \in SUBSET Nat, S # {}
    PROVE  \E n \in S : \A m \in S : n <= m
<1> DEFINE R == {ss \in Nat \X Nat : ss[1] < ss[2]}
<1>1. IsWellFoundedOn(R, Nat)
  BY NatLessThanWellFounded DEF OpToRel
<1>2. \E x \in S : \A y \in S : ~(<<y, x>> \in R)
  <2> HIDE DEF R
  <2> QED BY <1>1, WFMin
<1>3. PICK x \in S : \A y \in S : ~(<<y, x>> \in R)
  BY <1>2
<1>4. ASSUME NEW m \in S PROVE x <= m
  <2>1. x \in Nat /\ m \in Nat OBVIOUS
  <2>2. ~(m < x) BY <1>3, <2>1
  <2> QED BY <2>1, <2>2
<1> QED BY <1>4

\* Min of a set of natural numbers is its least element.
LEMMA MinProperties ==
    ASSUME NEW S \in SUBSET Nat, S # {}
    PROVE  Min(S) \in S /\ \A m \in S : Min(S) <= m
BY LeastNatural DEF Min

\* Max of a bounded set of natural numbers is its largest element.
LEMMA MaxProperties ==
    ASSUME NEW B \in Nat, NEW S \in SUBSET (0..B), S # {}
    PROVE  Max(S) \in S /\ \A m \in S : m <= Max(S)
<1> DEFINE T == {B - x : x \in S}
<1>0. \A x \in S : x \in 0..B
  OBVIOUS
<1>1. T \in SUBSET Nat /\ T # {}
  <2>1. \A x \in S : B - x \in Nat
    BY <1>0
  <2> QED BY <2>1
<1>2. PICK t \in T : \A u \in T : t <= u
  BY <1>1, LeastNatural
<1>3. PICK x \in S : t = B - x
  BY <1>2
<1>4. ASSUME NEW m \in S PROVE m <= x
  <2>1. B - m \in T
    OBVIOUS
  <2>2. B - x <= B - m
    BY <2>1, <1>2, <1>3
  <2>3. x \in 0..B /\ m \in 0..B
    BY <1>0
  <2> HIDE DEF T
  <2> QED BY <2>2, <2>3
<1> QED BY <1>4 DEF Max

\* Counting one more message adds one to the total over all ranks.
LEMMA TotalIncrement ==
    ASSUME NEW f \in [Ranks -> Nat], NEW r \in Ranks, IsFiniteSet(Units(f))
    PROVE  /\ IsFiniteSet(Units([f EXCEPT ![r] = @ + 1]))
           /\ Total([f EXCEPT ![r] = @ + 1]) = Total(f) + 1
<1> DEFINE g == [f EXCEPT ![r] = @ + 1]
<1> DEFINE u == <<r, f[r] + 1>>
<1>1. \A q \in Ranks : 1..g[q] = IF q = r THEN (1..f[r]) \cup {f[r] + 1} ELSE 1..f[q]
  <2>1. g[r] = f[r] + 1 /\ \A q \in Ranks \ {r} : g[q] = f[q]
    OBVIOUS
  <2>2. \A k \in Nat : 1..(k + 1) = (1..k) \cup {k + 1}
    OBVIOUS
  <2>3. f[r] \in Nat
    OBVIOUS
  <2> HIDE DEF g
  <2> QED BY <2>1, <2>2, <2>3
<1>2. Units(g) = Units(f) \cup {u}
  <2>1. ASSUME NEW x \in Units(g) PROVE x \in Units(f) \cup {u}
    <3>1. PICK q \in Ranks : x \in {q} \X (1..g[q])
      BY <2>1 DEF Units
    <3>2. PICK k \in 1..g[q] : x = <<q, k>>
      BY <3>1
    <3>3. CASE q = r /\ k = f[r] + 1
      BY <3>2, <3>3
    <3>4. CASE ~(q = r /\ k = f[r] + 1)
      <4>1. k \in 1..f[q]
        BY <1>1, <3>2, <3>4
      <4> QED BY <3>2, <4>1 DEF Units
    <3> QED BY <3>3, <3>4
  <2>2. ASSUME NEW x \in Units(f) \cup {u} PROVE x \in Units(g)
    <3>1. CASE x = u
      <4>1. f[r] + 1 \in 1..g[r]
        BY <1>1
      <4> QED BY <3>1, <4>1 DEF Units
    <3>2. CASE x \in Units(f)
      <4>1. PICK q \in Ranks : x \in {q} \X (1..f[q])
        BY <3>2 DEF Units
      <4>2. 1..f[q] \subseteq 1..g[q]
        BY <1>1
      <4> QED BY <4>1, <4>2 DEF Units
    <3> QED BY <3>1, <3>2
  <2> QED BY <2>1, <2>2
<1>3. u \notin Units(f)
  <2>1. SUFFICES ASSUME u \in Units(f) PROVE FALSE
    OBVIOUS
  <2>2. PICK q \in Ranks : u \in {q} \X (1..f[q])
    BY <2>1 DEF Units
  <2>3. q = r /\ f[r] + 1 \in 1..f[r]
    BY <2>2
  <2> QED BY <2>3
<1>4. /\ IsFiniteSet(Units(f) \cup {u})
      /\ Cardinality(Units(f) \cup {u}) = Cardinality(Units(f)) + 1
  <2> HIDE DEF u
  <2> QED BY <1>3, FS_AddElement
<1> QED BY <1>2, <1>4 DEF Total

-----------------------------------------------------------------------------
(* Types.                                                                  *)

Assumptions == /\ Ranks # {} /\ IsFiniteSet(Ranks)
               /\ \A c \in Channels : c.ends \subseteq Ranks /\ c.delay \in Nat /\ c.delay < Infinity
               /\ Delays \subseteq Nat /\ TxTimes \subseteq Nat /\ Bounds \subseteq Nat
               /\ Infinity \in Nat /\ MaxTs \in Nat /\ MaxTs < Infinity
               /\ MaxCalls \in Nat /\ MaxRuns \in Nat

LEMMA AssumptionsHold == Assumptions
BY RanksAssumption, ChannelsAssumption, DelaysAssumption, BoundsAssumption,
   InfinityAssumption, MaxAssumption DEF Assumptions

\* The lookahead a rank works out for itself is at most the delay of each of
\* its channels, and at most what it was bounded to.
LEMMA LocalLookAheadBounds ==
    ASSUME TypeOK, NEW r \in Ranks
    PROVE  /\ LocalLookAhead(r) \in 0..Infinity
           /\ \A c \in Channels : r \in c.ends => LocalLookAhead(r) <= c.delay
<1>1. Assumptions
  BY AssumptionsHold
<1>2. m_lookAhead[r] \in 0..Infinity
  BY DEF TypeOK
<1>3. CASE Cardinality(Ranks) <= 1
  BY <1>1, <1>3 DEF LocalLookAhead, Assumptions
<1>4. CASE ~(Cardinality(Ranks) <= 1)
  <2> DEFINE S == RemoteDelays(r) \cup {m_lookAhead[r]}
  <2>1. \A c \in Channels : r \in c.ends => c.delay \in S
    BY DEF RemoteDelays
  <2>2. \A x \in S : x \in 0..Infinity
    BY <1>1, <1>2 DEF RemoteDelays, Assumptions
  <2>3. S \in SUBSET Nat /\ S # {}
    BY <2>2
  <2>4. LocalLookAhead(r) = Min(S)
    BY <1>4 DEF LocalLookAhead
  <2> HIDE DEF S
  <2>5. Min(S) \in S /\ \A x \in S : Min(S) <= x
    BY <2>3, MinProperties
  <2> QED BY <2>1, <2>2, <2>4, <2>5
<1> QED BY <1>3, <1>4

\* CalculateLookAhead keeps these bounds: the maximum over all ranks is only
\* given to ranks without channels.
LEMMA LookAheadBounds ==
    ASSUME TypeOK, NEW r \in Ranks
    PROVE  /\ CalculateLookAhead(r) \in 0..Infinity
           /\ \A c \in Channels : r \in c.ends => CalculateLookAhead(r) <= c.delay
<1>1. Assumptions
  BY AssumptionsHold
<1> DEFINE S == {IF LocalLookAhead(q) = Infinity THEN 0 ELSE LocalLookAhead(q) : q \in Ranks}
<1>2. \A q \in Ranks : LocalLookAhead(q) \in 0..Infinity
  BY LocalLookAheadBounds
<1>3. S \in SUBSET (0..Infinity) /\ S # {}
  BY <1>1, <1>2 DEF Assumptions
<1>4. MaxLookAhead = Max(S)
  BY DEF MaxLookAhead
<1>5. MaxLookAhead \in 0..Infinity
  <2> HIDE DEF S
  <2>1. Infinity \in Nat
    BY <1>1 DEF Assumptions
  <2> QED BY <1>3, <1>4, <2>1, MaxProperties
<1>6. CASE LocalLookAhead(r) = Infinity
  <2>1. \A c \in Channels : r \notin c.ends
    <3>1. ASSUME NEW c \in Channels, r \in c.ends PROVE FALSE
      <4>1. Infinity <= c.delay
        BY <1>6, <3>1, LocalLookAheadBounds
      <4> QED BY <1>1, <4>1 DEF Assumptions
    <3> QED BY <3>1
  <2> QED BY <1>2, <1>5, <2>1 DEF CalculateLookAhead
<1>7. CASE LocalLookAhead(r) # Infinity
  BY <1>7, LocalLookAheadBounds DEF CalculateLookAhead
<1> QED BY <1>6, <1>7

\* The next event time of a rank is no later than its pending events, unless
\* the rank is done.
LEMMA NextTsBounds ==
    ASSUME TypeOK, NEW r \in Ranks
    PROVE  /\ NextTs(r) \in 0..Infinity
           /\ ~IsLocalFinished(r) => /\ NextTs(r) \in {e.ts : e \in m_events[r]}
                                     /\ \A e \in m_events[r] : NextTs(r) <= e.ts
<1>1. Assumptions
  BY AssumptionsHold
<1>2. \A e \in m_events[r] : e.ts \in 0..MaxTs
  BY DEF TypeOK
<1>3. CASE IsLocalFinished(r)
  BY <1>1, <1>3 DEF NextTs, Assumptions
<1>4. CASE ~IsLocalFinished(r)
  <2> DEFINE S == {e.ts : e \in m_events[r]}
  <2>1. S \in SUBSET (0..MaxTs)
    BY <1>2
  <2>2. S # {}
    BY <1>4 DEF IsLocalFinished
  <2>3. NextTs(r) = Min(S)
    BY <1>4 DEF NextTs
  <2>4. \A e \in m_events[r] : e.ts \in S
    OBVIOUS
  <2>5. Min(S) \in S /\ \A x \in S : Min(S) <= x
    <3> HIDE DEF S
    <3>1. S \in SUBSET Nat
      BY <2>1
    <3> QED BY <3>1, <2>2, MinProperties
  <2>6. Min(S) \in 0..Infinity
    <3> HIDE DEF S
    <3>1. Min(S) \in 0..MaxTs
      BY <2>1, <2>5
    <3> QED BY <3>1, <1>1 DEF Assumptions
  <2> QED BY <1>4, <2>3, <2>4, <2>5, <2>6
<1> QED BY <1>3, <1>4

\* The smallest time is the next event time of some rank and no later than
\* that of any.
LEMMA SmallestTimeBounds ==
    ASSUME TypeOK
    PROVE  /\ SmallestTime \in 0..Infinity
           /\ \E r \in Ranks : SmallestTime = NextTs(r)
           /\ \A r \in Ranks : SmallestTime <= NextTs(r)
<1> DEFINE S == {NextTs(r) : r \in Ranks}
<1>1. \A r \in Ranks : NextTs(r) \in S
  OBVIOUS
<1>2. \A x \in S : x \in 0..Infinity
  BY NextTsBounds
<1>3. S \in SUBSET Nat /\ S # {}
  BY <1>2, RanksAssumption
<1>4. Min(S) \in S /\ \A x \in S : Min(S) <= x
  <2> HIDE DEF S
  <2> QED BY <1>3, MinProperties
<1> QED BY <1>1, <1>2, <1>4 DEF SmallestTime

\* ScheduleWithContext puts a message at the time it carries.
LEMMA RxTimeIsTs ==
    ASSUME TypeOK, NEW r \in Ranks, NEW m \in network
    PROVE  RxTime(r, m) = m.ts
BY DEF TypeOK, Message, RxTime

LEMMA TypeInductive == TypeOK /\ [Next]_vars => TypeOK'
<1> SUFFICES ASSUME TypeOK, [Next]_vars PROVE TypeOK'
  OBVIOUS
<1> USE AssumptionsHold DEF Assumptions
<1>1. ASSUME NEW r \in Ranks, NEW delay \in Delays, Schedule(r, delay) PROVE TypeOK'
  <2>1. delay \in Nat
    OBVIOUS
  <2>2. m_currentTs[r] + delay \in 0..MaxTs
    BY <1>1, <2>1 DEF TypeOK, Schedule
  <2>3. m_events' \in [Ranks -> SUBSET [ts : 0..MaxTs, uid : Nat]] /\ m_uid' \in [Ranks -> Nat]
    BY <1>1, <2>2 DEF TypeOK, Schedule, Insert
  <2> QED BY <1>1, <2>3 DEF TypeOK, Schedule, window, counts
<1>2. ASSUME NEW r \in Ranks, NEW c \in Channels, NEW txTime \in TxTimes, SendPacket(r, c, txTime)
      PROVE  TypeOK'
  <2>1. txTime \in Nat /\ c.delay \in Nat /\ c.ends \subseteq Ranks
    OBVIOUS
  <2>2. m_currentTs[r] + txTime + c.delay \in 0..MaxTs
    BY <1>2, <2>1 DEF TypeOK, SendPacket
  <2> DEFINE rxTime == m_currentTs[r] + txTime + c.delay
  <2>3. network' \subseteq Message
    <3>1. PICK dst \in c.ends : network' = network \cup
            {[src |-> r, n |-> g_txCount[r], dst |-> dst, ts |-> rxTime]}
      BY <1>2 DEF SendPacket
    <3>2. dst \in Ranks /\ rxTime \in 0..MaxTs /\ g_txCount[r] \in Nat
      BY <2>1, <2>2 DEF TypeOK
    <3> HIDE DEF rxTime
    <3> QED BY <3>1, <3>2 DEF TypeOK, Message
  <2> QED BY <1>2, <2>3 DEF TypeOK, SendPacket, window, counts
<1>3. ASSUME NEW r \in Ranks, Stop(r) PROVE TypeOK'
  BY <1>3 DEF TypeOK, Stop, window, counts, bounds
<1>4. ASSUME NEW r \in Ranks, NEW lookAhead \in Bounds, BoundLookAhead(r, lookAhead) PROVE TypeOK'
  <2>1. Min({m_lookAhead[r], lookAhead}) \in 0..Infinity
    <3> DEFINE S == {m_lookAhead[r], lookAhead}
    <3>0. lookAhead \in Nat /\ m_lookAhead[r] \in 0..Infinity
      BY DEF TypeOK
    <3>1. S \in SUBSET Nat /\ S # {} /\ m_lookAhead[r] \in S /\ m_lookAhead[r] \in 0..Infinity
      BY <3>0
    <3> HIDE DEF S
    <3>2. Min(S) \in S /\ Min(S) <= m_lookAhead[r]
      BY <3>1, MinProperties
    <3>3. Min(S) \in Nat
      BY <3>1, <3>2
    <3>4. Min(S) \in 0..Infinity
      BY <3>1, <3>2, <3>3
    <3> QED BY <3>4 DEF S
  <2> QED BY <1>4, <2>1 DEF TypeOK, BoundLookAhead, counts, bounds
<1>5. ASSUME NEW r \in Ranks, EventReturns(r) PROVE TypeOK'
  BY <1>5 DEF TypeOK, EventReturns, window, counts, bounds
<1>6. ASSUME Run PROVE TypeOK'
  <2>1. m_lookAhead' \in [Ranks -> 0..Infinity]
    BY <1>6, LookAheadBounds DEF Run
  <2>2. m_grantedTime' \in [Ranks -> Nat]
    BY <1>6, <2>1 DEF Run
  <2> QED BY <1>6, <2>1, <2>2 DEF TypeOK, Run, counts
<1>7. ASSUME NEW r \in Ranks, ProcessOneEvent(r) PROVE TypeOK'
  BY <1>7 DEF TypeOK, ProcessOneEvent, window, counts, bounds
<1>8. ASSUME NEW r \in Ranks, Synchronise(r) PROVE TypeOK'
  BY <1>8 DEF TypeOK, Synchronise, window, counts, bounds
<1>9. ASSUME NEW r \in Ranks, ReceiveMessage(r) PROVE TypeOK'
  <2>1. PICK m \in network : network' = network \ {m} /\ Insert(r, RxTime(r, m))
    BY <1>9 DEF ReceiveMessage
  <2>2. RxTime(r, m) \in 0..MaxTs
    BY RxTimeIsTs DEF TypeOK, Message
  <2>3. m_events' \in [Ranks -> SUBSET [ts : 0..MaxTs, uid : Nat]] /\ m_uid' \in [Ranks -> Nat]
    BY <2>1, <2>2 DEF TypeOK, Insert
  <2>4. network' \subseteq Message
    BY <2>1 DEF TypeOK
  <2>5. /\ g_rxCount' = [g_rxCount EXCEPT ![r] = @ + 1]
        /\ UNCHANGED <<m_currentTs, m_stop, m_globalFinished, window, g_txCount, pc, bounds>>
    BY <1>9 DEF ReceiveMessage
  <2> QED BY <2>3, <2>4, <2>5 DEF TypeOK, window, bounds
<1>10. ASSUME NEW r \in Ranks, ReceiveMessagesReturns(r) PROVE TypeOK'
  BY <1>10 DEF TypeOK, ReceiveMessagesReturns, window, counts, bounds
<1>11. ASSUME Allgather PROVE TypeOK'
  <2>1. m_grantedTime' \in [Ranks -> Nat]
    BY <1>11, SmallestTimeBounds DEF TypeOK, Allgather
  <2>2. m_globalFinished' \in [Ranks -> BOOLEAN]
    BY <1>11, Zenon DEF Allgather, GlobalFinished, Transients
  <2> QED BY <1>11, <2>1, <2>2 DEF TypeOK, Allgather, counts, bounds
<1>12. ASSUME NEW r \in Ranks, RunReturns(r) PROVE TypeOK'
  BY <1>12 DEF TypeOK, RunReturns, window, counts, bounds
<1>13. CASE UNCHANGED vars
  BY <1>13 DEF TypeOK, vars, window, counts, bounds
<1> QED
  BY <1>1, <1>2, <1>3, <1>4, <1>5, <1>6, <1>7, <1>8, <1>9, <1>10, <1>11, <1>12, <1>13
  DEF Next, UserCode, Loop, Terminated

\* Type correctness, for every set of ranks and channels.
THEOREM TypeCorrect == Spec => []TypeOK
<1>1. Init => TypeOK
  BY AssumptionsHold DEF Assumptions, Init, TypeOK
<1> QED BY <1>1, TypeInductive, PTL DEF Spec

-----------------------------------------------------------------------------
(* Counting messages.                                                      *)

\* What the counts of the ranks say about the network: together they differ by
\* the number of messages in flight.  Messages are told apart by the sender's
\* count, so that a new one is not in the network already.
Counting ==
    /\ IsFiniteSet(network)
    /\ IsFiniteSet(Units(g_rxCount)) /\ IsFiniteSet(Units(g_txCount))
    /\ Total(g_txCount) = Total(g_rxCount) + Cardinality(network)
    /\ \A m \in network : m.n < g_txCount[m.src]

LEMMA CountingInductive == TypeOK /\ Counting /\ [Next]_vars => Counting'
<1> SUFFICES ASSUME TypeOK, Counting, [Next]_vars PROVE Counting'
  OBVIOUS
<1>1. CASE UNCHANGED <<network, g_rxCount, g_txCount>>
  BY <1>1 DEF Counting, Total, Units
<1>2. ASSUME NEW r \in Ranks, NEW c \in Channels, NEW txTime \in TxTimes, SendPacket(r, c, txTime)
      PROVE  Counting'
  <2> DEFINE Sent(dst) == [src |-> r, n |-> g_txCount[r], dst |-> dst,
                           ts |-> m_currentTs[r] + txTime + c.delay]
  <2>0. PICK dst \in c.ends : network' = network \cup {Sent(dst)}
    BY <1>2 DEF SendPacket
  <2>1. PICK m : /\ network' = network \cup {m}
                 /\ m.src = r /\ m.n = g_txCount[r]
    <3> WITNESS Sent(dst)
    <3> QED BY <2>0
  <2>2. g_txCount' = [g_txCount EXCEPT ![r] = @ + 1] /\ g_rxCount' = g_rxCount
    BY <1>2 DEF SendPacket
  <2>3. g_txCount \in [Ranks -> Nat] /\ g_rxCount \in [Ranks -> Nat] /\ network \subseteq Message
    BY DEF TypeOK
  <2>4. m \notin network
    <3>1. SUFFICES ASSUME m \in network PROVE FALSE
      OBVIOUS
    <3>2. m.n < g_txCount[m.src] /\ g_txCount[r] \in Nat
      BY <3>1, <2>3 DEF Counting
    <3> QED BY <3>2, <2>1
  <2>5. IsFiniteSet(network') /\ Cardinality(network') = Cardinality(network) + 1
    BY <2>1, <2>4, FS_AddElement DEF Counting
  <2>6. IsFiniteSet(Units(g_txCount')) /\ Total(g_txCount') = Total(g_txCount) + 1
    BY <2>2, <2>3, TotalIncrement DEF Counting
  <2>7. \A x \in network' : x.n < g_txCount'[x.src]
    BY <2>1, <2>2, <2>3 DEF Counting, Message
  <2>8. Total(g_rxCount) \in Nat /\ Cardinality(network) \in Nat
    BY FS_CardinalityType DEF Counting, Total
  <2>9. Total(g_txCount') = Total(g_rxCount) + Cardinality(network')
    BY <2>5, <2>6, <2>8 DEF Counting
  <2> QED BY <2>2, <2>5, <2>6, <2>7, <2>9 DEF Counting, Total, Units
<1>3. ASSUME NEW r \in Ranks, ReceiveMessage(r) PROVE Counting'
  <2>1. PICK m \in network : network' = network \ {m}
    BY <1>3 DEF ReceiveMessage
  <2>2. g_rxCount' = [g_rxCount EXCEPT ![r] = @ + 1] /\ g_txCount' = g_txCount
    BY <1>3 DEF ReceiveMessage
  <2>3. g_rxCount \in [Ranks -> Nat]
    BY DEF TypeOK
  <2>4. IsFiniteSet(network') /\ Cardinality(network') = Cardinality(network) - 1
    BY <2>1, FS_RemoveElement DEF Counting
  <2>5. IsFiniteSet(Units(g_rxCount')) /\ Total(g_rxCount') = Total(g_rxCount) + 1
    BY <2>2, <2>3, TotalIncrement DEF Counting
  <2>6. Total(g_rxCount) \in Nat /\ Cardinality(network) \in Nat
    BY FS_CardinalityType DEF Counting, Total
  <2>7. Total(g_txCount) = Total(g_rxCount') + Cardinality(network')
    BY <2>4, <2>5, <2>6 DEF Counting
  <2> QED BY <2>1, <2>2, <2>4, <2>5, <2>7 DEF Counting, Total, Units
<1> QED
  BY <1>1, <1>2, <1>3
  DEF Next, UserCode, Loop, Terminated, Schedule, Stop, BoundLookAhead, EventReturns, Run,
      ProcessOneEvent, Synchronise, ReceiveMessagesReturns, Allgather, RunReturns, vars, counts

LEMMA CountingInit == Init => Counting
<1> SUFFICES ASSUME Init PROVE Counting
  OBVIOUS
<1>1. Units(g_rxCount) = {} /\ Units(g_txCount) = {} /\ network = {}
  BY DEF Init, Units
<1> QED BY <1>1, FS_EmptySet DEF Counting, Total

\* Equal counts mean an empty network.
LEMMA NoTransients == Counting /\ ~Transients => network = {}
<1> SUFFICES ASSUME Counting, ~Transients PROVE network = {}
  OBVIOUS
<1>1. Total(g_rxCount) \in Nat /\ Cardinality(network) \in Nat
  BY FS_CardinalityType DEF Counting, Total
<1>2. Cardinality(network) = 0
  BY <1>1 DEF Counting, Transients
<1> QED BY <1>2, FS_EmptySet DEF Counting

-----------------------------------------------------------------------------
(* The end of Run.                                                         *)

\* Before the first Run nothing has happened; a rank is back in the main
\* program only after the end was decided; and after that decision nothing is
\* in flight and no rank has anything left to do.
Ended ==
    /\ runs = 0 => network = {} /\ \A r \in Ranks : pc[r] = "main" /\ m_currentTs[r] = 0
    /\ \A r \in Ranks : runs # 0 /\ pc[r] = "main" => m_globalFinished[r] = TRUE
    /\ \A r, q \in Ranks : m_globalFinished[r] = TRUE =>
         /\ network = {}
         /\ m_globalFinished[q] = TRUE
         /\ pc[q] \in {"loop", "main"}
         /\ pc[q] = "loop" => m_events[q] = {} \/ m_stop[q] = TRUE

LEMMA EndedInductive == TypeOK /\ Counting /\ Ended /\ [Next]_vars => Ended'
<1> SUFFICES ASSUME TypeOK, Counting, Ended, [Next]_vars PROVE Ended'
  OBVIOUS
<1>1. ASSUME NEW r \in Ranks, NEW delay \in Delays, Schedule(r, delay) PROVE Ended'
  BY <1>1 DEF TypeOK, Ended, Schedule, InUserCode, Insert
<1>2. ASSUME NEW r \in Ranks, NEW c \in Channels, NEW txTime \in TxTimes, SendPacket(r, c, txTime)
      PROVE  Ended'
  <2>1. pc[r] = "event"
    BY <1>2 DEF SendPacket
  <2>2. runs # 0 /\ \A q \in Ranks : m_globalFinished[q] # TRUE /\ pc[q] # "main"
    BY <2>1 DEF Ended
  <2> QED BY <1>2, <2>2 DEF Ended, SendPacket
<1>3. ASSUME NEW r \in Ranks, Stop(r) PROVE Ended'
  <2>1. m_stop' = [m_stop EXCEPT ![r] = TRUE] /\ m_stop \in [Ranks -> BOOLEAN]
    BY <1>3 DEF Stop, TypeOK
  <2>2. \A q \in Ranks : m_stop[q] = TRUE => m_stop'[q] = TRUE
    BY <2>1, Zenon
  <2>3. UNCHANGED <<m_events, m_currentTs, m_globalFinished, network, pc, runs>>
    BY <1>3 DEF Stop, bounds
  <2> QED BY <2>2, <2>3 DEF Ended
<1>4. ASSUME NEW r \in Ranks, NEW lookAhead \in Bounds, BoundLookAhead(r, lookAhead) PROVE Ended'
  BY <1>4 DEF Ended, BoundLookAhead, bounds
<1>5. ASSUME NEW r \in Ranks, EventReturns(r) PROVE Ended'
  BY <1>5 DEF TypeOK, Ended, EventReturns, bounds
<1>6. ASSUME Run PROVE Ended'
  <2>1. runs' # 0 /\ \A r \in Ranks : pc'[r] = "loop"
    BY <1>6 DEF Run, TypeOK
  <2>2. \A r \in Ranks : m_globalFinished'[r] # TRUE
    BY <1>6, Zenon DEF Run
  <2> QED BY <2>1, <2>2 DEF Ended
<1>7. ASSUME NEW r \in Ranks, ProcessOneEvent(r) PROVE Ended'
  <2>1. pc[r] = "loop" /\ m_globalFinished[r] # TRUE
    BY <1>7 DEF ProcessOneEvent
  <2>2. runs # 0 /\ \A q \in Ranks : m_globalFinished[q] # TRUE /\ pc[q] # "main"
    BY <2>1 DEF Ended
  <2>3. pc' = [pc EXCEPT ![r] = "event"] /\ UNCHANGED <<runs, m_globalFinished>>
    BY <1>7 DEF ProcessOneEvent, bounds
  <2> QED BY <2>2, <2>3 DEF Ended, TypeOK
<1>8. ASSUME NEW r \in Ranks, Synchronise(r) PROVE Ended'
  <2>1. pc[r] = "loop" /\ m_globalFinished[r] # TRUE
    BY <1>8 DEF Synchronise
  <2>2. runs # 0 /\ \A q \in Ranks : m_globalFinished[q] # TRUE /\ pc[q] # "main"
    BY <2>1 DEF Ended
  <2>3. pc' = [pc EXCEPT ![r] = "receive"] /\ UNCHANGED <<runs, m_globalFinished>>
    BY <1>8 DEF Synchronise, bounds
  <2> QED BY <2>2, <2>3 DEF Ended, TypeOK
<1>9. ASSUME NEW r \in Ranks, ReceiveMessage(r) PROVE Ended'
  <2>1. pc[r] = "receive"
    BY <1>9 DEF ReceiveMessage
  <2>2. runs # 0 /\ \A q \in Ranks : m_globalFinished[q] # TRUE /\ pc[q] # "main"
    BY <2>1 DEF Ended
  <2>3. UNCHANGED <<pc, runs, m_globalFinished>>
    BY <1>9 DEF ReceiveMessage, bounds
  <2> QED BY <2>2, <2>3 DEF Ended
<1>10. ASSUME NEW r \in Ranks, ReceiveMessagesReturns(r) PROVE Ended'
  <2>1. pc[r] = "receive"
    BY <1>10 DEF ReceiveMessagesReturns
  <2>2. runs # 0 /\ \A q \in Ranks : m_globalFinished[q] # TRUE /\ pc[q] # "main"
    BY <2>1 DEF Ended
  <2>3. pc' = [pc EXCEPT ![r] = "gather"] /\ UNCHANGED <<runs, m_globalFinished>>
    BY <1>10 DEF ReceiveMessagesReturns, bounds
  <2> QED BY <2>2, <2>3 DEF Ended, TypeOK
<1>11. ASSUME Allgather PROVE Ended'
  <2>1. \A q \in Ranks : pc[q] = "gather" /\ pc'[q] = "loop"
    BY <1>11 DEF Allgather
  <2>2. runs' # 0
    BY <1>11, <2>1, RanksAssumption DEF Ended, Allgather, bounds
  <2>3. UNCHANGED <<network, m_events, m_stop>>
    BY <1>11 DEF Allgather
  <2>4. CASE GlobalFinished
    <3>1. \A q \in Ranks : m_globalFinished'[q] = TRUE
      BY <1>11, <2>4, Zenon DEF Allgather
    <3>2. network = {}
      BY <2>4, NoTransients DEF GlobalFinished
    <3>3. \A q \in Ranks : m_events[q] = {} \/ m_stop[q] = TRUE
      BY <2>4, Zenon DEF GlobalFinished, IsLocalFinished, TypeOK
    <3> QED BY <2>1, <2>2, <2>3, <3>1, <3>2, <3>3 DEF Ended
  <2>5. CASE ~GlobalFinished
    <3>1. \A q \in Ranks : m_globalFinished'[q] # TRUE
      BY <1>11, <2>5, Zenon DEF Allgather
    <3> QED BY <2>1, <2>2, <3>1 DEF Ended
  <2> QED BY <2>4, <2>5
<1>12. ASSUME NEW r \in Ranks, RunReturns(r) PROVE Ended'
  <2>1. pc[r] = "loop" /\ m_globalFinished[r] = TRUE
    BY <1>12, Zenon DEF RunReturns, TypeOK
  <2>2. pc' = [pc EXCEPT ![r] = "main"]
    BY <1>12 DEF RunReturns
  <2>3. UNCHANGED <<runs, m_globalFinished, network, m_events, m_stop, m_currentTs>>
    BY <1>12 DEF RunReturns, bounds
  <2> QED BY <2>1, <2>2, <2>3 DEF Ended, TypeOK
<1>13. CASE UNCHANGED vars
  BY <1>13 DEF Ended, vars, bounds
<1> QED
  BY <1>1, <1>2, <1>3, <1>4, <1>5, <1>6, <1>7, <1>8, <1>9, <1>10, <1>11, <1>12, <1>13
  DEF Next, UserCode, Loop, Terminated

LEMMA EndedInvariant == Spec => [](TypeOK /\ Counting /\ Ended)
<1>1. Init => TypeOK
  BY AssumptionsHold DEF Assumptions, Init, TypeOK
<1>2. Init => Ended
  BY DEF Init, Ended
<1> QED BY <1>1, <1>2, CountingInit, TypeInductive, CountingInductive, EndedInductive, PTL DEF Spec

\* Every rank that leaves Run leaves no message in flight and no rank with an
\* event to run, however often Run is called.
THEOREM EndIsGlobal == Spec => []NothingLost
<1>1. TypeOK /\ Ended => NothingLost
  <2> SUFFICES ASSUME TypeOK, Ended, NEW r \in Ranks, pc[r] = "loop", m_globalFinished[r]
               PROVE  /\ network = {}
                      /\ \A q \in Ranks : pc[q] # "main" => IsLocalFinished(q)
    BY DEF NothingLost
  <2>1. m_globalFinished[r] = TRUE
    BY Zenon DEF TypeOK
  <2>2. network = {} /\ \A q \in Ranks : pc[q] # "main" => m_events[q] = {} \/ m_stop[q] = TRUE
    BY <2>1 DEF Ended
  <2> QED BY <2>2, Zenon DEF IsLocalFinished
<1> QED BY <1>1, EndedInvariant, PTL

\* Equal message counts are a sound test for transient messages: the windows
\* move only when nothing is in flight.
THEOREM WindowQuiet == Spec => WindowMovesWhenQuiet
<1>1. ASSUME TypeOK, Counting, Ended, [Next]_vars
      PROVE  [m_grantedTime' # m_grantedTime => network = {}]_vars
  <2>1. CASE UNCHANGED m_grantedTime
    BY <2>1
  <2>2. CASE Run
    <3>1. PICK r \in Ranks : pc[r] = "main"
      BY <2>2, RanksAssumption DEF Run
    <3> QED BY <1>1, <3>1 DEF Ended
  <2>3. CASE Allgather
    <3>1. CASE Transients
      <4>1. m_grantedTime' = [r \in Ranks |-> m_grantedTime[r]]
        BY <2>3, <3>1 DEF Allgather
      <4> QED BY <1>1, <4>1 DEF TypeOK
    <3>2. CASE ~Transients
      BY <1>1, <3>2, NoTransients
    <3> QED BY <3>1, <3>2
  <2> QED
    BY <1>1, <2>1, <2>2, <2>3
    DEF Next, UserCode, Loop, Terminated, Schedule, SendPacket, Stop, BoundLookAhead, EventReturns,
        ProcessOneEvent, Synchronise, ReceiveMessage, ReceiveMessagesReturns, RunReturns, vars, window
<1> QED BY <1>1, EndedInvariant, PTL DEF WindowMovesWhenQuiet, Spec

-----------------------------------------------------------------------------
(* Causality.                                                              *)

Linked(r) == \E c \in Channels : r \in c.ends

\* The window of all ranks begins at time s: no rank will run an event before
\* s, so nothing sent from now on is received before s plus the delay of its
\* channel, which is where the window of the receiver ends at the latest.
WindowFrom(s) ==
    /\ s <= Infinity
    /\ \A c \in Channels : \A r \in c.ends : m_grantedTime[r] <= s + c.delay
    /\ \A r \in Ranks : Linked(r) /\ pc[r] # "main" => m_grantedTime[r] = s + m_lookAhead[r]
    /\ \A r \in Ranks : pc[r] = "event" => s <= m_currentTs[r]
    /\ \A r \in Ranks : pc[r] # "main" /\ m_stop[r] # TRUE => \A e \in m_events[r] : s <= e.ts

\* The inductive invariant: after Run has begun there is such an s, clocks are
\* inside the windows and messages in flight beyond them.
Conservative ==
    /\ \A r \in Ranks : \A e \in m_events[r] : m_currentTs[r] <= e.ts
    /\ runs # 0 =>
         /\ \E s \in Nat : WindowFrom(s)
         /\ \A c \in Channels : \A r \in c.ends : m_lookAhead[r] <= c.delay
         /\ \A r \in Ranks : Linked(r) => m_currentTs[r] <= m_grantedTime[r]
         /\ \A m \in network : Linked(m.dst) /\ m_grantedTime[m.dst] <= m.ts

LEMMA ConservativeInductive ==
    ASSUME MaxRuns = 1
    PROVE  TypeOK /\ Counting /\ Ended /\ Conservative /\ [Next]_vars => Conservative'
<1> SUFFICES ASSUME TypeOK, Counting, Ended, Conservative, [Next]_vars PROVE Conservative'
  OBVIOUS
<1> USE AssumptionsHold DEF Assumptions
<1>1. ASSUME NEW r \in Ranks, NEW delay \in Delays, Schedule(r, delay) PROVE Conservative'
  <2> DEFINE t == m_currentTs[r] + delay
  <2>0. delay \in Nat /\ m_currentTs[r] \in 0..MaxTs
    BY DEF TypeOK
  <2>1. delay \in Nat /\ m_currentTs[r] \in Nat /\ t \in Nat /\ m_currentTs[r] <= t
    BY <2>0
  <2>2. /\ \A q \in Ranks : q # r => m_events'[q] = m_events[q]
        /\ m_events'[r] = m_events[r] \cup {[ts |-> t, uid |-> m_uid[r]]}
    BY <1>1 DEF Schedule, Insert, TypeOK
  <2>3. UNCHANGED <<m_currentTs, m_stop, m_lookAhead, m_grantedTime, network, pc, runs>>
    BY <1>1 DEF Schedule, window
  <2> HIDE DEF t
  <2>4. \A q \in Ranks : \A e \in m_events'[q] : m_currentTs[q] <= e.ts
    BY <2>1, <2>2 DEF Conservative
  <2>5. ASSUME NEW s \in Nat, WindowFrom(s) PROVE WindowFrom(s)'
    <3>1. pc[r] = "event" \/ pc[r] = "main"
      BY <1>1 DEF Schedule, InUserCode
    <3>2. pc[r] # "main" => s <= t
      BY <2>1, <2>5, <3>1 DEF WindowFrom
    <3>3. \A q \in Ranks : \A e \in m_events'[q] : e \in m_events[q] \/ (q = r /\ e.ts = t)
      BY <2>2
    <3>4. \A q \in Ranks : pc[q] # "main" /\ m_stop[q] # TRUE => \A e \in m_events'[q] : s <= e.ts
      BY <2>5, <3>2, <3>3 DEF WindowFrom
    <3> QED BY <2>3, <2>5, <3>4 DEF WindowFrom
  <2> QED BY <2>3, <2>4, <2>5 DEF Conservative
<1>2. ASSUME NEW r \in Ranks, NEW c \in Channels, NEW txTime \in TxTimes, SendPacket(r, c, txTime)
      PROVE  Conservative'
  <2> DEFINE t == m_currentTs[r] + txTime + c.delay
  <2>1. txTime \in Nat /\ c.delay \in Nat /\ m_currentTs[r] \in Nat
    BY DEF TypeOK
  <2>2. pc[r] = "event" /\ UNCHANGED <<m_events, m_currentTs, m_stop, m_lookAhead, m_grantedTime, pc, runs>>
    BY <1>2 DEF SendPacket, window
  <2>3. PICK dst \in c.ends : network' = network \cup
            {[src |-> r, n |-> g_txCount[r], dst |-> dst, ts |-> t]}
    BY <1>2 DEF SendPacket
  <2>4. runs # 0
    BY <2>2 DEF Ended
  <2>5. PICK s \in Nat : WindowFrom(s)
    BY <2>4 DEF Conservative
  <2>6. m_grantedTime[dst] <= s + c.delay /\ s <= m_currentTs[r] /\ m_grantedTime[dst] \in Nat
    BY <2>2, <2>5 DEF WindowFrom, TypeOK
  <2>7. Linked(dst) /\ m_grantedTime[dst] <= t
    BY <2>1, <2>6 DEF Linked
  <2>8. WindowFrom(s)'
    BY <2>2, <2>5 DEF WindowFrom
  <2> HIDE DEF t
  <2> QED BY <2>2, <2>3, <2>4, <2>7, <2>8 DEF Conservative
<1>3. ASSUME NEW r \in Ranks, Stop(r) PROVE Conservative'
  <2>1. m_stop' = [m_stop EXCEPT ![r] = TRUE] /\ m_stop \in [Ranks -> BOOLEAN]
    BY <1>3 DEF Stop, TypeOK
  <2>2. \A q \in Ranks : m_stop'[q] # TRUE => m_stop[q] # TRUE
    BY <2>1, Zenon
  <2>3. UNCHANGED <<m_events, m_currentTs, m_lookAhead, m_grantedTime, network, pc, runs>>
    BY <1>3 DEF Stop, window, bounds
  <2> QED BY <2>2, <2>3 DEF Conservative, WindowFrom
<1>4. ASSUME NEW r \in Ranks, NEW lookAhead \in Bounds, BoundLookAhead(r, lookAhead) PROVE Conservative'
  <2>1. pc[r] = "main" /\ UNCHANGED <<m_events, m_currentTs, m_stop, m_grantedTime, network, pc, runs>>
    BY <1>4 DEF BoundLookAhead, bounds
  <2>2. \A q \in Ranks : m_lookAhead'[q] <= m_lookAhead[q] /\ (q # r => m_lookAhead'[q] = m_lookAhead[q])
    <3> DEFINE S == {m_lookAhead[r], lookAhead}
    <3>1. S \in SUBSET Nat /\ S # {} /\ m_lookAhead[r] \in S
      BY DEF TypeOK
    <3>2. m_lookAhead' = [m_lookAhead EXCEPT ![r] = Min(S)]
      BY <1>4 DEF BoundLookAhead
    <3> HIDE DEF S
    <3>3. Min(S) <= m_lookAhead[r]
      BY <3>1, MinProperties
    <3> QED BY <3>2, <3>3 DEF TypeOK
  <2>3. m_lookAhead' \in [Ranks -> 0..Infinity]
    BY TypeInductive DEF TypeOK
  <2>4. \A c \in Channels : \A q \in c.ends : m_lookAhead[q] <= c.delay => m_lookAhead'[q] <= c.delay
    BY <2>2, <2>3 DEF TypeOK
  <2>5. ASSUME NEW s \in Nat, WindowFrom(s) PROVE WindowFrom(s)'
    BY <2>1, <2>2, <2>5 DEF WindowFrom
  <2> QED BY <2>1, <2>4, <2>5 DEF Conservative
<1>5. ASSUME NEW r \in Ranks, EventReturns(r) PROVE Conservative'
  <2>1. pc[r] = "event" /\ pc' = [pc EXCEPT ![r] = "loop"]
    BY <1>5 DEF EventReturns
  <2>2. UNCHANGED <<m_events, m_currentTs, m_stop, m_lookAhead, m_grantedTime, network, runs>>
    BY <1>5 DEF EventReturns, window, bounds
  <2> QED BY <2>1, <2>2 DEF Conservative, WindowFrom, TypeOK
<1>6. ASSUME Run PROVE Conservative'
  <2>1. runs = 0 /\ runs' # 0
    BY <1>6 DEF Run, TypeOK
  <2>2. network = {} /\ \A r \in Ranks : m_currentTs[r] = 0
    BY <2>1 DEF Ended
  <2>3. /\ m_lookAhead' = [r \in Ranks |-> CalculateLookAhead(r)]
        /\ m_grantedTime' = m_lookAhead'
        /\ UNCHANGED <<m_events, m_currentTs, network>>
        /\ \A r \in Ranks : pc'[r] = "loop"
    BY <1>6 DEF Run
  <2>4. \A r \in Ranks : m_lookAhead'[r] \in 0..Infinity
    BY <2>3, LookAheadBounds
  <2>5. \A c \in Channels : \A r \in c.ends : m_lookAhead'[r] <= c.delay
    BY <2>3, LookAheadBounds
  <2>6. \A r \in Ranks : \A e \in m_events[r] : 0 <= e.ts
    BY DEF TypeOK
  <2>7. WindowFrom(0)'
    <3>1. \A c \in Channels : \A r \in c.ends : m_grantedTime'[r] <= 0 + c.delay
      BY <2>3, <2>5
    <3>2. \A r \in Ranks : m_grantedTime'[r] = 0 + m_lookAhead'[r]
      BY <2>3, <2>4
    <3>3. \A r \in Ranks : pc'[r] # "event" /\ \A e \in m_events'[r] : 0 <= e.ts
      BY <2>3, <2>6
    <3>4. 0 <= Infinity
      OBVIOUS
    <3> QED BY <3>1, <3>2, <3>3, <3>4, Zenon DEF WindowFrom
  <2>8. \A r \in Ranks : m_currentTs'[r] <= m_grantedTime'[r]
    BY <2>2, <2>3, <2>4
  <2> QED BY <2>2, <2>3, <2>5, <2>7, <2>8 DEF Conservative
<1>7. ASSUME NEW r \in Ranks, ProcessOneEvent(r) PROVE Conservative'
  <2>1. PICK next \in m_events[r] : /\ IsEarliest(next, m_events[r])
                                    /\ m_events' = [m_events EXCEPT ![r] = @ \ {next}]
                                    /\ m_currentTs' = [m_currentTs EXCEPT ![r] = next.ts]
    BY <1>7 DEF ProcessOneEvent
  <2>2. /\ pc[r] = "loop" /\ pc' = [pc EXCEPT ![r] = "event"]
        /\ UNCHANGED <<m_stop, m_lookAhead, m_grantedTime, network, runs>>
    BY <1>7 DEF ProcessOneEvent, window, bounds
  <2>3. runs # 0
    BY <2>2 DEF Ended
  <2>4. PICK s \in Nat : WindowFrom(s)
    BY <2>3 DEF Conservative
  <2>5. ~IsLocalFinished(r) /\ ~(NextTs(r) > m_grantedTime[r])
    BY <1>7 DEF ProcessOneEvent, MustSynchronise
  <2>6. next.ts \in Nat /\ \A e \in m_events[r] : e.ts \in Nat /\ next.ts <= e.ts
    BY <2>1 DEF IsEarliest, Less, TypeOK
  <2>7. m_stop[r] # TRUE
    BY <2>5, Zenon DEF IsLocalFinished
  <2>8. s <= next.ts
    BY <2>2, <2>4, <2>7 DEF WindowFrom
  <2>9. next.ts <= m_grantedTime[r]
    <3>1. NextTs(r) \in {e.ts : e \in m_events[r]} /\ m_grantedTime[r] \in Nat
      BY <2>5, NextTsBounds DEF TypeOK
    <3>2. PICK e \in m_events[r] : NextTs(r) = e.ts
      BY <3>1
    <3> QED BY <2>5, <2>6, <3>1, <3>2
  <2>10. \A q \in Ranks : \A e \in m_events'[q] : m_currentTs'[q] <= e.ts
    BY <2>1, <2>6 DEF Conservative, TypeOK
  <2>11. WindowFrom(s)'
    BY <2>1, <2>2, <2>4, <2>8 DEF WindowFrom, TypeOK
  <2>12. \A q \in Ranks : Linked(q) => m_currentTs'[q] <= m_grantedTime[q]
    BY <2>1, <2>3, <2>9 DEF Conservative, TypeOK
  <2> QED BY <2>2, <2>3, <2>10, <2>11, <2>12 DEF Conservative
<1>8. ASSUME NEW r \in Ranks, Synchronise(r) PROVE Conservative'
  <2>1. pc[r] = "loop" /\ pc' = [pc EXCEPT ![r] = "receive"]
    BY <1>8 DEF Synchronise
  <2>2. UNCHANGED <<m_events, m_currentTs, m_stop, m_lookAhead, m_grantedTime, network, runs>>
    BY <1>8 DEF Synchronise, window, bounds
  <2> QED BY <2>1, <2>2 DEF Conservative, WindowFrom, TypeOK
<1>9. ASSUME NEW r \in Ranks, ReceiveMessage(r) PROVE Conservative'
  <2>1. PICK m \in network : m.dst = r /\ network' = network \ {m} /\ Insert(r, RxTime(r, m))
    BY <1>9 DEF ReceiveMessage
  <2>2. pc[r] = "receive" /\ UNCHANGED <<m_currentTs, m_stop, m_lookAhead, m_grantedTime, pc, runs>>
    BY <1>9 DEF ReceiveMessage, window, bounds
  <2>3. runs # 0
    BY <2>2 DEF Ended
  <2>4. PICK s \in Nat : WindowFrom(s)
    BY <2>3 DEF Conservative
  <2>5. /\ \A q \in Ranks : q # r => m_events'[q] = m_events[q]
        /\ m_events'[r] = m_events[r] \cup {[ts |-> m.ts, uid |-> m_uid[r]]}
    BY <2>1, RxTimeIsTs DEF Insert, TypeOK
  <2>6. m.ts \in Nat /\ m_grantedTime[r] \in Nat /\ m_currentTs[r] \in Nat /\ m_lookAhead[r] \in Nat
    BY DEF TypeOK, Message
  <2>7. Linked(r) /\ m_grantedTime[r] <= m.ts /\ m_currentTs[r] <= m_grantedTime[r]
    BY <2>1, <2>3 DEF Conservative
  <2>8. m_grantedTime[r] = s + m_lookAhead[r]
    BY <2>2, <2>4, <2>7 DEF WindowFrom
  <2>9. s <= m.ts /\ m_currentTs[r] <= m.ts
    BY <2>6, <2>7, <2>8
  <2>10. \A q \in Ranks : \A e \in m_events'[q] : m_currentTs[q] <= e.ts
    BY <2>5, <2>9 DEF Conservative
  <2>11. WindowFrom(s)'
    <3>1. \A q \in Ranks : \A e \in m_events'[q] : e \in m_events[q] \/ (q = r /\ e.ts = m.ts)
      BY <2>5
    <3>2. \A q \in Ranks : pc[q] # "main" /\ m_stop[q] # TRUE => \A e \in m_events'[q] : s <= e.ts
      BY <2>4, <2>9, <3>1 DEF WindowFrom
    <3> QED BY <2>2, <2>4, <3>2 DEF WindowFrom
  <2> QED BY <2>1, <2>2, <2>3, <2>10, <2>11 DEF Conservative
<1>10. ASSUME NEW r \in Ranks, ReceiveMessagesReturns(r) PROVE Conservative'
  <2>1. pc[r] = "receive" /\ pc' = [pc EXCEPT ![r] = "gather"]
    BY <1>10 DEF ReceiveMessagesReturns
  <2>2. UNCHANGED <<m_events, m_currentTs, m_stop, m_lookAhead, m_grantedTime, network, runs>>
    BY <1>10 DEF ReceiveMessagesReturns, window, bounds
  <2> QED BY <2>1, <2>2 DEF Conservative, WindowFrom, TypeOK
<1>11. ASSUME Allgather PROVE Conservative'
  <2>1. \A r \in Ranks : pc[r] = "gather" /\ pc'[r] = "loop"
    BY <1>11 DEF Allgather
  <2>2. UNCHANGED <<m_events, m_currentTs, m_stop, m_lookAhead, network, runs>>
    BY <1>11 DEF Allgather, bounds
  <2>3. runs # 0
    BY <2>1 DEF Ended
  <2>4. PICK s \in Nat : WindowFrom(s)
    BY <2>3 DEF Conservative
  <2>5. CASE Transients
    <3>1. m_grantedTime' = m_grantedTime
      BY <1>11, <2>5 DEF Allgather, TypeOK
    <3> QED BY <2>1, <2>2, <2>4, <3>1 DEF Conservative, WindowFrom
  <2>6. CASE ~Transients
    <3>1. network = {}
      BY <2>6, NoTransients
    <3>2. \A r \in Ranks : m_grantedTime'[r] = IF m_lookAhead[r] = Infinity THEN Infinity
                                               ELSE SmallestTime + m_lookAhead[r]
      BY <1>11, <2>6 DEF Allgather
    <3>3. \A c \in Channels : \A r \in c.ends : r \in Ranks /\ m_lookAhead[r] \in Nat
                                                /\ m_lookAhead[r] <= c.delay
      BY <2>3 DEF Conservative, TypeOK
    <3>4. \A r \in Ranks : Linked(r) => m_lookAhead[r] # Infinity
      BY <3>3 DEF Linked
    <3>5. \A r \in Ranks : Linked(r) => m_grantedTime'[r] = SmallestTime + m_lookAhead[r]
      BY <3>2, <3>4
    <3>6. SmallestTime \in Nat /\ SmallestTime <= Infinity
      BY SmallestTimeBounds
    <3>7. s <= SmallestTime
      <4>1. PICK r \in Ranks : SmallestTime = NextTs(r)
        BY SmallestTimeBounds
      <4>2. CASE IsLocalFinished(r)
        BY <2>4, <4>1, <4>2 DEF NextTs, WindowFrom
      <4>3. CASE ~IsLocalFinished(r)
        <5>1. PICK e \in m_events[r] : NextTs(r) = e.ts
          BY <4>3, NextTsBounds
        <5>2. m_stop[r] # TRUE
          BY <4>3, Zenon DEF IsLocalFinished
        <5> QED BY <2>1, <2>4, <4>1, <5>1, <5>2 DEF WindowFrom
      <4> QED BY <4>2, <4>3
    <3>8. \A r \in Ranks : m_stop[r] # TRUE => \A e \in m_events[r] : SmallestTime <= e.ts
      <4>1. SUFFICES ASSUME NEW r \in Ranks, m_stop[r] # TRUE, NEW e \in m_events[r]
                     PROVE  SmallestTime <= e.ts
        OBVIOUS
      <4>2. m_events[r] # {} /\ m_stop[r] = FALSE
        BY <4>1 DEF TypeOK
      <4>3. ~IsLocalFinished(r)
        BY <4>2, Zenon DEF IsLocalFinished
      <4>4. NextTs(r) <= e.ts /\ NextTs(r) \in Nat /\ e.ts \in Nat
        BY <4>3, NextTsBounds DEF TypeOK
      <4>5. SmallestTime <= NextTs(r)
        BY SmallestTimeBounds
      <4> QED BY <3>6, <4>4, <4>5
    <3>9. \A c \in Channels : \A r \in c.ends : m_grantedTime'[r] <= SmallestTime + c.delay
      BY <3>3, <3>5, <3>6 DEF Linked
    <3>10. WindowFrom(SmallestTime)'
      <4> DEFINE s2 == SmallestTime
      <4>1. /\ s2 <= Infinity
            /\ \A c \in Channels : \A r \in c.ends : m_grantedTime'[r] <= s2 + c.delay
            /\ \A r \in Ranks : Linked(r) => m_grantedTime'[r] = s2 + m_lookAhead'[r]
            /\ \A r \in Ranks : pc'[r] # "event"
            /\ \A r \in Ranks : m_stop'[r] # TRUE => \A e \in m_events'[r] : s2 <= e.ts
        BY <2>1, <2>2, <3>5, <3>6, <3>8, <3>9
      <4>2. SmallestTime' = s2
        BY <2>2 DEF SmallestTime, NextTs, IsLocalFinished
      <4> HIDE DEF s2
      <4> QED BY <4>1, <4>2 DEF WindowFrom
    <3>11. SmallestTime' = SmallestTime
      BY <2>2 DEF SmallestTime, NextTs, IsLocalFinished
    <3>12. \A r \in Ranks : Linked(r) => m_currentTs[r] <= m_grantedTime'[r]
      <4>1. SUFFICES ASSUME NEW r \in Ranks, Linked(r) PROVE m_currentTs[r] <= m_grantedTime'[r]
        OBVIOUS
      <4>2. m_currentTs[r] <= s + m_lookAhead[r]
        BY <2>1, <2>3, <2>4, <4>1 DEF Conservative, WindowFrom
      <4>3. m_currentTs[r] \in Nat /\ m_lookAhead[r] \in Nat
        BY DEF TypeOK
      <4> QED BY <3>5, <3>6, <3>7, <4>1, <4>2, <4>3
    <3>13. SmallestTime' \in Nat
      BY <3>6, <3>11
    <3> QED BY <2>2, <2>3, <3>1, <3>3, <3>10, <3>12, <3>13 DEF Conservative
  <2> QED BY <2>5, <2>6
<1>12. ASSUME NEW r \in Ranks, RunReturns(r) PROVE Conservative'
  <2>1. pc[r] = "loop" /\ pc' = [pc EXCEPT ![r] = "main"]
    BY <1>12 DEF RunReturns
  <2>2. UNCHANGED <<m_events, m_currentTs, m_stop, m_lookAhead, m_grantedTime, network, runs>>
    BY <1>12 DEF RunReturns, window, bounds
  <2> QED BY <2>1, <2>2 DEF Conservative, WindowFrom, TypeOK
<1>13. CASE UNCHANGED vars
  BY <1>13 DEF Conservative, WindowFrom, vars, window, bounds
<1> QED
  BY <1>1, <1>2, <1>3, <1>4, <1>5, <1>6, <1>7, <1>8, <1>9, <1>10, <1>11, <1>12, <1>13
  DEF Next, UserCode, Loop, Terminated

\* In one Run, for every number of ranks, every topology and every pattern of
\* message delivery, no rank overtakes a message that is on its way to it.
THEOREM WindowIsConservative == ASSUME MaxRuns = 1 PROVE Spec => []Causality
<1>1. Init => Conservative
  BY DEF Init, Conservative
<1>2. TypeOK /\ Ended /\ Conservative => Causality
  <2> SUFFICES ASSUME TypeOK, Ended, Conservative PROVE Causality
    OBVIOUS
  <2>1. ASSUME NEW m \in network PROVE m_currentTs[m.dst] <= m.ts
    <3>1. runs # 0
      BY <2>1 DEF Ended
    <3>2. m.dst \in Ranks /\ m.ts \in Nat
      BY DEF TypeOK, Message
    <3>3. m_currentTs[m.dst] <= m_grantedTime[m.dst] /\ m_grantedTime[m.dst] <= m.ts
      BY <3>1, <3>2 DEF Conservative
    <3>4. m_currentTs[m.dst] \in Nat /\ m_grantedTime[m.dst] \in Nat
      BY <3>2 DEF TypeOK
    <3> QED BY <3>2, <3>3, <3>4
  <2> QED BY <2>1 DEF Causality, Conservative
<1> QED BY <1>1, <1>2, EndedInvariant, ConservativeInductive, PTL DEF Spec

-----------------------------------------------------------------------------
(* Granted times.                                                          *)

\* A lookahead is missing, or can be added to the time of any event.
Addable(lookAhead) == lookAhead = Infinity \/ MaxTs + lookAhead <= Infinity

LEMMA LookAheadAddable ==
    ASSUME \A c \in Channels : MaxTs + c.delay <= Infinity,
           TypeOK, \A r \in Ranks : Addable(m_lookAhead[r]), NEW r \in Ranks
    PROVE  Addable(CalculateLookAhead(r))
<1>a. MaxTs \in Nat /\ Infinity \in Nat /\ MaxTs < Infinity /\ Ranks # {}
  BY AssumptionsHold DEF Assumptions
<1>1. ASSUME NEW q \in Ranks
      PROVE  LocalLookAhead(q) \in 0..Infinity /\ Addable(LocalLookAhead(q))
  <2>1. CASE Cardinality(Ranks) <= 1
    BY <1>a, <2>1 DEF LocalLookAhead, Addable
  <2>2. CASE ~(Cardinality(Ranks) <= 1)
    <3> DEFINE S == RemoteDelays(q) \cup {m_lookAhead[q]}
    <3>1. S \in SUBSET Nat /\ S # {}
      BY AssumptionsHold DEF RemoteDelays, Assumptions, TypeOK
    <3>2. \A x \in S : Addable(x)
      BY DEF RemoteDelays, Addable
    <3>3. LocalLookAhead(q) = Min(S)
      BY <2>2 DEF LocalLookAhead
    <3> HIDE DEF S
    <3>4. Min(S) \in S
      BY <3>1, MinProperties
    <3>5. LocalLookAhead(q) \in 0..Infinity
      BY LocalLookAheadBounds
    <3> QED BY <3>2, <3>3, <3>4, <3>5
  <2> QED BY <2>1, <2>2
<1> DEFINE S == {IF LocalLookAhead(q) = Infinity THEN 0 ELSE LocalLookAhead(q) : q \in Ranks}
<1>2. S \in SUBSET (0..Infinity) /\ S # {}
  BY <1>a, <1>1
<1>3. \A x \in S : MaxTs + x <= Infinity
  BY <1>a, <1>1 DEF Addable
<1>4. MaxLookAhead = Max(S)
  BY DEF MaxLookAhead
<1>5. Addable(MaxLookAhead)
  <2> HIDE DEF S
  <2>1. Max(S) \in S
    BY <1>a, <1>2, MaxProperties
  <2> QED BY <1>3, <1>4, <2>1 DEF Addable
<1> QED BY <1>1, <1>5 DEF CalculateLookAhead

\* Lookaheads can be added to times, and until the end is decided granted times are
\* times.
InRange ==
    /\ \A r \in Ranks : Addable(m_lookAhead[r])
    /\ \A r \in Ranks : pc[r] # "main" /\ m_globalFinished[r] # TRUE =>
         m_grantedTime[r] <= Infinity

LEMMA InRangeInductive ==
    ASSUME \A d \in Bounds \cup {c.delay : c \in Channels} : MaxTs + d <= Infinity,
           TypeOK, Counting, Ended, InRange, [Next]_vars
    PROVE  InRange'
<1>a. MaxTs \in Nat /\ Infinity \in Nat /\ MaxTs < Infinity /\ Bounds \subseteq Nat
  BY AssumptionsHold DEF Assumptions
<1>b. \A c \in Channels : MaxTs + c.delay <= Infinity
  OBVIOUS
<1>1. ASSUME UNCHANGED <<window, m_globalFinished>>,
             \A r \in Ranks : pc'[r] # "main" => pc[r] # "main"
      PROVE  InRange'
  BY <1>1 DEF InRange, window
<1>2. ASSUME NEW r \in Ranks, NEW lookAhead \in Bounds, BoundLookAhead(r, lookAhead)
      PROVE  InRange'
  <2> DEFINE la == Min({m_lookAhead[r], lookAhead})
  <2>1. la \in {m_lookAhead[r], lookAhead}
    <3>1. {m_lookAhead[r], lookAhead} \in SUBSET Nat
      BY <1>a DEF TypeOK
    <3> QED BY <3>1, MinProperties
  <2>2. Addable(la)
    BY <2>1 DEF InRange, Addable
  <2>3. /\ m_lookAhead' = [m_lookAhead EXCEPT ![r] = la]
        /\ UNCHANGED <<m_globalFinished, m_grantedTime, pc>>
    BY <1>2 DEF BoundLookAhead
  <2> HIDE DEF la
  <2>4. \A q \in Ranks : m_lookAhead'[q] = IF q = r THEN la ELSE m_lookAhead[q]
    BY <2>3 DEF TypeOK
  <2> QED BY <2>2, <2>3, <2>4 DEF InRange, Addable
<1>3. CASE Run
  <2>1. ASSUME NEW r \in Ranks
        PROVE  Addable(m_lookAhead'[r]) /\ m_grantedTime'[r] <= Infinity
    <3>1. m_lookAhead'[r] = CalculateLookAhead(r) /\ m_grantedTime'[r] = CalculateLookAhead(r)
      BY <1>3 DEF Run
    <3>2. Addable(CalculateLookAhead(r)) /\ CalculateLookAhead(r) \in 0..Infinity
      BY <1>b, LookAheadAddable, LookAheadBounds DEF InRange
    <3> QED BY <3>1, <3>2
  <2> QED BY <2>1 DEF InRange, Addable
<1>4. CASE Allgather
  <2>1. \A r \in Ranks : pc[r] = "gather"
    BY <1>4 DEF Allgather
  <2>2. UNCHANGED m_lookAhead
    BY <1>4 DEF Allgather
  <2>3. ASSUME NEW r \in Ranks, m_globalFinished'[r] # TRUE
        PROVE  m_grantedTime'[r] <= Infinity
    <3>1. CASE Transients
      <4>1. m_grantedTime'[r] = m_grantedTime[r]
        BY <1>4, <3>1 DEF Allgather
      <4>2. m_globalFinished[r] # TRUE
        BY <2>1 DEF Ended
      <4> QED BY <2>1, <4>1, <4>2 DEF InRange
    <3>2. CASE ~Transients /\ m_lookAhead[r] = Infinity
      BY <1>4, <1>a, <3>2 DEF Allgather
    <3>3. CASE ~Transients /\ m_lookAhead[r] # Infinity
      <4>1. m_grantedTime'[r] = SmallestTime + m_lookAhead[r]
        BY <1>4, <3>3 DEF Allgather
      <4>2. ~GlobalFinished
        BY <1>4, <2>3, Zenon DEF Allgather
      <4>3. PICK q \in Ranks : ~IsLocalFinished(q)
        BY <3>3, <4>2 DEF GlobalFinished
      <4>4. SmallestTime <= NextTs(q) /\ SmallestTime \in 0..Infinity /\ NextTs(q) \in 0..Infinity
        BY SmallestTimeBounds, NextTsBounds
      <4>5. PICK e \in m_events[q] : NextTs(q) = e.ts
        BY <4>3, NextTsBounds
      <4>6. e.ts \in 0..MaxTs
        BY DEF TypeOK
      <4>7. m_lookAhead[r] \in 0..Infinity /\ MaxTs + m_lookAhead[r] <= Infinity
        BY <3>3 DEF TypeOK, InRange, Addable
      <4> QED BY <1>a, <4>1, <4>4, <4>5, <4>6, <4>7
    <3> QED BY <3>1, <3>2, <3>3
  <2> QED BY <2>2, <2>3 DEF InRange, Addable
<1>5. ASSUME NEW r \in Ranks,
             \/ ProcessOneEvent(r) \/ Synchronise(r) \/ ReceiveMessagesReturns(r)
             \/ EventReturns(r) \/ RunReturns(r)
      PROVE  InRange'
  <2>1. UNCHANGED <<window, m_globalFinished>>
    BY <1>5 DEF ProcessOneEvent, Synchronise, ReceiveMessagesReturns, EventReturns, RunReturns
  <2>2. \A q \in Ranks : pc'[q] # "main" => pc[q] # "main"
    BY <1>5 DEF ProcessOneEvent, Synchronise, ReceiveMessagesReturns, EventReturns, RunReturns,
                TypeOK
  <2> QED BY <1>1, <2>1, <2>2
<1>6. ASSUME NEW r \in Ranks,
             \/ \E delay \in Delays : Schedule(r, delay)
             \/ \E c \in Channels, txTime \in TxTimes : SendPacket(r, c, txTime)
             \/ Stop(r) \/ ReceiveMessage(r)
      PROVE  InRange'
  <2>1. UNCHANGED <<window, m_globalFinished, pc>>
    BY <1>6 DEF Schedule, SendPacket, Stop, ReceiveMessage
  <2> QED BY <1>1, <2>1
<1>7. CASE UNCHANGED vars
  BY <1>1, <1>7 DEF vars
<1> QED
  BY <1>2, <1>3, <1>4, <1>5, <1>6, <1>7 DEF Next, UserCode, Loop, Terminated

\* The granted time of a rank that is still running is a time: SmallestTime is
\* Infinity, and the sum with the lookahead out of range, only when the end has been
\* decided (GrantedTimeRepresentable).  Delays and bounds must leave room for times.
THEOREM GrantedTimesInRange ==
    ASSUME \A d \in Bounds \cup {c.delay : c \in Channels} : MaxTs + d <= Infinity
    PROVE  Spec => []GrantedTimeRepresentable
<1>1. Init => InRange
  BY DEF Init, InRange, Addable
<1>2. TypeOK /\ InRange => GrantedTimeRepresentable
  <2> SUFFICES ASSUME TypeOK, InRange, NEW r \in Ranks, pc[r] # "main", ~m_globalFinished[r]
               PROVE  m_grantedTime[r] <= Infinity
    BY DEF GrantedTimeRepresentable
  <2>1. m_globalFinished[r] # TRUE
    OBVIOUS
  <2> QED BY <2>1 DEF InRange
<1> QED BY <1>1, <1>2, EndedInvariant, InRangeInductive, PTL DEF Spec
=============================================================================
