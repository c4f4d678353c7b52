-------------------------- MODULE GrantedTimeWindow --------------------------
(***************************************************************************)
(* DistributedSimulatorImpl and GrantedTimeWindowMpiInterface: the         *)
(* conservative parallel simulator.  Every MPI rank runs the events of its *)
(* own nodes; a packet for a node of another rank is an MPI message that   *)
(* carries the time of its reception.  A rank runs events up to its        *)
(* granted time and then synchronises: it receives what has arrived, joins *)
(* an MPI_Allgather of next event times and message counts and, if no      *)
(* message is in flight, all ranks move their windows.                     *)
(*                                                                         *)
(* pc[r] is where rank r is:                                               *)
(*   "main"     outside Run, in user code                                  *)
(*   "loop"     at the top of Run's while loop                             *)
(*   "receive"  in the loop of ReceiveMessages                             *)
(*   "gather"   blocked in MPI_Allgather                                   *)
(*   "event"    in the function of the event being invoked                 *)
(*                                                                         *)
(* A rank in "gather" changes nothing of its own until all ranks are       *)
(* there, so its contribution m_pLBTS[r] is read from its state.  What a   *)
(* rank does after an MPI collective returns, up to its next call of MPI,  *)
(* is local: the collectives are single steps of all ranks (Run for the    *)
(* MPI_Allreduce of CalculateLookAhead, Allgather).                        *)
(***************************************************************************)
EXTENDS Scheduler, FiniteSetsExt

CONSTANTS Ranks,     \* the MPI ranks
          Channels,  \* PointToPointRemoteChannels: [ends : two ranks, delay]
          Delays,    \* the delays events are scheduled with
          TxTimes,   \* transmission times of packets
          Bounds,    \* the arguments of BoundLookAhead
          Infinity,  \* GetMaximumSimulationTime
          MaxTs,     \* bound on simulation time
          MaxCalls,  \* bound on the Schedule and SendPacket calls of all ranks
          MaxRuns    \* bound on the calls of Run

ASSUME RanksAssumption == Ranks # {} /\ IsFiniteSet(Ranks)
ASSUME ChannelsAssumption ==
    /\ \A c \in Channels : /\ c.ends \subseteq Ranks
                           /\ c.delay \in Nat /\ c.delay < Infinity
    /\ IsFiniteSet(Channels)
ASSUME DelaysAssumption == Delays \subseteq Nat /\ TxTimes \subseteq Nat
ASSUME BoundsAssumption == Bounds \subseteq Nat
ASSUME InfinityAssumption == Infinity \in Nat /\ MaxTs \in Nat /\ MaxTs < Infinity
ASSUME MaxAssumption == MaxCalls \in Nat /\ MaxRuns \in Nat

VARIABLES
    m_events,          \* per rank: the set of pending events
    m_uid,
    m_currentTs,
    m_stop,
    m_globalFinished,
    m_lookAhead,
    m_grantedTime,
    g_rxCount, g_txCount,
    network,           \* the messages sent and not yet received
    pc,
    calls, runs        \* how much of the bounds has been used

counts == <<g_rxCount, g_txCount>>
window == <<m_lookAhead, m_grantedTime>>
bounds == <<calls, runs>>
vars == <<m_events, m_uid, m_currentTs, m_stop, m_globalFinished, window,
          counts, network, pc, bounds>>

\* A message in flight; src and n (the sender's g_txCount) tell it from others.
Message == [src : Ranks, n : Nat, dst : Ranks, ts : 0..MaxTs]

Init == /\ m_events = [r \in Ranks |-> {}]
        /\ m_uid = [r \in Ranks |-> 4]
        /\ m_currentTs = [r \in Ranks |-> 0]
        /\ m_stop = [r \in Ranks |-> FALSE]
        /\ m_globalFinished = [r \in Ranks |-> FALSE]
        /\ m_lookAhead = [r \in Ranks |-> Infinity]
        /\ m_grantedTime = [r \in Ranks |-> 0]
        /\ g_rxCount = [r \in Ranks |-> 0]
        /\ g_txCount = [r \in Ranks |-> 0]
        /\ network = {}
        /\ pc = [r \in Ranks |-> "main"]
        /\ calls = 0 /\ runs = 0

-----------------------------------------------------------------------------
(* User code: the main program and the functions of events.                *)

InUserCode(r) == pc[r] \in {"main", "event"}

\* Scheduler::Insert of an event with a fresh uid.
Insert(r, ts) ==
    /\ m_events' = [m_events EXCEPT ![r] = @ \cup {[ts |-> ts, uid |-> m_uid[r]]}]
    /\ m_uid' = [m_uid EXCEPT ![r] = @ + 1]

Schedule(r, delay) ==
    /\ InUserCode(r)
    /\ calls < MaxCalls /\ m_currentTs[r] + delay <= MaxTs
    /\ Insert(r, m_currentTs[r] + delay)
    /\ calls' = calls + 1
    /\ UNCHANGED <<m_currentTs, m_stop, m_globalFinished, window, counts, network, pc, runs>>

\* PointToPointRemoteChannel::TransmitStart on the end of channel c at rank r:
\* the packet reaches the other end after txTime and the channel's delay.
SendPacket(r, c, txTime) ==
    LET rxTime == m_currentTs[r] + txTime + c.delay IN
    /\ pc[r] = "event" /\ r \in c.ends
    /\ calls < MaxCalls /\ rxTime <= MaxTs
    /\ \E dst \in c.ends \ {r} :
         network' = network \cup
             {[src |-> r, n |-> g_txCount[r], dst |-> dst, ts |-> rxTime]}
    /\ g_txCount' = [g_txCount EXCEPT ![r] = @ + 1]
    /\ calls' = calls + 1
    /\ UNCHANGED <<m_events, m_uid, m_currentTs, m_stop, m_globalFinished, window,
                   g_rxCount, pc, runs>>

Stop(r) ==
    /\ InUserCode(r)
    /\ m_stop' = [m_stop EXCEPT ![r] = TRUE]
    /\ UNCHANGED <<m_events, m_uid, m_currentTs, m_globalFinished, window, counts,
                   network, pc, bounds>>

\* The main program tightens the window before Run; zero has no effect.
BoundLookAhead(r, lookAhead) ==
    /\ pc[r] = "main"
    /\ lookAhead > 0
    /\ m_lookAhead' = [m_lookAhead EXCEPT ![r] = Min({@, lookAhead})]
    /\ UNCHANGED <<m_events, m_uid, m_currentTs, m_stop, m_globalFinished,
                   m_grantedTime, counts, network, pc, bounds>>

EventReturns(r) ==
    /\ pc[r] = "event"
    /\ pc' = [pc EXCEPT ![r] = "loop"]
    /\ UNCHANGED <<m_events, m_uid, m_currentTs, m_stop, m_globalFinished, window,
                   counts, network, bounds>>

-----------------------------------------------------------------------------
(* Run.                                                                    *)

RemoteDelays(r) == {c.delay : c \in {ch \in Channels : r \in ch.ends}}

\* Mutant: the comparison of delay and m_lookAhead turned round.
MutantLocalLookAhead(r) ==
    IF RemoteDelays(r) = {} THEN m_lookAhead[r] ELSE Max(RemoteDelays(r))

\* The window of rank r: its shortest channel to another rank, unless it is
\* already bounded more tightly.
LocalLookAhead(r) ==
    IF Cardinality(Ranks) <= 1 THEN 0 ELSE Min(RemoteDelays(r) \cup {m_lookAhead[r]})

\* MPI_Allreduce: the largest window of the ranks that have one.
MaxLookAhead ==
    Max({IF LocalLookAhead(r) = Infinity THEN 0 ELSE LocalLookAhead(r) : r \in Ranks})

CalculateLookAhead(r) ==
    IF LocalLookAhead(r) = Infinity /\ MaxLookAhead # 0
    THEN MaxLookAhead ELSE LocalLookAhead(r)

Run ==
    /\ \A r \in Ranks : pc[r] = "main"
    /\ runs < MaxRuns
    /\ m_lookAhead' = [r \in Ranks |-> CalculateLookAhead(r)]
    /\ m_grantedTime' = m_lookAhead'
    /\ m_stop' = [r \in Ranks |-> FALSE]
    /\ m_globalFinished' = [r \in Ranks |-> FALSE]
    /\ pc' = [r \in Ranks |-> "loop"]
    /\ runs' = runs + 1
    /\ UNCHANGED <<m_events, m_uid, m_currentTs, counts, network, calls>>

IsLocalFinished(r) == m_events[r] = {} \/ m_stop[r]

NextTs(r) == IF IsLocalFinished(r) THEN Infinity
             ELSE Min({e.ts : e \in m_events[r]})

MustSynchronise(r) == NextTs(r) > m_grantedTime[r] \/ IsLocalFinished(r)

ProcessOneEvent(r) ==
    /\ pc[r] = "loop" /\ ~m_globalFinished[r] /\ ~MustSynchronise(r)
    /\ \E next \in m_events[r] :
         /\ IsEarliest(next, m_events[r])
         /\ m_events' = [m_events EXCEPT ![r] = @ \ {next}]
         /\ m_currentTs' = [m_currentTs EXCEPT ![r] = next.ts]
    /\ pc' = [pc EXCEPT ![r] = "event"]
    /\ UNCHANGED <<m_uid, m_stop, m_globalFinished, window, counts, network, bounds>>

Synchronise(r) ==
    /\ pc[r] = "loop" /\ ~m_globalFinished[r] /\ MustSynchronise(r)
    /\ pc' = [pc EXCEPT ![r] = "receive"]
    /\ UNCHANGED <<m_events, m_uid, m_currentTs, m_stop, m_globalFinished, window,
                   counts, network, bounds>>

\* The time at which ScheduleWithContext puts the reception: the message's
\* rxTime - Now is added to the current time again.
RxTime(r, m) == m_currentTs[r] + (m.ts - m_currentTs[r])

\* One iteration of ReceiveMessages; MPI_Testany may return any message that
\* has arrived.
ReceiveMessage(r) ==
    /\ pc[r] = "receive"
    /\ \E m \in network :
         /\ m.dst = r
         /\ network' = network \ {m}
         /\ Insert(r, RxTime(r, m))
    /\ g_rxCount' = [g_rxCount EXCEPT ![r] = @ + 1]
    /\ UNCHANGED <<m_currentTs, m_stop, m_globalFinished, window, g_txCount, pc, bounds>>

\* MPI_Testany finds nothing more (messages may still be under way, and
\* arrive while the rank is blocked) and the rank enters MPI_Allgather.
ReceiveMessagesReturns(r) ==
    /\ pc[r] = "receive"
    /\ pc' = [pc EXCEPT ![r] = "gather"]
    /\ UNCHANGED <<m_events, m_uid, m_currentTs, m_stop, m_globalFinished, window,
                   counts, network, bounds>>

\* The sum of f over all ranks, as the size of a set with f[r] elements for
\* every rank r.
Units(f) == UNION {{r} \X (1..f[r]) : r \in Ranks}
Total(f) == Cardinality(Units(f))

SmallestTime == Min({NextTs(r) : r \in Ranks})

\* Mutants: in-flight messages are not looked for when the window moves, or
\* when the end is decided; the end is decided by the empty queues alone.
MutantTransients == FALSE
MutantGlobalFinished == \A r \in Ranks : IsLocalFinished(r)
MutantGlobalFinishedEmpty ==
    (\A r \in Ranks : m_events[r] = {}) /\ Total(g_rxCount) = Total(g_txCount)

Transients == Total(g_rxCount) # Total(g_txCount)
GlobalFinished == (\A r \in Ranks : IsLocalFinished(r)) /\ ~Transients

\* MPI_Allgather returns, on every rank, to the evaluation of m_pLBTS.
Allgather ==
    /\ \A r \in Ranks : pc[r] = "gather"
    /\ m_globalFinished' = [r \in Ranks |-> GlobalFinished]
    /\ m_grantedTime' =
         [r \in Ranks |-> IF Transients THEN m_grantedTime[r]
                          ELSE IF m_lookAhead[r] = Infinity THEN Infinity
                          ELSE SmallestTime + m_lookAhead[r]]
    /\ pc' = [r \in Ranks |-> "loop"]
    /\ UNCHANGED <<m_events, m_uid, m_currentTs, m_stop, m_lookAhead, counts,
                   network, bounds>>

RunReturns(r) ==
    /\ pc[r] = "loop" /\ m_globalFinished[r]
    /\ pc' = [pc EXCEPT ![r] = "main"]
    /\ UNCHANGED <<m_events, m_uid, m_currentTs, m_stop, m_globalFinished, window,
                   counts, network, bounds>>

UserCode(r) == \/ \E delay \in Delays : Schedule(r, delay)
               \/ \E c \in Channels, txTime \in TxTimes : SendPacket(r, c, txTime)
               \/ Stop(r)
               \/ \E lookAhead \in Bounds : BoundLookAhead(r, lookAhead)

Loop(r) == \/ ProcessOneEvent(r)
           \/ Synchronise(r)
           \/ ReceiveMessagesReturns(r)
           \/ EventReturns(r)
           \/ RunReturns(r)

\* The program ends after its last Run.
Terminated == /\ runs = MaxRuns
              /\ \A r \in Ranks : pc[r] = "main"
              /\ UNCHANGED vars

Next == \/ \E r \in Ranks : UserCode(r) \/ Loop(r) \/ ReceiveMessage(r)
        \/ Run
        \/ Allgather
        \/ Terminated

Spec == Init /\ [][Next]_vars

\* Every rank keeps running, event functions return, and MPI makes progress: a
\* message whose receiver keeps polling is received in the end, and a
\* collective that all ranks have joined completes.
FairSpec == /\ Spec
            /\ \A r \in Ranks : WF_vars(Loop(r)) /\ SF_vars(ReceiveMessage(r))
            /\ WF_vars(Allgather)

-----------------------------------------------------------------------------
\* Time stamps stay in range and locations are those of the code.
TypeOK ==
    /\ m_events \in [Ranks -> SUBSET [ts : 0..MaxTs, uid : Nat]]
    /\ m_uid \in [Ranks -> Nat]
    /\ m_currentTs \in [Ranks -> 0..MaxTs]
    /\ m_stop \in [Ranks -> BOOLEAN]
    /\ m_globalFinished \in [Ranks -> BOOLEAN]
    /\ m_lookAhead \in [Ranks -> 0..Infinity]
    /\ m_grantedTime \in [Ranks -> Nat]
    /\ g_rxCount \in [Ranks -> Nat] /\ g_txCount \in [Ranks -> Nat]
    /\ network \subseteq Message
    /\ pc \in [Ranks -> {"main", "loop", "receive", "gather", "event"}]
    /\ calls \in 0..MaxCalls /\ runs \in 0..MaxRuns

\* Causality: no rank runs past a message that is still under way to it, and
\* no rank has an event of its past pending.  ProcessOneEvent asserts it of
\* the event it takes; here it holds for every message from the moment it is
\* sent, whatever the ranks do until it is received.
Causality ==
    /\ \A m \in network : m_currentTs[m.dst] <= m.ts
    /\ \A r \in Ranks : \A e \in m_events[r] : m_currentTs[r] <= e.ts

\* The assertion of ProcessOneEvent: a rank's clock never goes back.
ClockNeverGoesBack == [][\A r \in Ranks : m_currentTs[r] <= m_currentTs'[r]]_vars

\* The counts are a faithful test for transient messages: when ranks leave an
\* MPI_Allgather with a new window, nothing is in flight.
WindowMovesWhenQuiet ==
    [][m_grantedTime' # m_grantedTime => network = {}]_vars

\* No rank leaves Run while a message is in flight or another rank has
\* something left to run.
NothingLost ==
    \A r \in Ranks : pc[r] = "loop" /\ m_globalFinished[r] =>
        /\ network = {}
        /\ \A q \in Ranks : pc[q] # "main" => IsLocalFinished(q)

\* The sum of the smallest time and the lookahead leaves the range of Time
\* only when it is not used any more, because every rank is done.
GrantedTimeRepresentable ==
    \A r \in Ranks : pc[r] # "main" /\ ~m_globalFinished[r] =>
        m_grantedTime[r] <= Infinity

\* Once Run has begun every rank comes back from it: no rank is left waiting
\* in a collective or for a message, whichever of them stop early.
RunEnds == (\A r \in Ranks : pc[r] = "loop") ~> (\A r \in Ranks : pc[r] = "main")
=============================================================================
