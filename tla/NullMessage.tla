----------------------------- MODULE NullMessage -----------------------------
(***************************************************************************)
(* NullMessageSimulatorImpl, NullMessageMpiInterface and the remote        *)
(* channel bundles: the parallel simulator that synchronises neighbouring  *)
(* ranks with null messages.  All channels between two ranks form a        *)
(* bundle.  Every message across a bundle carries a guarantee: no later    *)
(* message will be received before that time.  A rank runs events up to    *)
(* the smallest guarantee of its neighbours (its safe time) and otherwise  *)
(* blocks for a message; an event of the bundle sends a null message when  *)
(* no packet was sent for a while.                                         *)
(*                                                                         *)
(* pc[r] is where rank r is:                                               *)
(*   "main"     before Run                                                 *)
(*   "loop"     at the condition of Run's while loop                       *)
(*   "event"    in the function of a user's event                          *)
(*   "null"     in NullMessageEventHandler, before its call of Next        *)
(*   "receive"  in the loop of the non-blocking ReceiveMessages            *)
(*   "done"     Run has returned                                           *)
(*                                                                         *)
(* MPI keeps the order of the messages from one rank to another; messages  *)
(* of different senders are received in any order.  A member of Channels   *)
(* stands for all channels of its delay between its ends: the queues of    *)
(* the devices are not modelled, and two packets that one event transmits  *)
(* leave through two devices.                                              *)
(***************************************************************************)
EXTENDS Scheduler, Sequences, FiniteSetsExt

CONSTANTS Ranks,      \* the system ids
          Channels,   \* PointToPointRemoteChannels: [ends : two ranks, delay]
          NullDelay,  \* the delay of null message events, by bundle delay:
                      \* m_schedulerTune * m_delay
          Delays,     \* the delays events are scheduled with
          TxTimes,    \* transmission times of packets
          StopTimes,  \* when the main program stops the simulation: none or one
          MoreAfterSend, \* may an event go on after it transmitted a packet?
          Infinity,   \* GetMaximumSimulationTime
          MaxTs,      \* bound on simulation time of user events
          MaxCalls    \* bound on the calls of Schedule and TransmitStart

ASSUME RanksAssumption == IsFiniteSet(Ranks) /\ Ranks # {} /\ Ranks = 0..Cardinality(Ranks) - 1
ASSUME ChannelsAssumption ==
    \A c \in Channels : c.ends \subseteq Ranks /\ c.delay \in Nat \ {0}
ASSUME TimesAssumption == /\ Delays \subseteq Nat /\ TxTimes \subseteq Nat
                          /\ MaxTs \in Nat /\ StopTimes \subseteq 0..MaxTs
                          /\ Infinity \in Nat /\ Infinity > MaxTs
ASSUME MaxCallsAssumption == MaxCalls \in Nat
ASSUME NullDelayAssumption == \A c \in Channels : NullDelay[c.delay] \in 1..c.delay

VARIABLES
    m_events,        \* per rank: the pending events
    m_uid,
    m_currentTs,
    m_safeTime,
    m_stop,
    m_guaranteeTime, \* per rank and neighbour: of the bundle to the neighbour
    current,         \* the event being run
    network,         \* per sender and receiver: the messages under way
    pc,
    calls            \* how much of MaxCalls has been used

vars == <<m_events, m_uid, m_currentTs, m_safeTime, m_stop, m_guaranteeTime,
          current, network, pc, calls>>

Neighbours(r) == {q \in Ranks \ {r} : \E c \in Channels : {r, q} \subseteq c.ends}

\* RemoteChannelBundle::m_delay: the shortest channel of the bundle.
BundleDelay(r, q) == Min({c.delay : c \in {ch \in Channels : {r, q} \subseteq ch.ends}})

\* An event: fn is its function, and to the bundle of a null message event.
\* EventImpl::Cancel leaves the event in the list as one that does nothing.
Event(ts, uid, fn, to) == [ts |-> ts, uid |-> uid, fn |-> fn, to |-> to]

EventFunctions == {"user", "null", "stop", "cancelled"}
Message == [rxTime : Nat, guarantee : Nat]

Init ==
    /\ m_events = [r \in Ranks |-> {Event(t, 4, "stop", r) : t \in StopTimes}]
    /\ m_uid = [r \in Ranks |-> 5]
    /\ m_currentTs = [r \in Ranks |-> 0]
    /\ m_safeTime = [r \in Ranks |-> 0]
    /\ m_stop = [r \in Ranks |-> FALSE]
    /\ m_guaranteeTime = [r \in Ranks |-> [q \in Ranks |-> 0]]
    /\ current = [r \in Ranks |-> Event(0, 0, "user", r)]
    /\ network = [s \in Ranks |-> [r \in Ranks |-> <<>>]]
    /\ pc = [r \in Ranks |-> "main"]
    /\ calls = 0

-----------------------------------------------------------------------------
(* User code.                                                              *)

Schedule(r, delay) ==
    /\ pc[r] \in {"main", "event"}
    /\ calls < MaxCalls /\ m_currentTs[r] + delay <= MaxTs
    /\ m_events' = [m_events EXCEPT ![r] =
                      @ \cup {Event(m_currentTs[r] + delay, m_uid[r], "user", r)}]
    /\ m_uid' = [m_uid EXCEPT ![r] = @ + 1]
    /\ calls' = calls + 1
    /\ UNCHANGED <<m_currentTs, m_safeTime, m_stop, m_guaranteeTime, current, network, pc>>

\* NullMessageSimulatorImpl::Next over the events of the set: when the rank
\* calls it the set must not be empty.
NextTs(events) == Min({e.ts : e \in events})

\* Mutant: the safe time is forgotten; only the own events bound the promise.
MutantGuarantee(r, q, events) == NextTs(events) + BundleDelay(r, q)

\* CalculateGuaranteeTime: what rank r, with these events pending, can promise
\* to its neighbour q.
Guarantee(r, q, events) == Min({NextTs(events), m_safeTime[r]}) + BundleDelay(r, q)

\* Mutant: the null message event is not moved but a second one is scheduled.
MutantCancelNullEvents(q, events) == events

\* Simulator::Cancel of the null message event of the bundle to q.
CancelNullEvents(q, events) ==
    {IF e.fn = "null" /\ e.to = q THEN [e EXCEPT !.fn = "cancelled"] ELSE e : e \in events}

NullEvent(r, q, uid) == Event(m_currentTs[r] + NullDelay[BundleDelay(r, q)], uid, "null", q)

\* PointToPointNetDevice::TransmitStart on a remote channel: schedule
\* TransmitComplete, then send the packet (NullMessageMpiInterface::SendPacket)
\* with the time of its reception and the guarantee, and put off the null
\* message of the bundle.
TransmitStart(r, c, txTime) ==
    LET rxTime == m_currentTs[r] + txTime + c.delay
        withComplete == m_events[r] \cup
            {Event(m_currentTs[r] + txTime, m_uid[r], "user", r)}
    IN
    /\ pc[r] = "event" /\ r \in c.ends
    /\ calls < MaxCalls /\ rxTime <= MaxTs
    /\ \E q \in c.ends \ {r} :
         /\ network' = [network EXCEPT ![r][q] = Append(@,
                [rxTime |-> rxTime, guarantee |-> Guarantee(r, q, withComplete)])]
         /\ m_events' = [m_events EXCEPT ![r] =
                CancelNullEvents(q, withComplete) \cup {NullEvent(r, q, m_uid[r] + 1)}]
    /\ m_uid' = [m_uid EXCEPT ![r] = @ + 2]
    /\ pc' = [pc EXCEPT ![r] = IF MoreAfterSend THEN "event" ELSE "receive"]
    /\ calls' = calls + 1
    /\ UNCHANGED <<m_currentTs, m_safeTime, m_stop, m_guaranteeTime, current>>

EventReturns(r) ==
    /\ pc[r] = "event"
    /\ pc' = [pc EXCEPT ![r] = "receive"]
    /\ UNCHANGED <<m_events, m_uid, m_currentTs, m_safeTime, m_stop, m_guaranteeTime,
                   current, network, calls>>

-----------------------------------------------------------------------------
(* Run.                                                                    *)

\* CalculateLookAhead and InitializeNullMessageEvents: the first guarantees,
\* and a null message event for every bundle.
Run(r) ==
    /\ pc[r] = "main"
    /\ network' = [network EXCEPT ![r] = [q \in Ranks |->
            IF q \in Neighbours(r)
            THEN Append(network[r][q], [rxTime |-> 0, guarantee |-> BundleDelay(r, q)])
            ELSE network[r][q]]]
    /\ m_events' = [m_events EXCEPT ![r] =
            @ \cup {NullEvent(r, q, m_uid[r] + q) : q \in Neighbours(r)}]
    /\ m_uid' = [m_uid EXCEPT ![r] = @ + 1 + Max(Ranks)]
    /\ m_safeTime' = [m_safeTime EXCEPT ![r] = 0]
    /\ m_stop' = [m_stop EXCEPT ![r] = FALSE]
    /\ pc' = [pc EXCEPT ![r] = "loop"]
    /\ UNCHANGED <<m_currentTs, m_guaranteeTime, current, calls>>

IsFinished(r) == m_events[r] = {} \/ m_stop[r]

\* Where ProcessOneEvent goes with an event: into user code, into the null
\* message handler, or on, after Simulator::Stop or a cancelled event.
Invoke(fn) == CASE fn = "user" -> "event"
                [] fn = "null" -> "null"
                [] OTHER -> "receive"

\* Mutant: events one step beyond the safe time are run.
MutantSafe(r) == NextTs(m_events[r]) <= m_safeTime[r] + 1
Safe(r) == NextTs(m_events[r]) <= m_safeTime[r]

ProcessOneEvent(r) ==
    /\ pc[r] = "loop" /\ ~IsFinished(r) /\ Safe(r)
    /\ \E next \in m_events[r] :
         /\ IsEarliest(next, m_events[r])
         /\ m_events' = [m_events EXCEPT ![r] = @ \ {next}]
         /\ m_currentTs' = [m_currentTs EXCEPT ![r] = next.ts]
         /\ current' = [current EXCEPT ![r] = next]
         /\ m_stop' = [m_stop EXCEPT ![r] = @ \/ next.fn = "stop"]
         /\ pc' = [pc EXCEPT ![r] = Invoke(next.fn)]
    /\ UNCHANGED <<m_uid, m_safeTime, m_guaranteeTime, network, calls>>

\* Mutant: the handler does not schedule the next null message.
MutantNullMessageEventHandler(r) ==
    LET q == current[r].to IN
    /\ pc[r] = "null" /\ m_events[r] # {}
    /\ network' = [network EXCEPT ![r][q] = Append(@,
            [rxTime |-> 0, guarantee |-> Guarantee(r, q, m_events[r])])]
    /\ pc' = [pc EXCEPT ![r] = "receive"]
    /\ UNCHANGED <<m_events, m_uid, m_currentTs, m_safeTime, m_stop, m_guaranteeTime, current, calls>>

NullMessageEventHandler(r) ==
    LET q == current[r].to IN
    /\ pc[r] = "null" /\ m_events[r] # {}
    /\ network' = [network EXCEPT ![r][q] = Append(@,
            [rxTime |-> 0, guarantee |-> Guarantee(r, q, m_events[r])])]
    /\ m_events' = [m_events EXCEPT ![r] = @ \cup {NullEvent(r, q, m_uid[r])}]
    /\ m_uid' = [m_uid EXCEPT ![r] = @ + 1]
    /\ pc' = [pc EXCEPT ![r] = "receive"]
    /\ UNCHANGED <<m_currentTs, m_safeTime, m_stop, m_guaranteeTime, current, calls>>

\* RemoteChannelBundleManager::GetSafeTime over the guarantees g.
SafeTime(r, g) == Min({Infinity} \cup {g[q] : q \in Neighbours(r)})

\* The receipt of the next message from q: a packet becomes an event at its
\* time of reception, and the guarantee of the bundle is replaced.
Receive(r, q) ==
    LET m == Head(network[q][r]) IN
    /\ network[q][r] # <<>>
    /\ network' = [network EXCEPT ![q][r] = Tail(@)]
    /\ IF m.rxTime > 0
       THEN /\ m_events' = [m_events EXCEPT ![r] = @ \cup {Event(m.rxTime, m_uid[r], "user", r)}]
            /\ m_uid' = [m_uid EXCEPT ![r] = @ + 1]
       ELSE UNCHANGED <<m_events, m_uid>>
    /\ m_guaranteeTime' = [m_guaranteeTime EXCEPT ![r][q] = m.guarantee]
    /\ UNCHANGED <<m_currentTs, m_stop, current, calls>>

\* An iteration of ReceiveMessagesNonBlocking.
ReceiveMessage(r) ==
    /\ pc[r] = "receive"
    /\ \E q \in Neighbours(r) : Receive(r, q)
    /\ UNCHANGED <<m_safeTime, pc>>

\* MPI_Testany finds nothing more; CalculateSafeTime.
HandleArrivingMessagesNonBlocking(r) ==
    /\ pc[r] = "receive"
    /\ m_safeTime' = [m_safeTime EXCEPT ![r] = SafeTime(r, m_guaranteeTime[r])]
    /\ pc' = [pc EXCEPT ![r] = "loop"]
    /\ UNCHANGED <<m_events, m_uid, m_currentTs, m_stop, m_guaranteeTime, current,
                   network, calls>>

\* MPI_Waitany blocks until there is a message, of which one is received; a
\* rank without neighbours does not wait.
HandleArrivingMessagesBlocking(r) ==
    /\ pc[r] = "loop" /\ ~IsFinished(r) /\ ~Safe(r)
    /\ \/ \E q \in Neighbours(r) : Receive(r, q)
       \/ /\ Neighbours(r) = {}
          /\ UNCHANGED <<m_events, m_uid, m_currentTs, m_stop, m_guaranteeTime, current,
                         network, calls>>
    /\ m_safeTime' = [m_safeTime EXCEPT ![r] = SafeTime(r, m_guaranteeTime'[r])]
    /\ UNCHANGED pc

RunReturns(r) ==
    /\ pc[r] = "loop" /\ IsFinished(r)
    /\ pc' = [pc EXCEPT ![r] = "done"]
    /\ UNCHANGED <<m_events, m_uid, m_currentTs, m_safeTime, m_stop, m_guaranteeTime,
                   current, network, calls>>

UserCode(r) == \/ \E delay \in Delays : Schedule(r, delay)
               \/ \E c \in Channels, txTime \in TxTimes : TransmitStart(r, c, txTime)

Loop(r) == \/ Run(r) \/ ProcessOneEvent(r) \/ NullMessageEventHandler(r) \/ EventReturns(r)
           \/ ReceiveMessage(r) \/ HandleArrivingMessagesNonBlocking(r)
           \/ HandleArrivingMessagesBlocking(r) \/ RunReturns(r)

Terminated == /\ \A r \in Ranks : pc[r] = "done"
              /\ UNCHANGED vars

Next == \/ \E r \in Ranks : UserCode(r) \/ Loop(r)
        \/ Terminated

Spec == Init /\ [][Next]_vars

\* Every rank keeps running, its event functions return, and MPI delivers.
FairSpec == Spec /\ \A r \in Ranks : WF_vars(Loop(r))

-----------------------------------------------------------------------------
\* Locations and functions are those of the code, and times are natural numbers.
TypeOK ==
    /\ m_events \in [Ranks -> SUBSET [ts : Nat, uid : Nat, fn : EventFunctions, to : Ranks]]
    /\ m_uid \in [Ranks -> Nat]
    /\ m_currentTs \in [Ranks -> Nat] /\ m_safeTime \in [Ranks -> Nat]
    /\ m_stop \in [Ranks -> BOOLEAN]
    /\ m_guaranteeTime \in [Ranks -> [Ranks -> Nat]]
    /\ current \in [Ranks -> [ts : Nat, uid : Nat, fn : EventFunctions, to : Ranks]]
    /\ network \in [Ranks -> [Ranks -> Seq(Message)]]
    /\ pc \in [Ranks -> {"main", "loop", "event", "null", "receive", "done"}]
    /\ calls \in 0..MaxCalls

\* Every packet from s to r that is under way, in the order of sending.
Packets(s, r) == {i \in DOMAIN network[s][r] : network[s][r][i].rxTime > 0}

\* A guarantee is kept: a packet is never received before the guarantee the
\* receiver has, nor before one that is under way ahead of it.
GuaranteeKept ==
    \A s, r \in Ranks : \A i \in Packets(s, r) :
        /\ m_guaranteeTime[r][s] <= network[s][r][i].rxTime
        /\ \A j \in 1..i - 1 : network[s][r][j].guarantee <= network[s][r][i].rxTime

\* Causality: no rank runs past a packet that is under way to it or an event
\* it holds (asserted by ProcessOneEvent and ScheduleWithContext), and the safe
\* time does not fall behind its clock (asserted by CalculateSafeTime).
Causality ==
    /\ \A s, r \in Ranks : \A i \in Packets(s, r) :
         m_currentTs[r] <= network[s][r][i].rxTime
    /\ \A r \in Ranks : \A e \in m_events[r] : m_currentTs[r] <= e.ts
    /\ \A r \in Ranks : m_currentTs[r] <= m_safeTime[r]

\* A guarantee is never taken back, although SetGuaranteeTime overwrites it
\* with whatever arrives.
GuaranteeGrows ==
    [][\A r, s \in Ranks : m_guaranteeTime[r][s] <= m_guaranteeTime'[r][s]]_vars

\* Every bundle keeps one null message event pending (or is in its handler),
\* whatever packets moved it: without it the neighbour could wait for ever.  The
\* handler calls Next, which asserts that an event is pending.
OneNullEvent ==
    /\ \A r \in Ranks : pc[r] = "null" => m_events[r] # {}
    /\ \A r \in Ranks : \A q \in Neighbours(r) : pc[r] \notin {"main", "done"} =>
          Cardinality({e \in m_events[r] : e.fn = "null" /\ e.to = q})
            = IF pc[r] = "null" /\ current[r].to = q THEN 0 ELSE 1

\* When all ranks are stopped at the same time they all get there: nobody is
\* left waiting for a neighbour that has returned from Run.
AllReturn == <>(\A r \in Ranks : pc[r] = "done")
=============================================================================
