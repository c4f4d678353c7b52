-------------------------- MODULE DefaultSimulator --------------------------
(***************************************************************************)
(* DefaultSimulatorImpl: the sequential simulator.  The main thread runs   *)
(* the event loop and, inside the events it invokes, user code that        *)
(* schedules, cancels and removes events and stops the loop.  Other        *)
(* threads (emulation device readers) may only call ScheduleWithContext,   *)
(* which leaves the event in a list that the main thread collects.         *)
(*                                                                         *)
(* pc is where the main thread is:                                         *)
(*   "idle"      outside Run and Destroy, in user code                     *)
(*   "check", "swap", "drain"   in ProcessEventsWithContext: before the    *)
(*               unlocked read of the flag, before the swap of the lists   *)
(*               under the mutex, inserting the collected events; caller   *)
(*               says who called it: Run ("run"), ProcessOneEvent ("loop") *)
(*               or DoDispose ("dispose")                                  *)
(*   "loop"      at the condition of Run's while loop                      *)
(*   "event"     in the function of the event being invoked                *)
(*   "destroy"   at the condition of Destroy's while loop                  *)
(*   "destroyEvent"  in the function of a destroy event                    *)
(*   "dead"      after DoDispose                                           *)
(*                                                                         *)
(* Every event gets a number n, the order in which it was given to the     *)
(* simulator, by the main thread or by another; it stands for the          *)
(* EventImpl, which a key gets only when it is inserted, and never wraps.  *)
(***************************************************************************)
EXTENDS Scheduler, Sequences

CONSTANTS UidMod,     \* number of values of m_uid (2^32 in the code)
          Delays,     \* the delays events are scheduled with
          MaxTs,      \* bound on simulation time
          MaxEvents   \* bound on the events of a simulation

ASSUME UidModAssumption == UidMod \in Nat /\ UidMod > 4
ASSUME DelaysAssumption == Delays \subseteq Nat
ASSUME MaxTsAssumption == MaxTs \in Nat
ASSUME MaxEventsAssumption == MaxEvents \in Nat

VARIABLES
    m_events,              \* the scheduler: the set of pending events
    m_eventsWithContext,   \* the events other threads scheduled
    m_eventsWithContextEmpty,
    eventsWithContext,     \* ProcessEventsWithContext's local list
    m_destroyEvents,       \* list of the ids of the destroy events
    m_uid,
    m_currentTs,
    m_currentUid,
    m_stop,
    m_unscheduledEvents,
    cancelled,             \* the events whose EventImpl has m_cancel set
    stops,                 \* the events whose function is Simulator::Stop
    pc, caller,
    made,                  \* history: number of events given so far
    ids,                   \* history: the EventIds returned to the user
    ran,                   \* history: the events that were invoked
    removed,               \* history: the destroy events the user removed
    waiting                \* history: how many entries of m_eventsWithContext
                           \* were there when the current event (or Run) began

queue == <<m_events, m_uid, m_unscheduledEvents, made>>
context == <<m_eventsWithContext, m_eventsWithContextEmpty, eventsWithContext, waiting>>
clock == <<m_currentTs, m_currentUid>>
control == <<pc, caller>>
vars == <<queue, context, clock, control, m_destroyEvents, m_stop,
          cancelled, stops, ids, ran, removed>>

\* Event n, with a fresh uid, as the simulator inserts it at time ts.
NewEvent(ts, n) == [ts |-> ts, uid |-> m_uid, n |-> n]

\* What another thread leaves for the main thread: the event and its delay.
EventWithContext == [timestamp : Delays, n : 1..MaxEvents]

EventIds == [ts : 0..MaxTs, uid : 0..UidMod - 1, n : 1..MaxEvents]

Running == {"check", "swap", "drain", "loop", "event"}

Init == /\ m_events = {}
        /\ m_eventsWithContext = <<>>
        /\ m_eventsWithContextEmpty = TRUE
        /\ eventsWithContext = <<>>
        /\ m_destroyEvents = <<>>
        /\ m_uid = 4
        /\ m_currentTs = 0 /\ m_currentUid = 0
        /\ m_stop = FALSE
        /\ m_unscheduledEvents = 0
        /\ cancelled = {} /\ stops = {} /\ ids = {} /\ ran = {} /\ removed = {}
        /\ pc = "idle" /\ caller = "run"
        /\ made = 0 /\ waiting = 0

\* Bounds of the model: on the number of events and on simulation time.  A
\* MaxTs of MaxEvents times the longest delay is never reached.
CanSchedule(ts) == made < MaxEvents /\ ts <= MaxTs

-----------------------------------------------------------------------------
(* IsExpired.  The events of uid 2 are the destroy events.                 *)

IsExpired(id) ==
    IF id.uid = 2
    THEN \/ id.n \in cancelled
         \/ \A i \in DOMAIN m_destroyEvents : m_destroyEvents[i] # id
    ELSE \/ id.ts < m_currentTs
         \/ id.ts = m_currentTs /\ id.uid <= m_currentUid
         \/ id.n \in cancelled

-----------------------------------------------------------------------------
(* What user code does in the main thread: outside Run, in the function of *)
(* an event and in the function of a destroy event.                        *)

UserCode == pc \in {"idle", "event", "destroyEvent"}

\* Mutant: m_uid as an unbounded number.
MutantInsert(ts, n) ==
    /\ m_events' = m_events \cup {NewEvent(ts, n)}
    /\ m_uid' = m_uid + 1
    /\ m_unscheduledEvents' = m_unscheduledEvents + 1

\* The code common to Schedule, ScheduleNow, ScheduleWithContext and
\* ProcessEventsWithContext.
Insert(ts, n) ==
    /\ m_events' = m_events \cup {NewEvent(ts, n)}
    /\ m_uid' = (m_uid + 1) % UidMod
    /\ m_unscheduledEvents' = m_unscheduledEvents + 1

\* An event the main thread schedules: given and inserted in one step.
InsertNew(ts) == Insert(ts, made + 1) /\ made' = made + 1

Schedule(delay) ==
    /\ UserCode /\ CanSchedule(m_currentTs + delay)
    /\ InsertNew(m_currentTs + delay)
    /\ ids' = ids \cup {NewEvent(m_currentTs + delay, made + 1)}
    /\ UNCHANGED <<context, clock, control, m_destroyEvents, removed, m_stop,
                   cancelled, stops, ran>>

ScheduleNow ==
    /\ UserCode /\ CanSchedule(m_currentTs)
    /\ InsertNew(m_currentTs)
    /\ ids' = ids \cup {NewEvent(m_currentTs, made + 1)}
    /\ UNCHANGED <<context, clock, control, m_destroyEvents, removed, m_stop,
                   cancelled, stops, ran>>

\* ScheduleWithContext from the main thread returns no EventId.
ScheduleWithContext(delay) ==
    /\ UserCode /\ CanSchedule(m_currentTs + delay)
    /\ InsertNew(m_currentTs + delay)
    /\ UNCHANGED <<context, clock, control, m_destroyEvents, removed, m_stop,
                   cancelled, stops, ids, ran>>

\* Stop (delay) schedules an event that calls Stop (); it returns no EventId.
StopDelay(delay) ==
    /\ UserCode /\ CanSchedule(m_currentTs + delay)
    /\ InsertNew(m_currentTs + delay)
    /\ stops' = stops \cup {made + 1}
    /\ UNCHANGED <<context, clock, control, m_destroyEvents, removed, m_stop,
                   cancelled, ids, ran>>

ScheduleDestroy ==
    /\ UserCode /\ CanSchedule(m_currentTs)
    /\ LET id == [ts |-> m_currentTs, uid |-> 2, n |-> made + 1]
       IN  /\ m_destroyEvents' = Append(m_destroyEvents, id)
           /\ ids' = ids \cup {id}
    /\ m_uid' = (m_uid + 1) % UidMod
    /\ made' = made + 1
    /\ UNCHANGED <<m_events, m_unscheduledEvents, context, clock, control, m_stop,
                   cancelled, stops, ran, removed>>

\* Mutants: an event that is removed without being cancelled, or without being
\* subtracted from the count of pending events.
MutantRemove(id) ==
    /\ UserCode /\ id.uid # 2 /\ ~IsExpired(id)
    /\ m_events' = m_events \ {id}
    /\ m_unscheduledEvents' = m_unscheduledEvents - 1
    /\ UNCHANGED <<m_uid, made, context, clock, control, m_destroyEvents, removed,
                   m_stop, cancelled, stops, ids, ran>>
MutantRemoveUncounted(id) ==
    /\ UserCode /\ id.uid # 2 /\ ~IsExpired(id)
    /\ m_events' = m_events \ {id}
    /\ cancelled' = cancelled \cup {id.n}
    /\ UNCHANGED <<m_uid, made, m_unscheduledEvents, context, clock, control,
                   m_destroyEvents, removed, m_stop, stops, ids, ran>>

\* A destroy event is erased from its list and not cancelled, any other event
\* is cancelled too, so that IsExpired holds of it from now on.
Remove(id) ==
    /\ UserCode
    /\ \/ /\ id.uid = 2
          /\ \E i \in DOMAIN m_destroyEvents :
                /\ m_destroyEvents[i] = id
                /\ m_destroyEvents' = SubSeq(m_destroyEvents, 1, i - 1)
                                        \o SubSeq(m_destroyEvents, i + 1, Len(m_destroyEvents))
          /\ removed' = removed \cup {id.n}
          /\ UNCHANGED <<m_events, m_unscheduledEvents, cancelled>>
       \/ /\ id.uid # 2 /\ ~IsExpired(id)
          /\ m_events' = m_events \ {id}
          /\ cancelled' = cancelled \cup {id.n}
          /\ m_unscheduledEvents' = m_unscheduledEvents - 1
          /\ UNCHANGED <<m_destroyEvents, removed>>
    /\ UNCHANGED <<m_uid, made, context, clock, control, m_stop, stops, ids, ran>>

\* The event stays in the scheduler until its time comes.
Cancel(id) ==
    /\ UserCode /\ ~IsExpired(id)
    /\ cancelled' = cancelled \cup {id.n}
    /\ UNCHANGED <<queue, context, clock, control, m_destroyEvents, removed, m_stop,
                   stops, ids, ran>>

Stop ==
    /\ UserCode
    /\ m_stop' = TRUE
    /\ UNCHANGED <<queue, context, clock, control, m_destroyEvents, removed,
                   cancelled, stops, ids, ran>>

User == \/ \E delay \in Delays : \/ Schedule(delay)
                                 \/ ScheduleWithContext(delay)
                                 \/ StopDelay(delay)
        \/ ScheduleNow
        \/ ScheduleDestroy
        \/ \E id \in ids : Remove(id) \/ Cancel(id)
        \/ Stop

-----------------------------------------------------------------------------
(* Other threads.                                                          *)

\* ScheduleWithContext from a thread that is not the main thread: the delay is
\* made absolute, and the event gets its uid, when the main thread collects it.
ScheduleWithContextOther(delay) ==
    /\ pc # "dead" /\ CanSchedule(m_currentTs + delay)
    /\ m_eventsWithContext' =
          Append(m_eventsWithContext, [timestamp |-> delay, n |-> made + 1])
    /\ m_eventsWithContextEmpty' = FALSE
    /\ made' = made + 1
    /\ UNCHANGED <<m_events, m_uid, m_unscheduledEvents, eventsWithContext, waiting,
                   clock, control, m_destroyEvents, removed, m_stop, cancelled,
                   stops, ids, ran>>

-----------------------------------------------------------------------------
(* ProcessEventsWithContext, in its three steps.                           *)

\* Where the main thread goes on, and with it the m_stop = false of Run and
\* the emptying of the scheduler of DoDispose.
Return ==
    \/ /\ caller = "run"
       /\ pc' = "loop" /\ m_stop' = FALSE
       /\ UNCHANGED m_events
    \/ /\ caller = "loop"
       /\ pc' = "loop"
       /\ UNCHANGED <<m_stop, m_events>>
    \/ /\ caller = "dispose"
       /\ pc' = "dead" /\ m_events' = {}
       /\ UNCHANGED m_stop

\* The flag is read without the mutex.
CheckFlag ==
    /\ pc = "check"
    /\ \/ m_eventsWithContextEmpty /\ Return
       \/ ~m_eventsWithContextEmpty /\ pc' = "swap" /\ UNCHANGED <<m_stop, m_events>>
    /\ UNCHANGED <<m_uid, m_unscheduledEvents, made, context, clock, caller,
                   m_destroyEvents, removed, cancelled, stops, ids, ran>>

Swap ==
    /\ pc = "swap"
    /\ eventsWithContext' = m_eventsWithContext
    /\ m_eventsWithContext' = <<>>
    /\ m_eventsWithContextEmpty' = TRUE
    /\ waiting' = 0
    /\ pc' = "drain"
    /\ UNCHANGED <<queue, clock, caller, m_destroyEvents, removed, m_stop,
                   cancelled, stops, ids, ran>>

\* Mutants: the collected delay taken for an absolute time; the flag reset
\* (again) after the loop, outside the mutex; the shared list cleared after the
\* loop instead of swapped before it.
MutantInsertCollected ==
    /\ pc = "drain" /\ eventsWithContext # <<>>
    /\ Insert(Head(eventsWithContext).timestamp, Head(eventsWithContext).n)
    /\ eventsWithContext' = Tail(eventsWithContext)
    /\ UNCHANGED <<made, m_eventsWithContext, m_eventsWithContextEmpty, waiting,
                   clock, control, m_destroyEvents, removed, m_stop, cancelled,
                   stops, ids, ran>>
MutantDrained ==
    /\ pc = "drain" /\ eventsWithContext = <<>>
    /\ m_eventsWithContextEmpty' = TRUE
    /\ Return
    /\ UNCHANGED <<m_uid, m_unscheduledEvents, made, m_eventsWithContext,
                   eventsWithContext, waiting, clock, caller, m_destroyEvents,
                   removed, cancelled, stops, ids, ran>>

MutantDrainedClears ==
    /\ pc = "drain" /\ eventsWithContext = <<>>
    /\ m_eventsWithContext' = <<>>
    /\ m_eventsWithContextEmpty' = TRUE
    /\ waiting' = 0
    /\ Return
    /\ UNCHANGED <<m_uid, m_unscheduledEvents, made, eventsWithContext, clock,
                   caller, m_destroyEvents, removed, cancelled, stops, ids, ran>>

\* One round of the loop.
InsertCollected ==
    LET event == Head(eventsWithContext)
        ts    == m_currentTs + event.timestamp
    IN  /\ pc = "drain" /\ eventsWithContext # <<>>
        /\ ts <= MaxTs
        /\ Insert(ts, event.n)
        /\ eventsWithContext' = Tail(eventsWithContext)
        /\ UNCHANGED <<made, m_eventsWithContext, m_eventsWithContextEmpty, waiting,
                       clock, control, m_destroyEvents, removed, m_stop, cancelled,
                       stops, ids, ran>>

Drained ==
    /\ pc = "drain" /\ eventsWithContext = <<>>
    /\ Return
    /\ UNCHANGED <<m_uid, m_unscheduledEvents, made, context, clock, caller,
                   m_destroyEvents, removed, cancelled, stops, ids, ran>>

ProcessEventsWithContext == CheckFlag \/ Swap \/ InsertCollected \/ Drained

-----------------------------------------------------------------------------
(* Run, Destroy and DoDispose.                                             *)

Run ==
    /\ pc = "idle"
    /\ pc' = "check" /\ caller' = "run"
    /\ waiting' = Len(m_eventsWithContext)
    /\ UNCHANGED <<queue, m_eventsWithContext, m_eventsWithContextEmpty,
                   eventsWithContext, clock, m_destroyEvents, removed, m_stop,
                   cancelled, stops, ids, ran>>

\* Mutant: a loop that ends one event too early.
MutantRunReturns ==
    /\ pc = "loop" /\ (Cardinality(m_events) <= 1 \/ m_stop)
    /\ pc' = "idle"
    /\ UNCHANGED <<queue, context, clock, caller, m_destroyEvents, removed, m_stop,
                   cancelled, stops, ids, ran>>

\* A cancelled event is removed and not invoked; one that was scheduled by
\* Stop (delay) sets m_stop and returns; any other gives way to user code.
ProcessOneEvent ==
    /\ pc = "loop" /\ ~m_stop
    /\ \E next \in m_events :
        /\ IsEarliest(next, m_events)
        /\ m_events' = m_events \ {next}
        /\ m_unscheduledEvents' = m_unscheduledEvents - 1
        /\ m_currentTs' = next.ts
        /\ m_currentUid' = next.uid
        /\ \/ /\ next.n \in cancelled
              /\ pc' = "check"
              /\ UNCHANGED <<m_stop, ran>>
           \/ /\ next.n \notin cancelled /\ next.n \in stops
              /\ pc' = "check" /\ m_stop' = TRUE
              /\ ran' = ran \cup {next.n}
           \/ /\ next.n \notin cancelled \cup stops
              /\ pc' = "event"
              /\ ran' = ran \cup {next.n}
              /\ UNCHANGED m_stop
    /\ caller' = "loop"
    /\ waiting' = Len(m_eventsWithContext)
    /\ UNCHANGED <<m_uid, made, m_eventsWithContext, m_eventsWithContextEmpty,
                   eventsWithContext, m_destroyEvents, removed, cancelled, stops,
                   ids>>

\* The event's function returns to ProcessOneEvent.
EventReturns ==
    /\ pc = "event"
    /\ pc' = "check"
    /\ UNCHANGED <<queue, context, clock, caller, m_destroyEvents, removed, m_stop,
                   cancelled, stops, ids, ran>>

RunReturns ==
    /\ pc = "loop" /\ (m_events = {} \/ m_stop)
    /\ pc' = "idle"
    /\ UNCHANGED <<queue, context, clock, caller, m_destroyEvents, removed, m_stop,
                   cancelled, stops, ids, ran>>

\* Simulator::Destroy: Destroy (), and the DoDispose of the last reference.
Destroy ==
    /\ pc = "idle"
    /\ pc' = "destroy"
    /\ UNCHANGED <<queue, context, clock, caller, m_destroyEvents, removed, m_stop,
                   cancelled, stops, ids, ran>>

DestroyOneEvent ==
    /\ pc = "destroy" /\ m_destroyEvents # <<>>
    /\ LET ev == Head(m_destroyEvents)
       IN  \/ ev.n \in cancelled /\ UNCHANGED <<pc, ran>>
           \/ ev.n \notin cancelled /\ pc' = "destroyEvent" /\ ran' = ran \cup {ev.n}
    /\ m_destroyEvents' = Tail(m_destroyEvents)
    /\ UNCHANGED <<queue, context, clock, caller, m_stop, cancelled, stops, ids,
                   removed>>

DestroyEventReturns ==
    /\ pc = "destroyEvent"
    /\ pc' = "destroy"
    /\ UNCHANGED <<queue, context, clock, caller, m_destroyEvents, removed, m_stop,
                   cancelled, stops, ids, ran>>

DoDispose ==
    /\ pc = "destroy" /\ m_destroyEvents = <<>>
    /\ pc' = "check" /\ caller' = "dispose"
    /\ UNCHANGED <<queue, context, clock, m_destroyEvents, removed, m_stop,
                   cancelled, stops, ids, ran>>

Main == \/ ProcessEventsWithContext
        \/ ProcessOneEvent \/ EventReturns \/ RunReturns
        \/ DestroyOneEvent \/ DestroyEventReturns \/ DoDispose

Next == \/ User
        \/ \E delay \in Delays : ScheduleWithContextOther(delay)
        \/ Run \/ Destroy
        \/ Main

\* The main thread keeps running and the functions it invokes return.
Fairness == WF_vars(Main)

Spec == Init /\ [][Next]_vars
FairSpec == Spec /\ Fairness

-----------------------------------------------------------------------------
\* Types of the variables.
TypeOK == /\ m_events \subseteq EventIds
          /\ m_eventsWithContext \in Seq(EventWithContext)
          /\ m_eventsWithContextEmpty \in BOOLEAN
          /\ eventsWithContext \in Seq(EventWithContext)
          /\ m_destroyEvents \in Seq(EventIds)
          /\ m_uid \in 0..UidMod - 1
          /\ m_currentTs \in 0..MaxTs
          /\ m_currentUid \in 0..UidMod - 1
          /\ m_stop \in BOOLEAN
          /\ m_unscheduledEvents \in Int
          /\ cancelled \subseteq 1..MaxEvents
          /\ stops \subseteq 1..MaxEvents
          /\ pc \in Running \cup {"idle", "destroy", "destroyEvent", "dead"}
          /\ caller \in {"run", "loop", "dispose"}
          /\ made \in 0..MaxEvents
          /\ ids \subseteq EventIds
          /\ ran \subseteq 1..MaxEvents
          /\ removed \subseteq 1..MaxEvents
          /\ waiting \in Nat

\* The scheduler sees a well-behaved user: every Insert, also that of an event
\* another thread scheduled some time ago, is after the event being run and has
\* a uid of its own, and the events are invoked in key order.  This is what
\* the schedulers' correctness rests on, CalendarScheduler's above all.
Key(e) == [ts |-> e.ts, uid |-> e.uid]
EventLists == INSTANCE EventList WITH
    m_list <- {Key(e) : e \in m_events},
    next   <- [ts |-> m_currentTs, uid |-> m_currentUid],
    MaxUid <- UidMod - 1
UsesEventList == EventLists!Init /\ [][EventLists!Next \/ pc' = "dead"]_EventLists!vars

\* IsExpired, which looks at the clock and the cancel bit only, tells exactly
\* which events will not be invoked any more: those that are neither pending
\* uncancelled in the scheduler nor in the list of destroy events.
ExpiredIffGone ==
    pc # "dead" =>
        \A id \in ids :
            IsExpired(id) <=> \/ id.n \in cancelled
                              \/ /\ id \notin m_events
                                 /\ \A i \in DOMAIN m_destroyEvents : m_destroyEvents[i] # id

\* The consistency test at the end of Run: m_unscheduledEvents counts the
\* events in the scheduler.
UnscheduledCount == pc # "dead" => m_unscheduledEvents = Cardinality(m_events)

\* No event is lost, duplicated or invoked twice, and an event counts from the
\* moment a thread gives it to the simulator: it is in one place, in the list
\* shared with the other threads, in the main thread's local copy, in the
\* scheduler or in the list of destroy events, and not invoked yet, until it is
\* invoked, or cancelled or removed by the user.  So neither the swap nor the
\* loop after it may drop what other threads hand over.
NoEventLost ==
    LET posted    == {m_eventsWithContext[i].n : i \in DOMAIN m_eventsWithContext}
        collected == {eventsWithContext[i].n : i \in DOMAIN eventsWithContext}
        pending   == {e.n : e \in m_events}
        destroy   == {m_destroyEvents[i].n : i \in DOMAIN m_destroyEvents}
    IN  /\ posted \cap collected = {}
        /\ (posted \cup collected) \cap (pending \cup destroy \cup ran) = {}
        /\ pending \cap destroy = {} /\ (pending \cup destroy) \cap ran = {}
        /\ pc # "dead" =>
              1..made \subseteq UNION {posted, collected, pending, destroy,
                                       ran, cancelled, removed}

\* An event that another thread scheduled before the current event began is in
\* the scheduler before the next event is chosen (and before Run gives up for
\* lack of events): no more than one event passes it by.
CollectedInTime == pc = "loop" => waiting = 0

\* Events with the same expiration time are invoked in the order in which they
\* were inserted: a new event goes behind the pending ones of its time, and of
\* these the first one is invoked.
Fifo ==
    [][/\ \A e \in m_events' \ m_events, f \in m_events :
             e.ts = f.ts => f.uid < e.uid
       /\ \A e \in m_events \ m_events', f \in m_events :
             (pc = "loop" /\ e.ts = f.ts) => e.uid <= f.uid]_vars

\* While Run is running and nobody stops it, a pending event that is not
\* cancelled is eventually invoked.
EventuallyRun ==
    \A n \in 1..MaxEvents :
        (/\ pc \in Running /\ caller # "dispose"
         /\ \E e \in m_events : e.n = n)
            ~> (n \in ran \cup cancelled \/ m_stop)
=============================================================================
