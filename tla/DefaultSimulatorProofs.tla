----------------------- MODULE DefaultSimulatorProofs -----------------------
(***************************************************************************)
(* The sequential simulator, for every set of delays and every bound, as   *)
(* long as m_uid does not wrap around.                                     *)
(***************************************************************************)
EXTENDS DefaultSimulator, SequenceTheorems, FiniteSetTheorems, TLAPS

\* Fewer events than uids: the events of a simulation get the uids from 4 on,
\* in order, and none of them meets the uid 2 of the destroy events.
NoWrap == MaxEvents + 4 <= UidMod

\* The increment of m_uid stays in its range, and is exact below the wrap.
LEMMA NextUid ==
    ASSUME NEW u \in 0..UidMod - 1
    PROVE  /\ (u + 1) % UidMod \in 0..UidMod - 1
           /\ u + 1 < UidMod => (u + 1) % UidMod = u + 1
BY UidModAssumption, Z3

-----------------------------------------------------------------------------
(* Type correctness, and that the local list of ProcessEventsWithContext   *)
(* is empty outside its loop.                                              *)

LocalList == pc # "drain" => eventsWithContext = <<>>

TypeInv == TypeOK /\ LocalList

\* An insertion within the bounds keeps the types.
LEMMA InsertType ==
    ASSUME TypeOK, NEW ts \in 0..MaxTs, NEW n \in 1..MaxEvents, Insert(ts, n)
    PROVE  /\ NewEvent(ts, n) \in EventIds
           /\ m_events' \subseteq EventIds
           /\ m_uid' \in 0..UidMod - 1
           /\ m_unscheduledEvents' \in Int
<1>1. m_uid \in 0..UidMod - 1 /\ m_events \subseteq EventIds /\ m_unscheduledEvents \in Int
    BY DEF TypeOK
<1>2. NewEvent(ts, n) \in EventIds
    BY <1>1, UidModAssumption DEF NewEvent, EventIds
<1>3. m_uid' \in 0..UidMod - 1
    BY <1>1, NextUid DEF Insert
<1>4. m_events' \subseteq EventIds
    BY <1>1, <1>2 DEF Insert
<1>5. m_unscheduledEvents' \in Int
    BY <1>1 DEF Insert
<1> QED
    BY <1>2, <1>3, <1>4, <1>5

\* The same when the main thread schedules the event itself.
LEMMA InsertNewType ==
    ASSUME TypeOK, NEW ts \in Nat, CanSchedule(ts), InsertNew(ts)
    PROVE  /\ ts \in 0..MaxTs /\ made + 1 \in 1..MaxEvents
           /\ Insert(ts, made + 1)
           /\ NewEvent(ts, made + 1) \in EventIds
           /\ m_events' \subseteq EventIds
           /\ m_uid' \in 0..UidMod - 1
           /\ m_unscheduledEvents' \in Int
           /\ made' \in 0..MaxEvents
<1>1. made \in 0..MaxEvents /\ made < MaxEvents /\ ts <= MaxTs
    BY DEF TypeOK, CanSchedule
<1>2. ts \in 0..MaxTs /\ made + 1 \in 1..MaxEvents /\ made' = made + 1
      /\ Insert(ts, made + 1)
    BY <1>1, MaxTsAssumption, MaxEventsAssumption DEF InsertNew
<1> QED
    BY <1>2, InsertType

LEMMA TypeInit == Init => TypeInv
<1> SUFFICES ASSUME Init PROVE TypeInv
    OBVIOUS
<1>1. <<>> \in Seq(EventWithContext) /\ <<>> \in Seq(EventIds)
    OBVIOUS
<1>3. LocalList
    BY DEF Init, LocalList
<1>5. m_eventsWithContextEmpty \in BOOLEAN /\ m_stop \in BOOLEAN
    BY Zenon DEF Init
<1>6. /\ m_uid \in 0..UidMod - 1 /\ m_currentTs \in 0..MaxTs
      /\ m_currentUid \in 0..UidMod - 1 /\ made \in 0..MaxEvents
      /\ m_unscheduledEvents \in Int /\ waiting \in Nat
    BY UidModAssumption, MaxTsAssumption, MaxEventsAssumption DEF Init
<1>4. TypeOK
    BY <1>1, <1>5, <1>6, Zenon DEF Init, TypeOK, Running
<1> QED
    BY <1>3, <1>4 DEF TypeInv

LEMMA TypeStep == TypeInv /\ [Next]_vars => TypeInv'
<1> SUFFICES ASSUME TypeInv, [Next]_vars
             PROVE  TypeInv'
    OBVIOUS
<1> USE UidModAssumption, DelaysAssumption, MaxTsAssumption, MaxEventsAssumption
    DEF TypeInv
<1>1. CASE UNCHANGED vars
    BY <1>1 DEF vars, queue, context, clock, control, TypeOK, LocalList
<1>2. ASSUME NEW delay \in Delays, Schedule(delay)
      PROVE  TypeInv'
  <2>1. /\ m_currentTs + delay \in Nat /\ CanSchedule(m_currentTs + delay)
        /\ InsertNew(m_currentTs + delay)
      BY <1>2 DEF Schedule, TypeOK
  <2>2. TypeOK'
      BY <1>2, <2>1, InsertNewType DEF Schedule, TypeOK, context, clock, control
  <2> QED
      BY <1>2, <2>2 DEF Schedule, LocalList, context, control
<1>3. CASE ScheduleNow
  <2>1. m_currentTs \in Nat /\ CanSchedule(m_currentTs) /\ InsertNew(m_currentTs)
      BY <1>3 DEF ScheduleNow, TypeOK
  <2>2. TypeOK'
      BY <1>3, <2>1, InsertNewType DEF ScheduleNow, TypeOK, context, clock, control
  <2> QED
      BY <1>3, <2>2 DEF ScheduleNow, LocalList, context, control
<1>4. ASSUME NEW delay \in Delays, ScheduleWithContext(delay)
      PROVE  TypeInv'
  <2>1. /\ m_currentTs + delay \in Nat /\ CanSchedule(m_currentTs + delay)
        /\ InsertNew(m_currentTs + delay)
      BY <1>4 DEF ScheduleWithContext, TypeOK
  <2>2. TypeOK'
      BY <1>4, <2>1, InsertNewType DEF ScheduleWithContext, TypeOK, context, clock, control
  <2> QED
      BY <1>4, <2>2 DEF ScheduleWithContext, LocalList, context, control
<1>5. ASSUME NEW delay \in Delays, StopDelay(delay)
      PROVE  TypeInv'
  <2>1. /\ m_currentTs + delay \in Nat /\ CanSchedule(m_currentTs + delay)
        /\ InsertNew(m_currentTs + delay)
      BY <1>5 DEF StopDelay, TypeOK
  <2>2. stops' \subseteq 1..MaxEvents
      BY <1>5, <2>1, InsertNewType DEF StopDelay, TypeOK
  <2>3. TypeOK'
      BY <1>5, <2>1, <2>2, InsertNewType DEF StopDelay, TypeOK, context, clock, control
  <2> QED
      BY <1>5, <2>3 DEF StopDelay, LocalList, context, control
<1>6. CASE ScheduleDestroy
  <2> DEFINE id == [ts |-> m_currentTs, uid |-> 2, n |-> made + 1]
  <2>1. made < MaxEvents
      BY <1>6 DEF ScheduleDestroy, CanSchedule
  <2>2. id \in EventIds
      BY <2>1 DEF EventIds, TypeOK
  <2>3. m_destroyEvents' \in Seq(EventIds) /\ ids' \subseteq EventIds
      BY <1>6, <2>2 DEF ScheduleDestroy, TypeOK
  <2>4. m_uid' \in 0..UidMod - 1
      BY <1>6, NextUid DEF ScheduleDestroy, TypeOK
  <2>5. TypeOK'
      BY <1>6, <2>1, <2>3, <2>4 DEF ScheduleDestroy, TypeOK, context, clock, control
  <2> QED
      BY <1>6, <2>5 DEF ScheduleDestroy, LocalList, context, control
<1>7. ASSUME NEW id \in ids, Remove(id)
      PROVE  TypeInv'
  <2>1. m_destroyEvents' \in Seq(EventIds)
    <3>1. CASE UNCHANGED m_destroyEvents
        BY <3>1 DEF TypeOK
    <3>2. CASE \E i \in DOMAIN m_destroyEvents :
                  m_destroyEvents' = SubSeq(m_destroyEvents, 1, i - 1)
                                       \o SubSeq(m_destroyEvents, i + 1, Len(m_destroyEvents))
        BY <3>2, SubSeqProperties, ConcatProperties DEF TypeOK
    <3> QED
        BY <1>7, <3>1, <3>2 DEF Remove
  <2>2. cancelled' \subseteq 1..MaxEvents
      BY <1>7 DEF Remove, TypeOK, EventIds
  <2>3. m_events' \subseteq EventIds /\ m_unscheduledEvents' \in Int
      BY <1>7 DEF Remove, TypeOK
  <2>4. UNCHANGED <<m_uid, made, context, clock, control, m_stop, stops, ids, ran>>
      BY <1>7 DEF Remove
  <2>5. removed' \subseteq 1..MaxEvents
      BY <1>7 DEF Remove, TypeOK, EventIds
  <2> QED
      BY <2>1, <2>2, <2>3, <2>4, <2>5 DEF TypeOK, LocalList, context, clock, control
<1>8. ASSUME NEW id \in ids, Cancel(id)
      PROVE  TypeInv'
    BY <1>8 DEF Cancel, TypeOK, LocalList, EventIds, queue, context, clock, control
<1>9. CASE Stop
    BY <1>9 DEF Stop, TypeOK, LocalList, queue, context, clock, control
<1>10. ASSUME NEW delay \in Delays, ScheduleWithContextOther(delay)
       PROVE  TypeInv'
  <2>1. made < MaxEvents /\ made \in 0..MaxEvents
      BY <1>10 DEF ScheduleWithContextOther, CanSchedule, TypeOK
  <2>2. [timestamp |-> delay, n |-> made + 1] \in EventWithContext
      BY <2>1 DEF EventWithContext
  <2>3. m_eventsWithContext' \in Seq(EventWithContext)
      BY <1>10, <2>2 DEF ScheduleWithContextOther, TypeOK
  <2>4. m_eventsWithContextEmpty' \in BOOLEAN
      BY <1>10, Zenon DEF ScheduleWithContextOther
  <2>5. made' = made + 1 /\ m_stop' \in BOOLEAN
      BY <1>10, Zenon DEF ScheduleWithContextOther, TypeOK
  <2>6. made' \in 0..MaxEvents
      BY <2>1, <2>5
  <2>7. UNCHANGED <<m_events, m_uid, m_unscheduledEvents, eventsWithContext, waiting,
                    clock, control, m_destroyEvents, removed, cancelled, stops, ids, ran>>
      BY <1>10, Zenon DEF ScheduleWithContextOther
  <2>8. TypeOK'
      BY <2>3, <2>4, <2>5, <2>6, <2>7 DEF TypeOK, clock, control
  <2> QED
      BY <1>10, <2>8 DEF ScheduleWithContextOther, LocalList, control
<1>11. CASE CheckFlag
    BY <1>11 DEF CheckFlag, Return, TypeOK, LocalList, Running, context, clock
<1>12. CASE Swap
  <2>1. TypeOK'
      BY <1>12 DEF Swap, TypeOK, Running, queue, clock
  <2> QED
      BY <1>12, <2>1 DEF Swap, LocalList
<1>13. CASE InsertCollected
  <2> DEFINE event == Head(eventsWithContext)
             ts == m_currentTs + event.timestamp
  <2>1. eventsWithContext' \in Seq(EventWithContext) /\ event \in EventWithContext
      BY <1>13 DEF InsertCollected, TypeOK
  <2>2. event.timestamp \in Delays /\ event.n \in 1..MaxEvents
      BY <2>1, Zenon DEF EventWithContext
  <2>3. ts <= MaxTs /\ Insert(ts, event.n)
      BY <1>13, Zenon DEF InsertCollected
  <2>4. ts \in 0..MaxTs
    <3>1. event.timestamp \in Nat
        BY <2>2, Zenon
    <3>2. m_currentTs \in Nat
        BY DEF TypeOK
    <3> QED
        BY <2>3, <3>1, <3>2
  <2> HIDE DEF ts, event
  <2>5. TypeOK'
      BY <1>13, <2>1, <2>2, <2>3, <2>4, InsertType DEF InsertCollected, TypeOK, clock, control
  <2> QED
      BY <1>13, <2>5 DEF InsertCollected, LocalList, control
<1>14. CASE Drained
    BY <1>14 DEF Drained, Return, TypeOK, LocalList, Running, context, clock
<1>15. CASE Run
    BY <1>15 DEF Run, TypeOK, LocalList, Running, queue, clock
<1>16. CASE ProcessOneEvent
  <2>1. PICK next \in m_events : /\ m_events' = m_events \ {next}
                                /\ m_unscheduledEvents' = m_unscheduledEvents - 1
                                /\ m_currentTs' = next.ts
                                /\ m_currentUid' = next.uid
                                /\ pc' \in {"check", "event"}
                                /\ ran' \in {ran, ran \cup {next.n}}
      BY <1>16 DEF ProcessOneEvent
  <2>2. next.ts \in 0..MaxTs /\ next.uid \in 0..UidMod - 1 /\ next.n \in 1..MaxEvents
      BY DEF TypeOK, EventIds
  <2>4. m_stop' \in BOOLEAN
      BY <1>16, Zenon DEF ProcessOneEvent, TypeOK
  <2>5. waiting' \in Nat /\ caller' = "loop" /\ m_unscheduledEvents' \in Int
      BY <1>16, <2>1 DEF ProcessOneEvent, TypeOK
  <2>6. ran' \subseteq 1..MaxEvents /\ m_events' \subseteq EventIds
      BY <2>1, <2>2 DEF TypeOK
  <2>7. pc' \in Running
      BY <2>1 DEF Running
  <2>8. UNCHANGED <<m_uid, made, m_eventsWithContext, m_eventsWithContextEmpty,
                    eventsWithContext, m_destroyEvents, removed, cancelled, stops, ids>>
      BY <1>16 DEF ProcessOneEvent
  <2>3. TypeOK'
      BY <2>1, <2>2, <2>4, <2>5, <2>6, <2>7, <2>8 DEF TypeOK
  <2> QED
      BY <1>16, <2>1, <2>3, <2>8 DEF ProcessOneEvent, LocalList
<1>17. CASE EventReturns \/ RunReturns \/ Destroy \/ DestroyEventReturns
    BY <1>17 DEF EventReturns, RunReturns, Destroy, DestroyEventReturns,
                 TypeOK, LocalList, Running, queue, context, clock
<1>18. CASE DestroyOneEvent
  <2>1. Head(m_destroyEvents) \in EventIds /\ m_destroyEvents' \in Seq(EventIds)
      BY <1>18 DEF DestroyOneEvent, TypeOK
  <2> QED
      BY <1>18, <2>1 DEF DestroyOneEvent, TypeOK, LocalList, Running, EventIds,
                         queue, context, clock
<1>19. CASE DoDispose
    BY <1>19 DEF DoDispose, TypeOK, LocalList, Running, queue, context, clock
<1> QED
    BY <1>1, <1>2, <1>3, <1>4, <1>5, <1>6, <1>7, <1>8, <1>9, <1>10, <1>11, <1>12,
       <1>13, <1>14, <1>15, <1>16, <1>17, <1>18, <1>19
    DEF Next, User, Main, ProcessEventsWithContext

\* Type correctness of the simulator, for all constants: in particular m_uid
\* stays in its range although it wraps, and what other threads post has a
\* number and a delay when it is collected.
THEOREM TypeCorrect == Spec => []TypeOK
<1> QED
    BY TypeInit, TypeStep, PTL DEF Spec, TypeInv
-----------------------------------------------------------------------------
(* The order of events.  As long as m_uid does not wrap, uids are given in *)
(* insertion order, and the key of every pending event is after the key of *)
(* the event that runs.                                                    *)

CurrentKey == [ts |-> m_currentTs, uid |-> m_currentUid]

\* The number of uids given: an event of another thread gets its uid when the
\* main thread collects it.
inserted == made - Len(m_eventsWithContext) - Len(eventsWithContext)

UidsInOrder == /\ inserted \in Nat
               /\ inserted < MaxEvents => m_uid = inserted + 4
               /\ m_currentUid <= inserted + 3
               /\ \A e \in m_events : e.uid >= 4 /\ e.uid <= inserted + 3
               /\ \A e, f \in m_events : e.uid = f.uid => e = f

PendingAfterCurrent == \A e \in m_events : Less(CurrentKey, e)

KeyInv == UidsInOrder /\ PendingAfterCurrent

\* Which EventIds the user holds and where their events are.
IdsTracked ==
    /\ \A i \in DOMAIN m_destroyEvents : m_destroyEvents[i].uid = 2
    /\ pc # "dead" =>
          \A id \in ids : id.uid # 2 =>
              id \in m_events \/ id.n \in cancelled \/ ~Less(CurrentKey, id)

\* Insertion at or after the current time: the new event is last in its
\* time stamp, its uid is new, and the event list sees a legal Insert.
LEMMA InsertKey ==
    ASSUME NoWrap, TypeOK, KeyInv, NEW ts \in 0..MaxTs, NEW n \in 1..MaxEvents,
           m_currentTs <= ts, Insert(ts, n), UNCHANGED clock,
           inserted < MaxEvents, inserted' = inserted + 1
    PROVE  /\ KeyInv'
           /\ NewEvent(ts, n) \notin m_events
           /\ \A f \in m_events : f.uid < NewEvent(ts, n).uid
           /\ EventLists!Next
<1>1. /\ m_uid \in 0..UidMod - 1 /\ m_events \subseteq EventIds /\ inserted \in Nat
      /\ m_currentTs \in 0..MaxTs /\ m_currentUid \in 0..UidMod - 1
    BY DEF TypeOK, KeyInv, UidsInOrder
<1>2. m_uid = inserted + 4 /\ m_currentUid < m_uid
    BY <1>1 DEF KeyInv, UidsInOrder
<1> DEFINE ev == NewEvent(ts, n)
<1>3. ev = [ts |-> ts, uid |-> m_uid, n |-> n]
    BY DEF NewEvent
<1>9. \A e \in m_events : e.uid \in Nat /\ e.uid < ev.uid
    BY <1>1, <1>2, <1>3 DEF KeyInv, UidsInOrder, EventIds
<1>10. ev \notin m_events
    BY <1>9
<1>4. UidsInOrder'
  <2>1. m_currentUid' = m_currentUid /\ m_events' = m_events \cup {ev}
      BY DEF Insert, clock
  <2>2. inserted' < MaxEvents => m_uid' = inserted' + 4
    <3>1. m_uid' = (m_uid + 1) % UidMod
        BY DEF Insert
    <3>2. inserted' < MaxEvents => m_uid + 1 < UidMod
        BY <1>1, <1>2, UidModAssumption, MaxEventsAssumption DEF NoWrap
    <3>3. inserted' < MaxEvents => m_uid' = m_uid + 1
        BY <1>1, <3>1, <3>2, NextUid
    <3> QED
        BY <1>1, <1>2, <3>3
  <2>3. m_currentUid' <= inserted' + 3 /\ inserted' \in Nat
      BY <1>1, <1>2, <2>1
  <2>4. ASSUME NEW e \in m_events'
        PROVE  e.uid >= 4 /\ e.uid <= inserted' + 3
    <3>1. CASE e \in m_events
        BY <1>1, <3>1 DEF KeyInv, UidsInOrder, EventIds
    <3>2. CASE e = ev
        BY <1>1, <1>2, <1>3, <3>2
    <3> QED
        BY <2>1, <2>4, <3>1, <3>2
  <2>5. ASSUME NEW e \in m_events', NEW f \in m_events', e.uid = f.uid
        PROVE  e = f
    <3>1. CASE e \in m_events /\ f \in m_events
        BY <2>5, <3>1 DEF KeyInv, UidsInOrder
    <3>2. CASE e = ev /\ f \in m_events
        BY <1>1, <1>2, <1>3, <1>9, <2>5, <3>2
    <3>3. CASE e \in m_events /\ f = ev
        BY <1>1, <1>2, <1>3, <1>9, <2>5, <3>3
    <3> QED
        BY <2>1, <2>5, <3>1, <3>2, <3>3
  <2> HIDE DEF inserted
  <2> QED
      BY <2>2, <2>3, <2>4, <2>5 DEF UidsInOrder
<1>5. Less(CurrentKey, ev)
    BY <1>1, <1>2, <1>3 DEF Less, CurrentKey
<1>6. PendingAfterCurrent'
  <2>1. CurrentKey' = CurrentKey
      BY DEF CurrentKey, clock
  <2> QED
      BY <1>5, <2>1 DEF PendingAfterCurrent, KeyInv, Insert
<1>7. EventLists!Insert(Key(ev))
  <2>1. Less(CurrentKey, Key(ev))
      BY <1>3, <1>5 DEF Less, Key, CurrentKey
  <2>2. \A e \in m_events : e.uid # ev.uid
      BY <1>1, <1>2, <1>3, <1>9
  <2>3. \A k \in {Key(e) : e \in m_events} : k.uid # Key(ev).uid
      BY <2>2 DEF Key
  <2>4. {Key(e) : e \in m_events}' = {Key(e) : e \in m_events} \cup {Key(ev)}
      BY DEF Insert
  <2>5. UNCHANGED CurrentKey
      BY DEF CurrentKey, clock
  <2> QED
      BY <2>1, <2>3, <2>4, <2>5 DEF EventLists!Insert, EventLists!Less, Less, CurrentKey
<1>8. Key(ev) \in EventLists!Keys
    BY <1>1, <1>2, <1>3, UidModAssumption, MaxTsAssumption DEF Key, EventLists!Keys
<1> QED
    BY <1>4, <1>6, <1>7, <1>8, <1>9, <1>10 DEF KeyInv, EventLists!Next

\* The two ways into the scheduler: an event the main thread schedules, and
\* one that it collects.
LEMMA InsertNewKey ==
    ASSUME NoWrap, TypeOK, KeyInv, NEW ts \in Nat, m_currentTs <= ts, CanSchedule(ts),
           InsertNew(ts), UNCHANGED clock, UNCHANGED context
    PROVE  /\ KeyInv'
           /\ ts \in 0..MaxTs
           /\ NewEvent(ts, made + 1) \notin m_events
           /\ \A f \in m_events : f.uid < NewEvent(ts, made + 1).uid
           /\ EventLists!Next
<1>1. /\ ts \in 0..MaxTs /\ made + 1 \in 1..MaxEvents /\ Insert(ts, made + 1)
    BY InsertNewType
<1>2. made \in Nat /\ made < MaxEvents /\ made' = made + 1
    BY DEF TypeOK, CanSchedule, InsertNew
<1>3. Len(m_eventsWithContext) \in Nat /\ Len(eventsWithContext) \in Nat
    BY DEF TypeOK
<1>4. inserted < MaxEvents
    BY <1>2, <1>3, MaxEventsAssumption DEF inserted
<1>5. inserted' = inserted + 1
    BY <1>2, <1>3 DEF inserted, context
<1> QED
    BY <1>1, <1>4, <1>5, InsertKey

LEMMA CollectKey ==
    ASSUME NoWrap, TypeOK, KeyInv, InsertCollected
    PROVE  \E ts \in 0..MaxTs, n \in 1..MaxEvents :
              /\ Insert(ts, n)
              /\ KeyInv'
              /\ NewEvent(ts, n) \notin m_events
              /\ \A f \in m_events : f.uid < NewEvent(ts, n).uid
              /\ EventLists!Next
<1> DEFINE event == Head(eventsWithContext)
           ts == m_currentTs + event.timestamp
<1>1. /\ eventsWithContext \in Seq(EventWithContext) /\ eventsWithContext # <<>>
      /\ eventsWithContext' = Tail(eventsWithContext)
      /\ UNCHANGED <<made, m_eventsWithContext>>
    BY DEF InsertCollected, TypeOK
<1>2. /\ event \in EventWithContext
      /\ Len(eventsWithContext) \in Nat /\ Len(eventsWithContext) > 0
      /\ Len(eventsWithContext') = Len(eventsWithContext) - 1
    BY <1>1
<1>3. event.timestamp \in Delays /\ event.n \in 1..MaxEvents
    BY <1>2, Zenon DEF EventWithContext
<1>4. ts <= MaxTs /\ Insert(ts, event.n)
    BY Zenon DEF InsertCollected
<1>5. event.timestamp \in Nat
    BY <1>3, DelaysAssumption
<1>6. m_currentTs \in Nat
    BY DEF TypeOK
<1>7. ts \in 0..MaxTs /\ m_currentTs <= ts
    BY <1>4, <1>5, <1>6, MaxTsAssumption
<1>8. made \in 0..MaxEvents /\ Len(m_eventsWithContext) \in Nat
    BY DEF TypeOK
<1>9. inserted < MaxEvents
    BY <1>2, <1>8, MaxEventsAssumption DEF inserted
<1>10. inserted' = inserted + 1
    BY <1>1, <1>2, <1>8 DEF inserted
<1>11. UNCHANGED clock
    BY DEF InsertCollected
<1> HIDE DEF ts, event
<1> QED
    BY <1>3, <1>4, <1>7, <1>9, <1>10, <1>11, InsertKey

\* A step of the simulator that inserts no event and runs none.
LEMMA QuietKey ==
    ASSUME TypeOK, KeyInv, UNCHANGED clock, m_events' \subseteq m_events,
           UNCHANGED <<m_uid, inserted>>
    PROVE  KeyInv'
BY DEF KeyInv, UidsInOrder, PendingAfterCurrent, CurrentKey, clock

\* ProcessOneEvent is a RemoveNext of the event list: the clock moves forward
\* to the event it runs, and what stays pending is after it.
LEMMA ProcessOneEventKey ==
    ASSUME NoWrap, TypeOK, KeyInv, ProcessOneEvent
    PROVE  /\ KeyInv'
           /\ EventLists!Next
           /\ \E next \in m_events : /\ m_events' = m_events \ {next}
                                     /\ CurrentKey' = Key(next)
                                     /\ Less(CurrentKey, next)
                                     /\ \A f \in m_events \ {next} : Less(next, f)
<1>1. PICK next \in m_events : /\ IsEarliest(next, m_events)
                              /\ m_events' = m_events \ {next}
                              /\ m_currentTs' = next.ts
                              /\ m_currentUid' = next.uid
    BY DEF ProcessOneEvent
<1>2. UNCHANGED <<m_uid, inserted>>
    BY DEF ProcessOneEvent, inserted
<1>3. CurrentKey' = Key(next)
    BY <1>1 DEF CurrentKey, Key
<1>4. \A f \in m_events \ {next} : Less(next, f)
    BY <1>1 DEF IsEarliest
<1>5. PendingAfterCurrent'
    BY <1>1, <1>3, <1>4 DEF PendingAfterCurrent, Less, Key
<1>6. UidsInOrder'
    BY <1>1, <1>2, UidModAssumption, MaxEventsAssumption DEF KeyInv, UidsInOrder, TypeOK, EventIds
<1>7. EventLists!RemoveNext
  <2> DEFINE list == {Key(e) : e \in m_events}
  <2>1. ASSUME NEW f \in m_events, Key(f) = Key(next)
        PROVE  f = next
    <3>2. f.ts = next.ts /\ f.uid = next.uid
        BY <2>1 DEF Key
    <3> QED
        BY <3>2 DEF KeyInv, UidsInOrder
  <2>2. list' = list \ {Key(next)}
      BY <1>1, <2>1
  <2>3. \A k \in list \ {Key(next)} : Less(Key(next), k)
      BY <1>4, <2>1 DEF Less, Key
  <2>4. EventLists!PeekNext(Key(next))
      BY <2>3 DEF EventLists!PeekNext, EventLists!IsEarliest, EventLists!Less, Less
  <2> QED
      BY <1>3, <2>2, <2>4 DEF EventLists!RemoveNext, CurrentKey
<1> QED
    BY <1>1, <1>3, <1>4, <1>5, <1>6, <1>7 DEF KeyInv, EventLists!Next, PendingAfterCurrent

ListVars == <<{Key(e) : e \in m_events}, CurrentKey>>

ListStep == EventLists!Next \/ pc' = "dead" \/ UNCHANGED ListVars

LEMMA KeyStep ==
    ASSUME NoWrap, TypeInv, KeyInv, [Next]_vars
    PROVE  KeyInv' /\ ListStep
<1> USE UidModAssumption, DelaysAssumption, MaxTsAssumption, MaxEventsAssumption
    DEF TypeInv
<1>c. \A delay \in Delays : /\ m_currentTs + delay \in Nat
                            /\ m_currentTs <= m_currentTs + delay
    BY DEF TypeOK
<1>d. ASSUME m_events' = m_events, UNCHANGED <<m_uid, inserted>>, UNCHANGED clock
      PROVE  KeyInv' /\ ListStep
    BY <1>d, QuietKey DEF ListStep, ListVars, CurrentKey, clock
<1>e. ASSUME UNCHANGED queue, UNCHANGED context, UNCHANGED clock
      PROVE  KeyInv' /\ ListStep
    BY <1>e, <1>d DEF queue, context, inserted
<1>1. CASE UNCHANGED vars
    BY <1>1, <1>e DEF vars
<1>2. ASSUME NEW delay \in Delays,
             Schedule(delay) \/ ScheduleWithContext(delay) \/ StopDelay(delay)
      PROVE  KeyInv' /\ ListStep
  <2>1. /\ CanSchedule(m_currentTs + delay) /\ InsertNew(m_currentTs + delay)
        /\ UNCHANGED clock /\ UNCHANGED context
      BY <1>2 DEF Schedule, ScheduleWithContext, StopDelay
  <2> QED
      BY <1>c, <2>1, InsertNewKey DEF ListStep
<1>3. CASE ScheduleNow
  <2>1. /\ CanSchedule(m_currentTs) /\ InsertNew(m_currentTs)
        /\ UNCHANGED clock /\ UNCHANGED context
        /\ m_currentTs \in Nat /\ m_currentTs <= m_currentTs
      BY <1>3 DEF ScheduleNow, TypeOK
  <2> QED
      BY <2>1, InsertNewKey DEF ListStep
<1>4. CASE ScheduleDestroy
  <2>1. m_events' = m_events /\ UNCHANGED clock /\ UNCHANGED context
        /\ made' = made + 1 /\ m_uid' = (m_uid + 1) % UidMod /\ made < MaxEvents
      BY <1>4 DEF ScheduleDestroy, CanSchedule
  <2>2. /\ made \in Nat /\ m_uid \in 0..UidMod - 1 /\ m_currentUid \in 0..UidMod - 1
        /\ Len(m_eventsWithContext) \in Nat /\ Len(eventsWithContext) \in Nat
        /\ inserted \in Nat
      BY DEF TypeOK, KeyInv, UidsInOrder
  <2>3. inserted' = inserted + 1 /\ inserted < MaxEvents
      BY <2>1, <2>2 DEF inserted, context
  <2>4. inserted' < MaxEvents => m_uid' = inserted' + 4
    <3>1. m_uid = inserted + 4
        BY <2>3 DEF KeyInv, UidsInOrder
    <3>2. inserted' < MaxEvents => m_uid + 1 < UidMod
        BY <2>2, <2>3, <3>1 DEF NoWrap
    <3> QED
        BY <2>1, <2>2, <2>3, <3>1, <3>2, NextUid
  <2>5. \A e \in m_events' : e.uid >= 4 /\ e.uid <= inserted' + 3
      BY <2>1, <2>2, <2>3 DEF KeyInv, UidsInOrder, TypeOK, EventIds
  <2>6. m_currentUid' <= inserted' + 3 /\ inserted' \in Nat
      BY <2>1, <2>2, <2>3 DEF KeyInv, UidsInOrder, clock
  <2>7. PendingAfterCurrent'
      BY <2>1 DEF KeyInv, PendingAfterCurrent, CurrentKey, clock
  <2>8. UidsInOrder'
      BY <2>1, <2>4, <2>5, <2>6 DEF KeyInv, UidsInOrder
  <2> QED
      BY <2>1, <2>7, <2>8 DEF KeyInv, ListStep, ListVars, CurrentKey, clock
<1>5. ASSUME NEW id \in ids, Remove(id)
      PROVE  KeyInv' /\ ListStep
  <2>1. UNCHANGED <<m_uid, inserted>> /\ UNCHANGED clock
      BY <1>5 DEF Remove, inserted, context
  <2>2. CASE m_events' = m_events
      BY <2>1, <2>2, <1>d
  <2>3. CASE m_events' = m_events \ {id} /\ id \in m_events
    <3>1. KeyInv'
        BY <2>1, <2>3, QuietKey
    <3>2. \A f \in m_events : Key(f) = Key(id) => f = id
      <4>1. SUFFICES ASSUME NEW f \in m_events, Key(f) = Key(id)
                     PROVE  f = id
          OBVIOUS
      <4>2. f.uid = id.uid
          BY <4>1 DEF Key
      <4> QED
          BY <2>3, <4>2 DEF KeyInv, UidsInOrder
    <3>3. {Key(e) : e \in m_events}' = {Key(e) : e \in m_events} \ {Key(id)}
        BY <2>3, <3>2
    <3>4. UNCHANGED CurrentKey
        BY <2>1 DEF CurrentKey, clock
    <3>5. EventLists!Remove(Key(id)) /\ Key(id) \in {Key(e) : e \in m_events}
        BY <2>3, <3>3, <3>4 DEF EventLists!Remove, CurrentKey
    <3> QED
        BY <3>1, <3>5 DEF ListStep, EventLists!Next
  <2>4. m_events' = m_events \/ m_events' = m_events \ {id}
      BY <1>5 DEF Remove
  <2>5. m_events' = m_events \/ (m_events' = m_events \ {id} /\ id \in m_events)
      BY <2>4
  <2> QED
      BY <2>2, <2>3, <2>5
<1>6. ASSUME NEW id \in ids, Cancel(id)
      PROVE  KeyInv' /\ ListStep
    BY <1>6, <1>e DEF Cancel
<1>7. ASSUME NEW delay \in Delays, ScheduleWithContextOther(delay)
      PROVE  KeyInv' /\ ListStep
  <2>1. /\ made' = made + 1 /\ eventsWithContext' = eventsWithContext
        /\ m_eventsWithContext' =
              Append(m_eventsWithContext, [timestamp |-> delay, n |-> made + 1])
        /\ UNCHANGED <<m_events, m_uid>> /\ UNCHANGED clock
      BY <1>7 DEF ScheduleWithContextOther
  <2>2. /\ Len(m_eventsWithContext') = Len(m_eventsWithContext) + 1
        /\ Len(m_eventsWithContext) \in Nat /\ Len(eventsWithContext) \in Nat
        /\ made \in Nat
      BY <2>1 DEF TypeOK
  <2>3. UNCHANGED inserted
      BY <2>1, <2>2 DEF inserted
  <2> QED
      BY <2>1, <2>3, <1>d
<1>8. CASE CheckFlag \/ Drained
  <2>1. UNCHANGED <<m_uid, inserted>> /\ UNCHANGED clock
      BY <1>8 DEF CheckFlag, Drained, inserted, context
  <2>2. m_events' = m_events \/ (m_events' = {} /\ pc' = "dead")
      BY <1>8 DEF CheckFlag, Drained, Return
  <2> QED
      BY <2>1, <2>2, <1>d, QuietKey DEF ListStep
<1>9. CASE InsertCollected
    BY <1>9, CollectKey DEF ListStep
<1>10. CASE ProcessOneEvent
    BY <1>10, ProcessOneEventKey DEF ListStep
<1>11. CASE Swap
  <2>1. /\ m_eventsWithContext' = <<>> /\ eventsWithContext' = m_eventsWithContext
        /\ UNCHANGED queue /\ UNCHANGED clock /\ eventsWithContext = <<>>
      BY <1>11 DEF Swap, LocalList
  <2>2. Len(eventsWithContext) = 0 /\ Len(m_eventsWithContext') = 0
      BY <2>1
  <2>3. UNCHANGED inserted
      BY <2>1, <2>2 DEF inserted, queue, TypeOK
  <2> QED
      BY <2>1, <2>3, <1>d DEF queue
<1>12. CASE Stop \/ EventReturns \/ RunReturns \/ Destroy
            \/ DestroyOneEvent \/ DestroyEventReturns \/ DoDispose
    BY <1>12, <1>e DEF Stop, EventReturns, RunReturns, Destroy,
                       DestroyOneEvent, DestroyEventReturns, DoDispose
<1>13. CASE Run
    BY <1>13, <1>d DEF Run, queue, inserted
<1> QED
    BY <1>1, <1>2, <1>3, <1>4, <1>5, <1>6, <1>7, <1>8, <1>9, <1>10, <1>11,
       <1>12, <1>13
    DEF Next, User, Main, ProcessEventsWithContext

LEMMA KeyInit == Init => KeyInv
<1> SUFFICES ASSUME Init PROVE KeyInv
    OBVIOUS
<1>1. Len(m_eventsWithContext) = 0 /\ Len(eventsWithContext) = 0 /\ made = 0
    BY DEF Init
<1>2. inserted = 0
    BY <1>1 DEF inserted
<1>3. m_events = {} /\ m_uid = 4 /\ m_currentUid = 0
    BY DEF Init
<1> QED
    BY <1>2, <1>3 DEF KeyInv, UidsInOrder, PendingAfterCurrent

\* What a step does to the scheduler.  A new event has a uid above the others.
NewBehind(ts, n) == /\ Insert(ts, n)
                    /\ NewEvent(ts, n) \notin m_events
                    /\ \A f \in m_events : f.uid < NewEvent(ts, n).uid

LEMMA QueueStep ==
    ASSUME NoWrap, TypeInv, KeyInv, [Next]_vars
    PROVE  \/ /\ UNCHANGED <<m_events, m_unscheduledEvents>>
              /\ pc = "dead" => pc' = "dead"
           \/ /\ pc' = pc
              /\ \E ts, n : NewBehind(ts, n)
           \/ /\ pc # "dead"
              /\ m_unscheduledEvents' = m_unscheduledEvents - 1
              /\ \E e : /\ m_events' = m_events \ {e}
                        /\ e \in m_events \/ (e \in ids /\ e.uid # 2 /\ ~IsExpired(e))
           \/ m_events' = {} /\ pc' = "dead"
<1> USE DEF TypeInv
<1>1. CASE UNCHANGED vars
    BY <1>1 DEF vars, queue, control
<1>2. ASSUME NEW ts \in Nat, m_currentTs <= ts, CanSchedule(ts), InsertNew(ts),
             UNCHANGED clock, UNCHANGED context
      PROVE  \E t, n : NewBehind(t, n)
  <2>1. Insert(ts, made + 1)
      BY <1>2 DEF InsertNew
  <2> QED
      BY <1>2, <2>1, InsertNewKey DEF NewBehind
<1>3. \A delay \in Delays : /\ m_currentTs + delay \in Nat
                            /\ m_currentTs <= m_currentTs + delay
    BY DelaysAssumption DEF TypeOK
<1>4. ASSUME NEW delay \in Delays,
             Schedule(delay) \/ ScheduleWithContext(delay) \/ StopDelay(delay)
      PROVE  pc' = pc /\ \E t, n : NewBehind(t, n)
    BY <1>4, <1>3, <1>2 DEF Schedule, ScheduleWithContext, StopDelay, control
<1>5. CASE ScheduleNow
  <2>1. m_currentTs \in Nat /\ m_currentTs <= m_currentTs
      BY DEF TypeOK
  <2> QED
      BY <1>5, <1>2, <2>1 DEF ScheduleNow, control
<1>6. ASSUME NEW id \in ids, Remove(id)
      PROVE  \/ UNCHANGED <<m_events, m_unscheduledEvents>> /\ pc' = pc
             \/ /\ pc # "dead"
                /\ m_unscheduledEvents' = m_unscheduledEvents - 1
                /\ m_events' = m_events \ {id} /\ id.uid # 2 /\ ~IsExpired(id)
    BY <1>6 DEF Remove, UserCode, control
<1>7. ASSUME ScheduleDestroy \/ Stop \/ \E id \in ids : Cancel(id)
      PROVE  UNCHANGED <<m_events, m_unscheduledEvents>> /\ pc' = pc
    BY <1>7 DEF ScheduleDestroy, Stop, Cancel, queue, control
<1>8. ASSUME NEW delay \in Delays, ScheduleWithContextOther(delay)
      PROVE  UNCHANGED <<m_events, m_unscheduledEvents>> /\ pc' = pc
    BY <1>8 DEF ScheduleWithContextOther, control
<1>9. CASE CheckFlag \/ Drained
    BY <1>9 DEF CheckFlag, Drained, Return
<1>10. CASE InsertCollected
  <2>1. pc' = pc
      BY <1>10 DEF InsertCollected, control
  <2> QED
      BY <1>10, <2>1, CollectKey DEF NewBehind
<1>11. CASE ProcessOneEvent
    BY <1>11 DEF ProcessOneEvent
<1>12. CASE Swap \/ Run \/ EventReturns \/ RunReturns \/ Destroy \/ DestroyOneEvent
            \/ DestroyEventReturns \/ DoDispose
    BY <1>12 DEF Swap, Run, EventReturns, RunReturns, Destroy, DestroyOneEvent,
                 DestroyEventReturns, DoDispose, queue
<1> QED
    BY <1>1, <1>4, <1>5, <1>6, <1>7, <1>8, <1>9, <1>10, <1>11, <1>12
    DEF Next, User, Main, ProcessEventsWithContext

\* The simulator is a well-behaved user of its scheduler (UsesEventList): its
\* events run in key order, and no event, be it scheduled by an event or
\* collected from another thread, is ever inserted behind the current one.
THEOREM SimulatorUsesEventList == NoWrap => (Spec => UsesEventList)
<1> SUFFICES ASSUME NoWrap PROVE Spec => UsesEventList
    OBVIOUS
<1>1. Init => TypeInv /\ KeyInv /\ EventLists!Init
  <2>2. Init => EventLists!Init
      BY DEF Init, EventLists!Init, EventLists!NoEvent
  <2> QED
      BY <2>2, TypeInit, KeyInit
<1>2. TypeInv /\ KeyInv /\ [Next]_vars => TypeInv' /\ KeyInv'
    BY TypeStep, KeyStep
<1>3. TypeInv /\ KeyInv /\ [Next]_vars
        => [EventLists!Next \/ pc' = "dead"]_EventLists!vars
    BY KeyStep DEF ListStep, ListVars, CurrentKey, EventLists!vars
<1> QED
    BY <1>1, <1>2, <1>3, PTL DEF Spec, UsesEventList

\* Events that expire at the same time run in the order in which they were
\* inserted (Fifo), again as long as m_uid does not wrap.
THEOREM SimulatorFifo == NoWrap => (Spec => Fifo)
<1> SUFFICES ASSUME NoWrap PROVE Spec => Fifo
    OBVIOUS
<1> DEFINE GoesBehind == \A e \in m_events' \ m_events, f \in m_events :
                            e.ts = f.ts => f.uid < e.uid
           FirstRuns == \A e \in m_events \ m_events', f \in m_events :
                           (pc = "loop" /\ e.ts = f.ts) => e.uid <= f.uid
<1>1. Init => TypeInv /\ KeyInv
    BY TypeInit, KeyInit
<1>2. TypeInv /\ KeyInv /\ [Next]_vars => TypeInv' /\ KeyInv'
    BY TypeStep, KeyStep
<1>3. TypeInv /\ KeyInv /\ [Next]_vars => [GoesBehind /\ FirstRuns]_vars
  <2> SUFFICES ASSUME TypeInv, KeyInv, Next
               PROVE  GoesBehind /\ FirstRuns
      OBVIOUS
  <2>1. GoesBehind
    <3>1. CASE m_events' \subseteq m_events
        BY <3>1
    <3>2. CASE \E ts, n : NewBehind(ts, n)
        BY <3>2 DEF NewBehind, Insert
    <3> QED
        BY <3>1, <3>2, QueueStep
  <2>2. FirstRuns
    <3> SUFFICES ASSUME pc = "loop",
                        NEW e \in m_events \ m_events', NEW f \in m_events, e.ts = f.ts
                 PROVE  e.uid <= f.uid
        OBVIOUS
    <3>1. ProcessOneEvent
        BY DEF Next, User, Main, ProcessEventsWithContext, UserCode, Schedule, ScheduleNow,
               ScheduleWithContext, StopDelay, ScheduleDestroy, Remove, Cancel, Stop,
               ScheduleWithContextOther, CheckFlag, Swap, InsertCollected, Drained, Run,
               EventReturns, RunReturns, Destroy, DestroyOneEvent, DestroyEventReturns,
               DoDispose, queue
    <3>2. e.uid \in Nat /\ f.uid \in Nat /\ e.ts \in Nat
        BY UidModAssumption, MaxTsAssumption DEF TypeInv, TypeOK, EventIds
    <3>3. e = f \/ Less(e, f)
        BY <3>1, ProcessOneEventKey DEF TypeInv
    <3> QED
        BY <3>2, <3>3 DEF Less
  <2> QED
      BY <2>1, <2>2
<1> QED
    BY <1>1, <1>2, <1>3, PTL DEF Spec, Fifo

-----------------------------------------------------------------------------
(* IsExpired.                                                              *)

\* A step that adds no EventId, takes no event out of the scheduler and does
\* not move the clock.
LEMMA QuietIds ==
    ASSUME IdsTracked, ids' = ids, m_events \subseteq m_events', UNCHANGED clock,
           m_destroyEvents' = m_destroyEvents, cancelled \subseteq cancelled',
           pc = "dead" => pc' = "dead"
    PROVE  IdsTracked'
BY DEF IdsTracked, CurrentKey, clock

\* An insertion whose EventId may be given to the user.
LEMMA InsertIds ==
    ASSUME IdsTracked, NEW ts, NEW n, Insert(ts, n),
           ids' \subseteq ids \cup {NewEvent(ts, n)}, UNCHANGED clock,
           m_destroyEvents' = m_destroyEvents, cancelled' = cancelled, pc' = pc
    PROVE  IdsTracked'
<1>1. m_events' = m_events \cup {NewEvent(ts, n)}
    BY DEF Insert
<1> QED
    BY <1>1 DEF IdsTracked, CurrentKey, clock

LEMMA IdsStep ==
    ASSUME NoWrap, TypeInv, KeyInv, IdsTracked, [Next]_vars
    PROVE  IdsTracked'
<1> USE UidModAssumption, DelaysAssumption, MaxTsAssumption, MaxEventsAssumption
    DEF TypeInv
<1>1. CASE UNCHANGED vars
    BY <1>1, QuietIds DEF vars, queue, control
<1>2. ASSUME NEW delay \in Delays,
             Schedule(delay) \/ ScheduleWithContext(delay) \/ StopDelay(delay)
      PROVE  IdsTracked'
  <2>1. Insert(m_currentTs + delay, made + 1) /\ UNCHANGED clock
        /\ m_destroyEvents' = m_destroyEvents /\ cancelled' = cancelled /\ pc' = pc
        /\ ids' \subseteq ids \cup {NewEvent(m_currentTs + delay, made + 1)}
      BY <1>2 DEF Schedule, ScheduleWithContext, StopDelay, InsertNew, control
  <2> QED
      BY <2>1, InsertIds
<1>3. CASE ScheduleNow
  <2>1. Insert(m_currentTs, made + 1) /\ UNCHANGED clock
        /\ m_destroyEvents' = m_destroyEvents /\ cancelled' = cancelled /\ pc' = pc
        /\ ids' \subseteq ids \cup {NewEvent(m_currentTs, made + 1)}
      BY <1>3 DEF ScheduleNow, InsertNew, control
  <2> QED
      BY <2>1, InsertIds
<1>4. CASE ScheduleDestroy
  <2>1. PICK id : /\ id.uid = 2
                  /\ m_destroyEvents' = Append(m_destroyEvents, id)
                  /\ ids' = ids \cup {id}
      BY <1>4 DEF ScheduleDestroy
  <2>2. m_events' = m_events /\ UNCHANGED clock /\ cancelled' = cancelled /\ pc' = pc
      BY <1>4 DEF ScheduleDestroy, control
  <2>3. \A i \in DOMAIN m_destroyEvents' : m_destroyEvents'[i].uid = 2
      BY <2>1 DEF IdsTracked, TypeOK
  <2> QED
      BY <2>1, <2>2, <2>3 DEF IdsTracked, CurrentKey, clock
<1>5. ASSUME NEW id \in ids, Remove(id)
      PROVE  IdsTracked'
  <2>1. ids' = ids /\ UNCHANGED clock /\ pc' = pc
      BY <1>5 DEF Remove, control
  <2>2. CASE id.uid = 2
    <3>1. m_events' = m_events /\ cancelled' = cancelled
        BY <1>5, <2>2 DEF Remove
    <3>2. PICK i \in DOMAIN m_destroyEvents :
             m_destroyEvents' = SubSeq(m_destroyEvents, 1, i - 1)
                                  \o SubSeq(m_destroyEvents, i + 1, Len(m_destroyEvents))
        BY <1>5, <2>2 DEF Remove
    <3>3. \A j \in DOMAIN m_destroyEvents' : m_destroyEvents'[j].uid = 2
      <4> DEFINE Two == {d \in EventIds : d.uid = 2}
      <4>1. m_destroyEvents \in Seq(EventIds)
          BY DEF TypeOK
      <4>2. \A j \in 1..Len(m_destroyEvents) : m_destroyEvents[j] \in Two
          BY <4>1 DEF IdsTracked
      <4>3. i \in 1..Len(m_destroyEvents)
          BY <3>2, <4>1
      <4>4. SubSeq(m_destroyEvents, 1, i - 1) \in Seq(Two)
          BY <4>1, <4>2, <4>3, SubSeqProperties
      <4>5. SubSeq(m_destroyEvents, i + 1, Len(m_destroyEvents)) \in Seq(Two)
          BY <4>1, <4>2, <4>3, SubSeqProperties
      <4>6. m_destroyEvents' \in Seq(Two)
          BY <3>2, <4>4, <4>5, ConcatProperties
      <4> QED
          BY <4>6
    <3> QED
        BY <2>1, <3>1, <3>3 DEF IdsTracked, CurrentKey, clock
  <2>3. CASE id.uid # 2
    <3>1. m_events' = m_events \ {id} /\ cancelled' = cancelled \cup {id.n}
          /\ m_destroyEvents' = m_destroyEvents
        BY <1>5, <2>3 DEF Remove
    <3> QED
        BY <2>1, <3>1 DEF IdsTracked, CurrentKey, clock
  <2> QED
      BY <2>2, <2>3
<1>6. ASSUME NEW id \in ids, Cancel(id)
      PROVE  IdsTracked'
    BY <1>6, QuietIds DEF Cancel, queue, control
<1>7. ASSUME NEW delay \in Delays, ScheduleWithContextOther(delay)
      PROVE  IdsTracked'
    BY <1>7, QuietIds DEF ScheduleWithContextOther, control
<1>8. CASE CheckFlag \/ Drained
  <2>1. ids' = ids /\ UNCHANGED clock /\ m_destroyEvents' = m_destroyEvents
        /\ cancelled' = cancelled /\ pc # "dead"
      BY <1>8 DEF CheckFlag, Drained
  <2>2. m_events' = m_events \/ (m_events' = {} /\ pc' = "dead")
      BY <1>8 DEF CheckFlag, Drained, Return
  <2> QED
      BY <2>1, <2>2 DEF IdsTracked, CurrentKey, clock
<1>9. CASE InsertCollected
  <2>1. m_events \subseteq m_events'
      BY <1>9 DEF InsertCollected, Insert
  <2> QED
      BY <1>9, <2>1, QuietIds DEF InsertCollected, control
<1>10. CASE ProcessOneEvent
  <2>1. PICK next \in m_events : /\ m_events' = m_events \ {next}
                                /\ CurrentKey' = Key(next)
                                /\ Less(CurrentKey, next)
      BY <1>10, ProcessOneEventKey
  <2>2. ids' = ids /\ m_destroyEvents' = m_destroyEvents /\ cancelled' = cancelled
        /\ pc # "dead"
      BY <1>10 DEF ProcessOneEvent
  <2>3. \A id \in ids : ~Less(CurrentKey, id) => ~Less(Key(next), id)
      BY <2>1 DEF Less, Key, CurrentKey, TypeOK, EventIds
  <2>4. ~Less(Key(next), next)
      BY <2>1 DEF Less, Key, TypeOK, EventIds
  <2> QED
      BY <2>1, <2>2, <2>3, <2>4 DEF IdsTracked
<1>11. CASE Stop \/ Swap \/ Run \/ EventReturns \/ RunReturns \/ Destroy
            \/ DestroyEventReturns \/ DoDispose
    BY <1>11, QuietIds DEF Stop, Swap, Run, EventReturns, RunReturns, Destroy,
                           DestroyEventReturns, DoDispose, queue, control
<1>12. CASE DestroyOneEvent
  <2>1. m_destroyEvents' = Tail(m_destroyEvents) /\ m_destroyEvents # <<>>
        /\ ids' = ids /\ m_events' = m_events /\ UNCHANGED clock /\ cancelled' = cancelled
        /\ pc # "dead"
      BY <1>12 DEF DestroyOneEvent, queue
  <2>2. \A i \in DOMAIN m_destroyEvents' : m_destroyEvents'[i].uid = 2
      BY <2>1 DEF IdsTracked, TypeOK
  <2> QED
      BY <2>1, <2>2 DEF IdsTracked, CurrentKey, clock
<1> QED
    BY <1>1, <1>2, <1>3, <1>4, <1>5, <1>6, <1>7, <1>8, <1>9, <1>10, <1>11, <1>12
    DEF Next, User, Main, ProcessEventsWithContext

\* IsExpired is exact (ExpiredIffGone): an EventId is expired if and only if
\* its event will not be invoked any more, although the code compares the
\* key with the clock and never looks into the scheduler.
THEOREM IsExpiredExact == NoWrap => (Spec => []ExpiredIffGone)
<1> SUFFICES ASSUME NoWrap PROVE Spec => []ExpiredIffGone
    OBVIOUS
<1> DEFINE IInv == TypeInv /\ KeyInv /\ IdsTracked
<1>1. Init => IInv
    BY TypeInit, KeyInit DEF Init, IdsTracked
<1>2. IInv /\ [Next]_vars => IInv'
    BY TypeStep, KeyStep, IdsStep
<1>3. IInv => ExpiredIffGone
  <2> SUFFICES ASSUME TypeInv, KeyInv, IdsTracked, pc # "dead", NEW id \in ids
               PROVE  IsExpired(id) <=>
                        \/ id.n \in cancelled
                        \/ /\ id \notin m_events
                           /\ \A i \in DOMAIN m_destroyEvents : m_destroyEvents[i] # id
      BY DEF ExpiredIffGone
  <2>1. CASE id.uid = 2
    <3>1. id \notin m_events
        BY <2>1 DEF KeyInv, UidsInOrder
    <3> QED
        BY <2>1, <3>1 DEF IsExpired
  <2>2. CASE id.uid # 2
    <3>1. \A i \in DOMAIN m_destroyEvents : m_destroyEvents[i] # id
        BY <2>2 DEF IdsTracked
    <3>2. IsExpired(id) <=> ~Less(CurrentKey, id) \/ id.n \in cancelled
      <4>1. /\ id.ts \in Nat /\ id.uid \in Nat
            /\ m_currentTs \in Nat /\ m_currentUid \in Nat
          BY UidModAssumption, MaxTsAssumption DEF TypeInv, TypeOK, EventIds
      <4> QED
          BY <2>2, <4>1 DEF IsExpired, Less, CurrentKey
    <3>3. id \in m_events => Less(CurrentKey, id)
        BY DEF KeyInv, PendingAfterCurrent
    <3>4. id \notin m_events /\ id.n \notin cancelled => ~Less(CurrentKey, id)
        BY <2>2 DEF IdsTracked
    <3> QED
        BY <3>1, <3>2, <3>3, <3>4
  <2> QED
      BY <2>1, <2>2
<1> QED
    BY <1>1, <1>2, <1>3, PTL DEF Spec

-----------------------------------------------------------------------------
(* The hand-over of events from other threads.  The flag, which is read    *)
(* without the mutex, is exact whenever the main thread reads it, and what *)
(* the history waiting counts is still in the list.                        *)

FlagExact == m_eventsWithContextEmpty = (m_eventsWithContext = <<>>)

WaitingCounted == /\ waiting <= Len(m_eventsWithContext)
                  /\ pc \in {"drain", "loop"} => waiting = 0

HandOver == FlagExact /\ WaitingCounted

\* A step of the main thread that leaves the lists alone and does not come to
\* the loop, and one that comes to the loop with nothing waiting.
LEMMA QuietHandOver ==
    ASSUME HandOver, UNCHANGED <<m_eventsWithContext, m_eventsWithContextEmpty, waiting>>,
           \/ pc' = pc
           \/ pc' \notin {"drain", "loop"}
           \/ waiting = 0
    PROVE  HandOver'
BY DEF HandOver, FlagExact, WaitingCounted

LEMMA HandOverStep ==
    ASSUME TypeOK, HandOver, [Next]_vars
    PROVE  HandOver'
<1>a. Len(m_eventsWithContext) \in Nat /\ m_eventsWithContext \in Seq(EventWithContext)
    BY DEF TypeOK
<1>b. Len(m_eventsWithContext) = 0 <=> m_eventsWithContext = <<>>
    BY <1>a
<1>1. CASE UNCHANGED vars
    BY <1>1, QuietHandOver DEF vars, context, control
<1>2. CASE User
    BY <1>2, QuietHandOver
    DEF User, Schedule, ScheduleNow, ScheduleWithContext, StopDelay, ScheduleDestroy,
        Remove, Cancel, Stop, context, control
<1>3. ASSUME NEW delay \in Delays, ScheduleWithContextOther(delay)
      PROVE  HandOver'
  <2>1. /\ m_eventsWithContext' =
              Append(m_eventsWithContext, [timestamp |-> delay, n |-> made + 1])
        /\ m_eventsWithContextEmpty' = FALSE
        /\ waiting' = waiting /\ pc' = pc
      BY <1>3 DEF ScheduleWithContextOther, control
  <2>2. Len(m_eventsWithContext') = Len(m_eventsWithContext) + 1 /\ m_eventsWithContext' # <<>>
      BY <1>a, <2>1
  <2>3. FlagExact'
      BY <2>1, <2>2 DEF FlagExact
  <2>4. WaitingCounted'
      BY <1>a, <2>1, <2>2 DEF HandOver, WaitingCounted, TypeOK
  <2> QED
      BY <2>3, <2>4 DEF HandOver
<1>4. CASE CheckFlag
  <2>1. UNCHANGED <<m_eventsWithContext, m_eventsWithContextEmpty, waiting>>
      BY <1>4 DEF CheckFlag, context
  <2>2. CASE pc' = "swap"
      BY <2>1, <2>2, QuietHandOver
  <2>3. CASE m_eventsWithContextEmpty
    <3>1. m_eventsWithContext = <<>>
        BY <2>3, Zenon DEF HandOver, FlagExact
    <3>2. waiting = 0
        BY <1>a, <1>b, <3>1 DEF HandOver, WaitingCounted, TypeOK
    <3> QED
        BY <2>1, <3>2, QuietHandOver
  <2> QED
      BY <1>4, <2>2, <2>3 DEF CheckFlag
<1>5. CASE Swap
  <2>1. m_eventsWithContext' = <<>> /\ m_eventsWithContextEmpty' = TRUE /\ waiting' = 0
      BY <1>5 DEF Swap
  <2>2. FlagExact'
      BY <2>1, Zenon DEF FlagExact
  <2>3. Len(m_eventsWithContext') = 0
      BY <2>1
  <2>4. WaitingCounted'
      BY <2>1, <2>3 DEF WaitingCounted
  <2> QED
      BY <2>2, <2>4 DEF HandOver
<1>6. CASE InsertCollected
    BY <1>6, QuietHandOver DEF InsertCollected, control
<1>7. CASE Drained
  <2>1. UNCHANGED <<m_eventsWithContext, m_eventsWithContextEmpty, waiting>> /\ pc = "drain"
      BY <1>7 DEF Drained, context
  <2> QED
      BY <2>1, QuietHandOver DEF HandOver, WaitingCounted
<1>8. CASE Run \/ ProcessOneEvent
  <2>1. /\ UNCHANGED <<m_eventsWithContext, m_eventsWithContextEmpty>>
        /\ waiting' = Len(m_eventsWithContext) /\ pc' \in {"check", "event"}
      BY <1>8 DEF Run, ProcessOneEvent
  <2> QED
      BY <1>a, <2>1 DEF HandOver, FlagExact, WaitingCounted
<1>9. CASE EventReturns \/ RunReturns \/ Destroy \/ DestroyOneEvent
           \/ DestroyEventReturns \/ DoDispose
    BY <1>9, QuietHandOver DEF EventReturns, RunReturns, Destroy, DestroyOneEvent,
                               DestroyEventReturns, DoDispose, context
<1> QED
    BY <1>1, <1>2, <1>3, <1>4, <1>5, <1>6, <1>7, <1>8, <1>9
    DEF Next, Main, ProcessEventsWithContext

\* Events of other threads are collected in time (CollectedInTime): when the
\* main thread chooses an event, or gives up for lack of events, all those
\* posted before the last event began are in the scheduler.
THEOREM HandOverInTime == Spec => []CollectedInTime
<1>1. Init => TypeInv /\ HandOver
  <2>1. Init => FlagExact
      BY Zenon DEF Init, FlagExact
  <2>2. Init => WaitingCounted
      BY DEF Init, WaitingCounted
  <2> QED
      BY <2>1, <2>2, TypeInit DEF HandOver
<1>2. TypeInv /\ HandOver /\ [Next]_vars => TypeInv' /\ HandOver'
    BY TypeStep, HandOverStep DEF TypeInv
<1>3. HandOver => CollectedInTime
    BY DEF HandOver, WaitingCounted, CollectedInTime
<1> QED
    BY <1>1, <1>2, <1>3, PTL DEF Spec

-----------------------------------------------------------------------------
(* The counter m_unscheduledEvents.                                        *)

CountInv == IsFiniteSet(m_events) /\ UnscheduledCount

\* The count is exact (UnscheduledCount): the consistency test at the end of
\* Run cannot fail.  Remove subtracts one without looking into the scheduler,
\* so this rests on IsExpired being exact.
THEOREM UnscheduledCountExact == NoWrap => (Spec => []UnscheduledCount)
<1> SUFFICES ASSUME NoWrap PROVE Spec => []UnscheduledCount
    OBVIOUS
<1> DEFINE IInv == TypeInv /\ KeyInv /\ IdsTracked
<1>1. Init => IInv /\ CountInv
  <2>1. Init => IInv
      BY TypeInit, KeyInit DEF Init, IdsTracked
  <2>2. Init => CountInv
      BY FS_EmptySet DEF Init, CountInv, UnscheduledCount
  <2> QED
      BY <2>1, <2>2
<1>2. IInv /\ [Next]_vars => IInv'
    BY TypeStep, KeyStep, IdsStep
<1>3. IInv /\ CountInv /\ [Next]_vars => CountInv'
  <2> SUFFICES ASSUME TypeInv, KeyInv, IdsTracked, CountInv, [Next]_vars
               PROVE  CountInv'
      OBVIOUS
  <2>1. CASE UNCHANGED <<m_events, m_unscheduledEvents>> /\ (pc = "dead" => pc' = "dead")
      BY <2>1 DEF CountInv, UnscheduledCount
  <2>2. CASE pc' = pc /\ \E ts, n : NewBehind(ts, n)
    <3>1. PICK ts, n : NewBehind(ts, n)
        BY <2>2
    <3>2. /\ NewEvent(ts, n) \notin m_events
          /\ m_events' = m_events \cup {NewEvent(ts, n)}
          /\ m_unscheduledEvents' = m_unscheduledEvents + 1
        BY <3>1 DEF NewBehind, Insert
    <3> QED
        BY <2>2, <3>2, FS_AddElement DEF CountInv, UnscheduledCount
  <2>3. ASSUME pc # "dead", m_unscheduledEvents' = m_unscheduledEvents - 1,
               NEW e, m_events' = m_events \ {e},
               e \in m_events \/ (e \in ids /\ e.uid # 2 /\ ~IsExpired(e))
        PROVE  CountInv'
    <3>1. e \in m_events
      <4> SUFFICES ASSUME e \in ids, e.uid # 2, ~IsExpired(e)
                   PROVE  e \in m_events
          BY <2>3
      <4>1. /\ e.ts \in Nat /\ e.uid \in Nat
            /\ m_currentTs \in Nat /\ m_currentUid \in Nat
          BY UidModAssumption, MaxTsAssumption DEF TypeInv, TypeOK, EventIds
      <4>2. Less(CurrentKey, e) /\ e.n \notin cancelled
          BY <4>1 DEF IsExpired, Less, CurrentKey
      <4> QED
          BY <2>3, <4>2 DEF IdsTracked
    <3> QED
        BY <2>3, <3>1, FS_RemoveElement DEF CountInv, UnscheduledCount
  <2>4. CASE m_events' = {} /\ pc' = "dead"
      BY <2>4, FS_EmptySet DEF CountInv, UnscheduledCount
  <2> QED
      BY <2>1, <2>2, <2>3, <2>4, QueueStep
<1>4. CountInv => UnscheduledCount
    BY DEF CountInv
<1> QED
    BY <1>1, <1>2, <1>3, <1>4, PTL DEF Spec

-----------------------------------------------------------------------------
(* No event is lost and none is invoked twice.  This holds also when m_uid *)
(* wraps around: events are told apart by their number, not by their uid.  *)

\* A list without its i-th element.
LEMMA DropOne ==
    ASSUME NEW S, NEW s \in Seq(S), NEW i \in 1..Len(s)
    PROVE  LET t == SubSeq(s, 1, i - 1) \o SubSeq(s, i + 1, Len(s))
           IN  /\ t \in Seq(S)
               /\ Len(t) = Len(s) - 1
               /\ \A j \in 1..Len(t) : t[j] = s[IF j < i THEN j ELSE j + 1]
<1>1. \A j \in 1..Len(s) : s[j] \in S
    OBVIOUS
<1> DEFINE a == SubSeq(s, 1, i - 1)
           b == SubSeq(s, i + 1, Len(s))
<1>2. /\ a \in Seq(S) /\ Len(a) = i - 1
      /\ \A j \in 1..i - 1 : a[j] = s[j]
    BY <1>1, SubSeqProperties
<1>3. /\ b \in Seq(S) /\ Len(b) = Len(s) - i
      /\ \A j \in 1..Len(s) - i : b[j] = s[i + j]
    BY <1>1, SubSeqProperties
<1> HIDE DEF a, b
<1>4. /\ a \o b \in Seq(S) /\ Len(a \o b) = Len(s) - 1
      /\ \A j \in 1..Len(s) - 1 : (a \o b)[j] = IF j <= i - 1 THEN a[j] ELSE b[j - (i - 1)]
  <2>1. Len(a) + Len(b) = Len(s) - 1
      BY <1>2, <1>3
  <2>2. /\ a \o b \in Seq(S) /\ Len(a \o b) = Len(a) + Len(b)
        /\ \A j \in 1..Len(a) + Len(b) :
              (a \o b)[j] = IF j <= Len(a) THEN a[j] ELSE b[j - Len(a)]
      BY <1>2, <1>3, ConcatProperties, Zenon
  <2> QED
      BY <1>2, <2>1, <2>2, Zenon
<1>5. \A j \in 1..Len(s) - 1 : (a \o b)[j] = s[IF j < i THEN j ELSE j + 1]
  <2> SUFFICES ASSUME NEW j \in 1..Len(s) - 1
               PROVE  (a \o b)[j] = s[IF j < i THEN j ELSE j + 1]
      OBVIOUS
  <2>1. (a \o b)[j] = IF j <= i - 1 THEN a[j] ELSE b[j - (i - 1)]
      BY <1>4
  <2>2. CASE j < i
    <3>1. j \in 1..i - 1 /\ j <= i - 1
        BY <2>2
    <3> QED
        BY <1>2, <2>1, <2>2, <3>1
  <2>3. CASE ~(j < i)
    <3>1. j - (i - 1) \in 1..Len(s) - i /\ i + (j - (i - 1)) = j + 1 /\ ~(j <= i - 1)
        BY <2>3
    <3>2. b[j - (i - 1)] = s[j + 1]
        BY <1>3, <3>1
    <3> QED
        BY <2>1, <2>3, <3>1, <3>2
  <2> QED
      BY <2>2, <2>3
<1> QED
    BY <1>4, <1>5 DEF a, b

Posted == {m_eventsWithContext[i].n : i \in DOMAIN m_eventsWithContext}
Collected == {eventsWithContext[i].n : i \in DOMAIN eventsWithContext}
Pending == {e.n : e \in m_events}
Destroys == {m_destroyEvents[i].n : i \in DOMAIN m_destroyEvents}

\* Where the event of a number can be, and what can have become of it.
Gone == ran \cup cancelled \cup removed

NumbersGiven == Posted \cup Collected \cup Pending \cup Destroys \cup ran \subseteq 1..made

OnePlace == /\ Posted \cap Collected = {}
            /\ (Posted \cup Collected) \cap (Pending \cup Destroys \cup ran) = {}
            /\ Pending \cap Destroys = {}
            /\ (Pending \cup Destroys) \cap ran = {}

\* No number twice in one place.
NoneTwice ==
    /\ \A i, j \in DOMAIN m_eventsWithContext :
          m_eventsWithContext[i].n = m_eventsWithContext[j].n => i = j
    /\ \A i, j \in DOMAIN eventsWithContext :
          eventsWithContext[i].n = eventsWithContext[j].n => i = j
    /\ \A e, f \in m_events : e.n = f.n => e = f
    /\ \A i, j \in DOMAIN m_destroyEvents :
          m_destroyEvents[i].n = m_destroyEvents[j].n => i = j

AllAccounted ==
    pc # "dead" =>
        1..made \subseteq UNION {Posted, Collected, Pending, Destroys, Gone}

LostInv == NumbersGiven /\ OnePlace /\ NoneTwice /\ AllAccounted

\* The invariant depends on the places through their sets of numbers and on
\* NoneTwice only: a step that moves numbers between them keeps it.
LEMMA MoveLost ==
    ASSUME TypeOK, LostInv, NoneTwice', made' = made,
           Posted' \cup Collected' \cup Pending' \cup Destroys' \cup ran'
              \subseteq Posted \cup Collected \cup Pending \cup Destroys \cup ran,
           OnePlace',
           \/ pc' = "dead"
           \/ pc # "dead" /\ UNION {Posted, Collected, Pending, Destroys, Gone}
                                \subseteq UNION {Posted', Collected', Pending', Destroys', Gone'}
    PROVE  LostInv'
<1>1. NumbersGiven'
    BY DEF LostInv, NumbersGiven
<1>2. AllAccounted'
    BY DEF LostInv, AllAccounted
<1> QED
    BY <1>1, <1>2 DEF LostInv

\* A step that gives no number, invokes nothing, and takes no event out of the
\* scheduler unless it is cancelled.
LEMMA QuietLost ==
    ASSUME TypeOK, LostInv,
           UNCHANGED <<made, ran, m_destroyEvents, removed, m_eventsWithContext,
                       eventsWithContext>>,
           m_events' \subseteq m_events, cancelled \subseteq cancelled',
           pc' = "dead" \/ \A e \in m_events \ m_events' : e.n \in cancelled',
           pc = "dead" => pc' = "dead"
    PROVE  LostInv'
<1>1. /\ Posted' = Posted /\ Collected' = Collected /\ Destroys' = Destroys
      /\ Pending' \subseteq Pending /\ Gone \subseteq Gone'
    BY DEF Posted, Collected, Destroys, Pending, Gone
<1>2. pc' = "dead" \/ Pending \subseteq Pending' \cup Gone'
    BY DEF Pending, Gone
<1>3. OnePlace'
    BY <1>1 DEF LostInv, OnePlace
<1>4. NoneTwice'
    BY DEF LostInv, NoneTwice
<1> QED
    BY <1>1, <1>2, <1>3, <1>4, MoveLost

\* A number that is given in this step.
LEMMA NewNumber ==
    ASSUME TypeOK, LostInv
    PROVE  /\ made + 1 \notin Posted \cup Collected \cup Pending \cup Destroys \cup ran
           /\ 1..made + 1 = 1..made \cup {made + 1}
<1>1. made \in Nat
    BY DEF TypeOK
<1> QED
    BY <1>1 DEF LostInv, NumbersGiven

\* The main thread schedules an event.
LEMMA InsertLost ==
    ASSUME TypeOK, LostInv, NEW ts, InsertNew(ts), UNCHANGED context,
           UNCHANGED <<ran, m_destroyEvents, removed, cancelled, pc>>
    PROVE  LostInv'
<1> DEFINE ev == NewEvent(ts, made + 1)
<1>1. m_events' = m_events \cup {ev} /\ ev.n = made + 1 /\ made' = made + 1
    BY DEF InsertNew, Insert, NewEvent
<1> HIDE DEF ev
<1>2. /\ Posted' = Posted /\ Collected' = Collected /\ Destroys' = Destroys
      /\ Pending' = Pending \cup {made + 1} /\ Gone' = Gone
      /\ ran' = ran /\ pc' = pc
    BY <1>1 DEF Posted, Collected, Destroys, Pending, Gone, context
<1>3. NumbersGiven'
    BY <1>1, <1>2, NewNumber DEF LostInv, NumbersGiven
<1>4. OnePlace'
    BY <1>2, NewNumber DEF LostInv, OnePlace
<1>5. NoneTwice'
  <2>1. \A e \in m_events : e.n # ev.n
      BY <1>1, NewNumber DEF Pending
  <2> QED
      BY <1>1, <2>1 DEF LostInv, NoneTwice, context
<1>6. AllAccounted'
    BY <1>1, <1>2, NewNumber DEF LostInv, AllAccounted
<1> QED
    BY <1>3, <1>4, <1>5, <1>6 DEF LostInv

\* An element that leaves the list of destroy events, to be invoked or not.
LEMMA DropDestroy ==
    ASSUME TypeOK, LostInv, NEW i \in 1..Len(m_destroyEvents),
           m_destroyEvents' \in Seq(EventIds),
           Len(m_destroyEvents') = Len(m_destroyEvents) - 1,
           \A j \in 1..Len(m_destroyEvents') :
              m_destroyEvents'[j] = m_destroyEvents[IF j < i THEN j ELSE j + 1],
           UNCHANGED <<m_events, made, m_eventsWithContext, eventsWithContext, cancelled>>,
           ran' = ran \/ ran' = ran \cup {m_destroyEvents[i].n},
           removed \subseteq removed',
           m_destroyEvents[i].n \in Gone',
           pc # "dead"
    PROVE  LostInv'
<1>1. m_destroyEvents \in Seq(EventIds) /\ Len(m_destroyEvents) \in Nat
    BY DEF TypeOK
<1> DEFINE old(j) == IF j < i THEN j ELSE j + 1
           gone == m_destroyEvents[i].n
<1>2. \A j \in DOMAIN m_destroyEvents' :
         /\ old(j) \in DOMAIN m_destroyEvents /\ old(j) # i
         /\ m_destroyEvents'[j] = m_destroyEvents[old(j)]
    BY <1>1
<1>3. \A j, k \in DOMAIN m_destroyEvents' : old(j) = old(k) => j = k
    BY <1>1
<1>4. \A k \in DOMAIN m_destroyEvents : k # i => \E j \in DOMAIN m_destroyEvents' : old(j) = k
  <2> SUFFICES ASSUME NEW k \in DOMAIN m_destroyEvents, k # i
               PROVE  \E j \in DOMAIN m_destroyEvents' : old(j) = k
      OBVIOUS
  <2>1. CASE k < i
      BY <1>1, <2>1
  <2>2. CASE ~(k < i)
    <3>1. k - 1 \in DOMAIN m_destroyEvents' /\ old(k - 1) = k
        BY <1>1, <2>2
    <3> QED
        BY <3>1
  <2> QED
      BY <2>1, <2>2
<1>5. i \in DOMAIN m_destroyEvents
    BY <1>1
<1> HIDE DEF old
<1>6. \A j \in DOMAIN m_destroyEvents' : m_destroyEvents'[j].n # gone
    BY <1>2, <1>5 DEF LostInv, NoneTwice
<1>7. gone \in Destroys /\ Destroys' \subseteq Destroys \ {gone}
    BY <1>2, <1>5, <1>6 DEF Destroys
<1>8. Destroys \subseteq Destroys' \cup {gone}
    BY <1>2, <1>4 DEF Destroys
<1>9. NoneTwice'
  <2>1. \A j, k \in DOMAIN m_destroyEvents' :
           m_destroyEvents'[j].n = m_destroyEvents'[k].n => j = k
      BY <1>2, <1>3 DEF LostInv, NoneTwice
  <2> QED
      BY <2>1 DEF LostInv, NoneTwice
<1> HIDE DEF gone
<1>10. /\ Posted' = Posted /\ Collected' = Collected /\ Pending' = Pending
       /\ Gone \subseteq Gone' /\ ran' \subseteq ran \cup {gone}
    BY DEF Posted, Collected, Pending, Gone, gone
<1>11. OnePlace'
    BY <1>7, <1>10 DEF LostInv, OnePlace
<1>12. gone \in Gone'
    BY DEF gone
<1> QED
    BY <1>7, <1>8, <1>9, <1>10, <1>11, <1>12, MoveLost

\* Another thread posts an event.
LEMMA PostLost ==
    ASSUME TypeOK, LostInv, NEW delay \in Delays, ScheduleWithContextOther(delay)
    PROVE  LostInv'
<1> DEFINE event == [timestamp |-> delay, n |-> made + 1]
<1>1. /\ m_eventsWithContext' = Append(m_eventsWithContext, event) /\ made' = made + 1
      /\ UNCHANGED <<m_events, eventsWithContext, m_destroyEvents, removed, cancelled, ran, pc>>
      /\ m_eventsWithContext \in Seq(EventWithContext) /\ event.n = made + 1
    BY DEF ScheduleWithContextOther, control, TypeOK
<1> HIDE DEF event
<1>2. /\ DOMAIN m_eventsWithContext' =
            DOMAIN m_eventsWithContext \cup {Len(m_eventsWithContext) + 1}
      /\ \A i \in DOMAIN m_eventsWithContext : m_eventsWithContext'[i] = m_eventsWithContext[i]
      /\ m_eventsWithContext'[Len(m_eventsWithContext) + 1] = event
      /\ Len(m_eventsWithContext) + 1 \notin DOMAIN m_eventsWithContext
    BY <1>1
<1>3. /\ Posted' = Posted \cup {made + 1} /\ Collected' = Collected
      /\ Destroys' = Destroys /\ Pending' = Pending /\ Gone' = Gone
      /\ ran' = ran /\ pc' = pc
    BY <1>1, <1>2 DEF Posted, Collected, Destroys, Pending, Gone
<1>4. NumbersGiven'
    BY <1>1, <1>3, NewNumber DEF LostInv, NumbersGiven
<1>5. OnePlace'
    BY <1>3, NewNumber DEF LostInv, OnePlace
<1>6. NoneTwice'
  <2>1. \A i \in DOMAIN m_eventsWithContext : m_eventsWithContext[i].n # event.n
      BY <1>1, NewNumber DEF Posted
  <2>2. \A i, j \in DOMAIN m_eventsWithContext' :
           m_eventsWithContext'[i].n = m_eventsWithContext'[j].n => i = j
      BY <1>2, <2>1 DEF LostInv, NoneTwice
  <2> QED
      BY <1>1, <2>2 DEF LostInv, NoneTwice
<1>7. AllAccounted'
    BY <1>1, <1>3, NewNumber DEF LostInv, AllAccounted
<1> QED
    BY <1>4, <1>5, <1>6, <1>7 DEF LostInv

\* The main thread takes the whole list, into an empty one.
LEMMA SwapLost ==
    ASSUME TypeInv, LostInv, Swap
    PROVE  LostInv'
<1>1. /\ eventsWithContext = <<>> /\ m_eventsWithContext' = <<>>
      /\ eventsWithContext' = m_eventsWithContext
      /\ UNCHANGED <<m_events, made, m_destroyEvents, removed, cancelled, ran>>
      /\ pc # "dead"
    BY DEF Swap, TypeInv, LocalList, queue
<1>2. Collected = {} /\ Posted' = {} /\ Collected' = Posted
    BY <1>1 DEF Collected, Posted
<1>3. Destroys' = Destroys /\ Pending' = Pending /\ Gone' = Gone /\ ran' = ran
    BY <1>1 DEF Destroys, Pending, Gone
<1>4. OnePlace'
    BY <1>2, <1>3 DEF LostInv, OnePlace
<1>5. NoneTwice'
    BY <1>1 DEF LostInv, NoneTwice
<1> QED
    BY <1>1, <1>2, <1>3, <1>4, <1>5, MoveLost DEF TypeInv

\* The first collected event moves into the scheduler.
LEMMA CollectLost ==
    ASSUME TypeOK, LostInv, InsertCollected
    PROVE  LostInv'
<1> DEFINE event == Head(eventsWithContext)
           ev == NewEvent(m_currentTs + event.timestamp, event.n)
<1>1. /\ m_events' = m_events \cup {ev} /\ ev.n = event.n
      /\ eventsWithContext \in Seq(EventWithContext) /\ eventsWithContext # <<>>
      /\ eventsWithContext' = Tail(eventsWithContext)
      /\ UNCHANGED <<made, m_eventsWithContext, m_destroyEvents, removed, cancelled, ran>>
      /\ pc # "dead"
    BY DEF InsertCollected, Insert, NewEvent, TypeOK
<1> HIDE DEF ev
<1>2. /\ 1 \in DOMAIN eventsWithContext /\ event = eventsWithContext[1]
      /\ \A i \in DOMAIN eventsWithContext' :
            i + 1 \in DOMAIN eventsWithContext /\ i + 1 # 1
            /\ eventsWithContext'[i] = eventsWithContext[i + 1]
      /\ \A i, j \in DOMAIN eventsWithContext' : i + 1 = j + 1 => i = j
    BY <1>1
<1>3. \A i \in DOMAIN eventsWithContext :
         i # 1 => \E j \in DOMAIN eventsWithContext' : j + 1 = i
  <2> SUFFICES ASSUME NEW i \in DOMAIN eventsWithContext, i # 1
               PROVE  \E j \in DOMAIN eventsWithContext' : j + 1 = i
      OBVIOUS
  <2>1. i - 1 \in DOMAIN eventsWithContext' /\ (i - 1) + 1 = i
      BY <1>1
  <2> QED
      BY <2>1
<1> HIDE DEF event
<1>4. \A i \in DOMAIN eventsWithContext' : eventsWithContext'[i].n # event.n
    BY <1>2 DEF LostInv, NoneTwice
<1>5. event.n \in Collected /\ Collected' \subseteq Collected \ {event.n}
    BY <1>2, <1>4 DEF Collected
<1>6. Collected \subseteq Collected' \cup {event.n}
    BY <1>2, <1>3 DEF Collected
<1>7. /\ Pending' = Pending \cup {event.n} /\ Posted' = Posted
      /\ Destroys' = Destroys /\ Gone' = Gone /\ ran' = ran
    BY <1>1 DEF Pending, Posted, Destroys, Gone
<1>8. OnePlace'
    BY <1>5, <1>7 DEF LostInv, OnePlace
<1>9. NoneTwice'
  <2>1. \A i, j \in DOMAIN eventsWithContext' :
           eventsWithContext'[i].n = eventsWithContext'[j].n => i = j
      BY <1>2 DEF LostInv, NoneTwice
  <2>2. \A e \in m_events : e.n # ev.n
      BY <1>1, <1>5 DEF LostInv, OnePlace, Pending
  <2>3. \A e, f \in m_events' : e.n = f.n => e = f
      BY <1>1, <2>2 DEF LostInv, NoneTwice
  <2> QED
      BY <1>1, <2>1, <2>3 DEF LostInv, NoneTwice
<1> QED
    BY <1>1, <1>5, <1>6, <1>7, <1>8, <1>9, MoveLost

LEMMA LostStep ==
    ASSUME TypeInv, LostInv, [Next]_vars
    PROVE  LostInv'
<1> USE DEF TypeInv
<1>1. CASE UNCHANGED vars
    BY <1>1, QuietLost DEF vars, queue, context, control
<1>2. ASSUME NEW delay \in Delays,
             Schedule(delay) \/ ScheduleWithContext(delay) \/ StopDelay(delay)
      PROVE  LostInv'
    BY <1>2, InsertLost DEF Schedule, ScheduleWithContext, StopDelay, control
<1>3. CASE ScheduleNow
    BY <1>3, InsertLost DEF ScheduleNow, control
<1>4. CASE ScheduleDestroy
  <2>1. PICK id : id.n = made + 1 /\ m_destroyEvents' = Append(m_destroyEvents, id)
      BY <1>4 DEF ScheduleDestroy
  <2>2. /\ made' = made + 1 /\ m_destroyEvents \in Seq(EventIds)
        /\ UNCHANGED <<m_events, ran, cancelled, removed, pc>> /\ UNCHANGED context
      BY <1>4 DEF ScheduleDestroy, TypeOK, control
  <2>3. /\ DOMAIN m_destroyEvents' = DOMAIN m_destroyEvents \cup {Len(m_destroyEvents) + 1}
        /\ \A i \in DOMAIN m_destroyEvents : m_destroyEvents'[i] = m_destroyEvents[i]
        /\ m_destroyEvents'[Len(m_destroyEvents) + 1] = id
      BY <2>1, <2>2
  <2>4. /\ Destroys' = Destroys \cup {made + 1} /\ Posted' = Posted
        /\ Collected' = Collected /\ Pending' = Pending /\ Gone' = Gone
        /\ ran' = ran /\ pc' = pc
      BY <2>1, <2>2, <2>3 DEF Posted, Collected, Destroys, Pending, Gone, context
  <2>5. NumbersGiven'
      BY <2>2, <2>4, NewNumber DEF LostInv, NumbersGiven
  <2>6. OnePlace'
      BY <2>4, NewNumber DEF LostInv, OnePlace
  <2>7. NoneTwice'
    <3>1. \A i \in DOMAIN m_destroyEvents : m_destroyEvents[i].n # id.n
        BY <2>1, NewNumber DEF Destroys
    <3>2. \A i, j \in DOMAIN m_destroyEvents' :
             m_destroyEvents'[i].n = m_destroyEvents'[j].n => i = j
        BY <2>3, <3>1 DEF LostInv, NoneTwice
    <3> QED
        BY <2>2, <3>2 DEF LostInv, NoneTwice, context
  <2>8. AllAccounted'
      BY <2>2, <2>4, NewNumber DEF LostInv, AllAccounted
  <2> QED
      BY <2>5, <2>6, <2>7, <2>8 DEF LostInv
<1>5. ASSUME NEW id \in ids, Remove(id)
      PROVE  LostInv'
  <2>1. UNCHANGED <<made, ran, pc, m_eventsWithContext, eventsWithContext>> /\ pc # "dead"
      BY <1>5 DEF Remove, UserCode, context, control
  <2>2. CASE id.uid = 2
    <3>1. UNCHANGED <<m_events, cancelled>> /\ removed' = removed \cup {id.n}
        BY <1>5, <2>2 DEF Remove
    <3>2. PICK i \in DOMAIN m_destroyEvents :
             /\ m_destroyEvents[i] = id
             /\ m_destroyEvents' = SubSeq(m_destroyEvents, 1, i - 1)
                                     \o SubSeq(m_destroyEvents, i + 1, Len(m_destroyEvents))
        BY <1>5, <2>2 DEF Remove
    <3>3. m_destroyEvents \in Seq(EventIds) /\ i \in 1..Len(m_destroyEvents)
        BY DEF TypeOK
    <3>4. /\ m_destroyEvents' \in Seq(EventIds)
          /\ Len(m_destroyEvents') = Len(m_destroyEvents) - 1
          /\ \A j \in 1..Len(m_destroyEvents') :
                m_destroyEvents'[j] = m_destroyEvents[IF j < i THEN j ELSE j + 1]
        BY <3>2, <3>3, DropOne
    <3>5. m_destroyEvents[i].n \in Gone' /\ removed \subseteq removed'
        BY <3>1, <3>2 DEF Gone
    <3> QED
        BY <2>1, <3>1, <3>3, <3>4, <3>5, DropDestroy
  <2>3. CASE id.uid # 2
    <3>1. m_events' = m_events \ {id} /\ cancelled' = cancelled \cup {id.n}
          /\ UNCHANGED <<m_destroyEvents, removed>>
        BY <1>5, <2>3 DEF Remove
    <3> QED
        BY <2>1, <3>1, QuietLost
  <2> QED
      BY <2>2, <2>3
<1>6. ASSUME NEW id \in ids, Cancel(id)
      PROVE  LostInv'
    BY <1>6, QuietLost DEF Cancel, queue, context, control
<1>7. ASSUME NEW delay \in Delays, ScheduleWithContextOther(delay)
      PROVE  LostInv'
    BY <1>7, PostLost
<1>8. CASE CheckFlag \/ Drained
  <2>1. /\ UNCHANGED <<made, ran, m_destroyEvents, removed, cancelled,
                       m_eventsWithContext, eventsWithContext>>
        /\ pc # "dead"
        /\ (m_events' = m_events \/ (m_events' = {} /\ pc' = "dead"))
      BY <1>8 DEF CheckFlag, Drained, Return, context
  <2> QED
      BY <2>1, QuietLost
<1>9. CASE InsertCollected
    BY <1>9, CollectLost
<1>10. CASE ProcessOneEvent
  <2>1. PICK next \in m_events : /\ m_events' = m_events \ {next}
                                /\ \/ next.n \in cancelled /\ ran' = ran
                                   \/ ran' = ran \cup {next.n}
      BY <1>10 DEF ProcessOneEvent
  <2>2. UNCHANGED <<made, m_destroyEvents, removed, cancelled, m_eventsWithContext,
                    eventsWithContext>> /\ pc # "dead"
      BY <1>10 DEF ProcessOneEvent
  <2>3. next.n \in Pending /\ Pending' \subseteq Pending \ {next.n}
        /\ Pending \subseteq Pending' \cup {next.n}
      BY <2>1 DEF LostInv, NoneTwice, Pending
  <2>4. /\ Posted' = Posted /\ Collected' = Collected /\ Destroys' = Destroys
        /\ Gone \subseteq Gone' /\ next.n \in Gone' /\ ran' \subseteq ran \cup {next.n}
      BY <2>1, <2>2 DEF Posted, Collected, Destroys, Gone
  <2>5. OnePlace'
      BY <2>3, <2>4 DEF LostInv, OnePlace
  <2>6. NoneTwice'
      BY <2>1, <2>2 DEF LostInv, NoneTwice
  <2> QED
      BY <2>2, <2>3, <2>4, <2>5, <2>6, MoveLost
<1>11. CASE Stop \/ EventReturns \/ RunReturns \/ Destroy
            \/ DestroyEventReturns \/ DoDispose
    BY <1>11, QuietLost DEF Stop, EventReturns, RunReturns, Destroy,
                            DestroyEventReturns, DoDispose, queue, context, control
<1>12. CASE DestroyOneEvent
  <2>1. /\ m_destroyEvents # <<>> /\ m_destroyEvents' = Tail(m_destroyEvents)
        /\ UNCHANGED <<m_events, made, cancelled, removed, m_eventsWithContext,
                       eventsWithContext>>
        /\ pc # "dead"
        /\ \/ Head(m_destroyEvents).n \in cancelled /\ ran' = ran
           \/ ran' = ran \cup {Head(m_destroyEvents).n}
      BY <1>12 DEF DestroyOneEvent, queue, context
  <2>2. m_destroyEvents \in Seq(EventIds)
      BY DEF TypeOK
  <2>3. /\ 1 \in 1..Len(m_destroyEvents) /\ Head(m_destroyEvents) = m_destroyEvents[1]
        /\ m_destroyEvents' \in Seq(EventIds)
        /\ Len(m_destroyEvents') = Len(m_destroyEvents) - 1
        /\ \A j \in 1..Len(m_destroyEvents') :
              m_destroyEvents'[j] = m_destroyEvents[IF j < 1 THEN j ELSE j + 1]
      BY <2>1, <2>2
  <2>4. m_destroyEvents[1].n \in Gone' /\ removed \subseteq removed'
      BY <2>1, <2>3 DEF Gone
  <2> QED
      BY <2>1, <2>3, <2>4, DropDestroy
<1>13. CASE Swap
    BY <1>13, SwapLost
<1>14. CASE Run
    BY <1>14, QuietLost DEF Run, queue
<1> QED
    BY <1>1, <1>2, <1>3, <1>4, <1>5, <1>6, <1>7, <1>8, <1>9, <1>10, <1>11, <1>12,
       <1>13, <1>14
    DEF Next, User, Main, ProcessEventsWithContext

\* No event is lost, duplicated or invoked twice (NoEventLost), whatever the
\* user and the other threads do, and also if m_uid wraps around: an event that
\* another thread gives counts from then on, so the swap of the lists and the
\* loop that collects them lose none.
THEOREM EventsAccounted == Spec => []NoEventLost
<1>1. Init => TypeInv /\ LostInv
  <2> SUFFICES ASSUME Init PROVE LostInv
      BY TypeInit
  <2>1. /\ Posted = {} /\ Collected = {} /\ Pending = {} /\ Destroys = {}
        /\ ran = {} /\ made = 0
      BY DEF Init, Posted, Collected, Pending, Destroys
  <2>2. NoneTwice
      BY DEF Init, NoneTwice
  <2> QED
      BY <2>1, <2>2 DEF LostInv, NumbersGiven, OnePlace, AllAccounted
<1>2. TypeInv /\ LostInv /\ [Next]_vars => TypeInv' /\ LostInv'
    BY TypeStep, LostStep
<1>3. LostInv => NoEventLost
    BY DEF LostInv, OnePlace, AllAccounted, NoEventLost, Posted, Collected, Pending,
           Destroys, Gone
<1> QED
    BY <1>1, <1>2, <1>3, PTL DEF Spec
=============================================================================
