----------------------- MODULE RealtimeSimulatorProofs -----------------------
(***************************************************************************)
(* Proofs about RealtimeSimulator, for any number of events, any delays    *)
(* and any wall clock.                                                     *)
(***************************************************************************)
EXTENDS RealtimeSimulator, WellFoundedInduction, TLAPS

\* Min of a set of natural numbers is its least element.
LEMMA LeastOf ==
    ASSUME NEW S \in SUBSET Nat, S # {}
    PROVE  Min(S) \in S /\ \A m \in S : Min(S) <= m
<1> DEFINE R == {p \in Nat \X Nat : p[1] < p[2]}
<1>1. IsWellFoundedOn(R, Nat)
    BY NatLessThanWellFounded DEF OpToRel
<1> HIDE DEF R
<1>2. PICK x \in S : \A y \in S : ~(<<y, x>> \in R)
    BY <1>1, WFMin
<1>3. \A y \in S : x <= y
  <2> SUFFICES ASSUME NEW y \in S PROVE x <= y
      OBVIOUS
  <2>1. x \in Nat /\ y \in Nat
      OBVIOUS
  <2>2. ~(y < x)
      BY <1>2, <2>1 DEF R
  <2> QED
      BY <2>1, <2>2
<1> QED
    BY <1>3 DEF Min

\* Max of two integers.
LEMMA LargerOf ==
    ASSUME NEW a \in Int, NEW b \in Int
    PROVE  /\ Max({a, b}) \in {a, b} /\ Max({a, b}) \in Int
           /\ a <= Max({a, b}) /\ b <= Max({a, b})
<1>1. \E x \in {a, b} : \A y \in {a, b} : x >= y
    OBVIOUS
<1> QED
    BY <1>1 DEF Max

LEMMA LargerOfNat == ASSUME NEW a \in Nat, NEW b \in Int PROVE Max({a, b}) \in Nat
<1>1. Max({a, b}) \in Int /\ a <= Max({a, b})
    BY LargerOf
<1> QED
    BY <1>1

\* NextTs is the time of an event, and no event is before it.
LEMMA NextTsLeast ==
    ASSUME TypeOK, m_events # {}
    PROVE  /\ NextTs \in Nat
           /\ \E e \in m_events : e.ts = NextTs
           /\ \A e \in m_events : NextTs <= e.ts
<1> DEFINE S == {e.ts : e \in m_events}
<1>1. S \in SUBSET Nat /\ S # {}
    BY DEF TypeOK
<1>2. Min(S) \in S /\ \A m \in S : Min(S) <= m
  <2> HIDE DEF S
  <2> QED
      BY <1>1, LeastOf
<1> QED
    BY <1>1, <1>2 DEF NextTs

\* The wall clock is behind no origin.
LEMMA RealtimeNat == TypeOK => /\ GetCurrentRealtime \in Nat /\ wall \in Nat
                               /\ m_realtimeOriginNano \in Nat
    BY TimesAssumption DEF TypeOK, GetCurrentRealtime

-----------------------------------------------------------------------------

Waiting == pc \in {"wait", "sleep", "spin"}

\* What the main thread relies on: from the moment it has seen an event until it
\* takes one there is an event that is due when its wait is over, although the one
\* it takes need not be the one it has seen.
Awaited ==
    /\ pc = "head" => m_events # {}
    /\ Waiting /\ ~idle => \E e \in m_events : e.ts <= until
    /\ pc = "take" => \E e \in m_events : e.ts <= GetCurrentRealtime
    /\ pc = "event" => m_currentTs <= GetCurrentRealtime

\* What a critical section that inserts does to the queue.
LEMMA InsertTyped ==
    ASSUME TypeOK, NEW ts \in Nat, Insert(ts)
    PROVE  /\ m_events' \subseteq [ts : Nat, uid : 4..MaxUid] /\ m_uid' \in 4..MaxUid + 1
           /\ m_condition' = TRUE
           /\ m_events' = m_events \cup {[ts |-> ts, uid |-> m_uid]}
    BY BoundsAssumption DEF TypeOK, Insert

\* Where the scheduling calls put an event, and what they leave alone.
LEMMA Scheduling ==
    ASSUME TypeOK, NEW delay \in Delays,
           \/ Schedule(delay) \/ ScheduleWithContextOther(delay) \/ ScheduleRealtime(delay)
    PROVE  /\ \E ts \in Nat : /\ Insert(ts)
                              /\ \/ ts = m_currentTs + delay
                                 \/ ts = GetCurrentRealtime + delay
           /\ UNCHANGED <<m_currentTs, m_stop, m_running, m_realtimeOriginNano, wall, pc,
                          wait, runs>>
<1>1. delay \in Nat /\ m_currentTs \in Nat /\ GetCurrentRealtime \in Nat
    BY TimesAssumption, RealtimeNat DEF TypeOK
<1>2. m_currentTs + delay \in Nat /\ GetCurrentRealtime + delay \in Nat
    BY <1>1
<1> QED
    BY <1>2 DEF Schedule, ScheduleWithContextOther, ScheduleRealtime

\* TypeOK in two parts: the flags, and the times and the rest.
Flags == /\ m_stop \in BOOLEAN /\ m_running \in BOOLEAN /\ m_condition \in BOOLEAN
         /\ idle \in BOOLEAN

Values ==
    /\ m_events \subseteq [ts : Nat, uid : 4..MaxUid]
    /\ m_uid \in 4..MaxUid + 1
    /\ m_currentTs \in Nat
    /\ m_realtimeOriginNano \in 0..wall
    /\ wall \in StartWall..MaxWall
    /\ pc \in {"main", "origin", "loop", "head", "wait", "sleep", "spin", "take", "event", "fatal"}
    /\ until \in Nat /\ deadline \in Nat
    /\ runs \in 0..MaxRuns

LEMMA TypeParts == TypeOK <=> Flags /\ Values
    BY Zenon DEF TypeOK, Flags, Values

LEMMA TypeInit == Init => TypeOK
<1>1. Init => Flags
    BY Zenon DEF Init, Flags
<1>2. Init => Values
    BY TimesAssumption, BoundsAssumption DEF Init, Values
<1> QED
    BY <1>1, <1>2, TypeParts

LEMMA FlagsStep == Flags /\ [Next]_vars => Flags'
<1> SUFFICES ASSUME Flags, [Next]_vars PROVE Flags'
    OBVIOUS
<1> USE DEF queue, wait, Flags
<1>1. CASE UNCHANGED vars
    BY <1>1, Zenon DEF vars
<1>2. ASSUME NEW delay \in Delays,
             Schedule(delay) \/ ScheduleWithContextOther(delay) \/ ScheduleRealtime(delay)
      PROVE  Flags'
    BY <1>2, Zenon DEF Schedule, ScheduleWithContextOther, ScheduleRealtime, Insert
<1>3. ASSUME NEW ev \in m_events, Remove(ev)
      PROVE  Flags'
    BY <1>3, Zenon DEF Remove
<1>4. CASE Stop \/ Run \/ Tick
    BY <1>4, Zenon DEF Stop, Run, Tick
<1>5. CASE EventReturns \/ SetOrigin \/ RunReturns
    BY <1>5, Zenon DEF EventReturns, SetOrigin, RunReturns
<1>6. CASE CheckEvents \/ PrepareWait
    BY <1>6, Zenon DEF CheckEvents, PrepareWait
<1>7. CASE Synchronize \/ SleepEnds \/ SpinEnds
    BY <1>7, Zenon DEF Synchronize, SleepEnds, SpinEnds
<1>8. CASE ProcessOneEvent
    BY <1>8, Zenon DEF ProcessOneEvent
<1> QED
    BY <1>1, <1>2, <1>3, <1>4, <1>5, <1>6, <1>7, <1>8 DEF Next, Main

LEMMA ValuesStep ==
    ASSUME TypeOK, Awaited, [Next]_vars
    PROVE  Values'
<1>a. Values
    BY TypeParts
<1> USE <1>a, TimesAssumption, BoundsAssumption
<1> USE DEF queue, wait
<1>1. CASE UNCHANGED vars
    BY <1>1 DEF vars, Values
<1>2. ASSUME NEW delay \in Delays,
             Schedule(delay) \/ ScheduleWithContextOther(delay) \/ ScheduleRealtime(delay)
      PROVE  Values'
  <2>1. PICK ts \in Nat : Insert(ts)
      BY <1>2, Scheduling
  <2>2. UNCHANGED <<m_currentTs, m_stop, m_running, m_realtimeOriginNano, wall, pc, wait, runs>>
      BY <1>2, Scheduling
  <2> QED
      BY <2>1, <2>2, InsertTyped DEF Values
<1>3. ASSUME NEW ev \in m_events, Remove(ev)
      PROVE  Values'
    BY <1>3 DEF Remove, Values
<1>4. CASE Stop \/ Run
    BY <1>4 DEF Stop, Run, Values
<1>5. CASE EventReturns \/ SetOrigin \/ RunReturns
    BY <1>5 DEF EventReturns, SetOrigin, RunReturns, Values
<1>6. CASE CheckEvents
  <2>1. GetCurrentRealtime + IdleWait \in Nat
      BY RealtimeNat
  <2> QED
      BY <1>6, <2>1 DEF CheckEvents, Values
<1>7. CASE PrepareWait
  <2>0. m_events # {}
      BY <1>7 DEF PrepareWait, Awaited
  <2>1. Max({GetCurrentRealtime, NextTs}) \in Nat
    <3>1. GetCurrentRealtime \in Nat /\ NextTs \in Nat
        BY <2>0, RealtimeNat, NextTsLeast
    <3>2. NextTs \in Int
        BY <3>1
    <3> QED
        BY <3>1, <3>2, LargerOfNat
  <2> QED
      BY <1>7, <2>1 DEF PrepareWait, Values
<1>8. CASE Synchronize
  <2> DEFINE ns == Max({0, until - GetCurrentRealtime})
  <2>1. ns \in Nat /\ wall \in Nat
    <3>1. until - GetCurrentRealtime \in Int
        BY RealtimeNat DEF Values
    <3> QED
        BY <3>1, RealtimeNat, LargerOfNat
  <2> HIDE DEF ns
  <2>2. ns > SpinTicks => Deadline(ns - SpinTicks) \in Nat
      BY <2>1 DEF Deadline, Never
  <2>3. /\ pc' \in {"sleep", "spin"}
        /\ deadline' = deadline \/ deadline' \in Nat
        /\ UNCHANGED <<queue, m_currentTs, m_realtimeOriginNano, wall, until, runs>>
      BY <1>8, <2>2 DEF Synchronize, ns
  <2> QED
      BY <2>3 DEF Values
<1>9. CASE SleepEnds \/ SpinEnds
    BY <1>9 DEF SleepEnds, SpinEnds, ReturnTo, Values
<1>10. CASE ProcessOneEvent
    BY <1>10 DEF ProcessOneEvent, IsEarliest, Values
<1>11. CASE Tick
    BY <1>11 DEF Tick, Values
<1> QED
    BY <1>1, <1>2, <1>3, <1>4, <1>5, <1>6, <1>7, <1>8, <1>9, <1>10, <1>11 DEF Next, Main

LEMMA TypeStep ==
    ASSUME TypeOK, Awaited, [Next]_vars
    PROVE  TypeOK'
<1>1. Flags' /\ Values'
    BY TypeParts, FlagsStep, ValuesStep
<1>2. (TypeOK <=> Flags /\ Values)'
    BY TypeParts, PTL
<1> QED
    BY <1>1, <1>2

\* Steps that leave the main thread and the clock alone and take no event away
\* cannot disturb it.
LEMMA AwaitedKept ==
    ASSUME TypeOK, Awaited, m_events \subseteq m_events',
           UNCHANGED <<pc, idle, until, m_currentTs, wall, m_realtimeOriginNano>>
    PROVE  Awaited'
    BY DEF Awaited, Waiting, GetCurrentRealtime

LEMMA AwaitedInit == Init => Awaited
    BY DEF Init, Awaited, Waiting

LEMMA AwaitedStep ==
    ASSUME TypeOK, Awaited, [Next]_vars
    PROVE  Awaited'
<1>a. /\ GetCurrentRealtime \in Nat /\ wall \in Nat /\ m_realtimeOriginNano \in Nat
      /\ \A e \in m_events : e.ts \in Nat
      /\ until \in Nat /\ m_currentTs \in Nat
    BY RealtimeNat DEF TypeOK
<1> USE DEF queue, wait
<1>1. CASE UNCHANGED vars
    BY <1>1, AwaitedKept DEF vars
<1>2. ASSUME NEW delay \in Delays,
             Schedule(delay) \/ ScheduleWithContextOther(delay) \/ ScheduleRealtime(delay)
      PROVE  Awaited'
  <2>1. PICK ts \in Nat : Insert(ts)
      BY <1>2, Scheduling
  <2>2. m_events \subseteq m_events'
      BY <2>1 DEF Insert
  <2>3. UNCHANGED <<pc, idle, until, m_currentTs, wall, m_realtimeOriginNano>>
      BY <1>2, Scheduling
  <2> QED
      BY <2>2, <2>3, AwaitedKept
<1>3. ASSUME NEW ev \in m_events, Remove(ev)
      PROVE  Awaited'
    BY <1>3 DEF Remove, InUserCode, Awaited, Waiting, GetCurrentRealtime
<1>4. CASE Stop
    BY <1>4, AwaitedKept DEF Stop
<1>5. CASE Run \/ EventReturns \/ SetOrigin \/ RunReturns
    BY <1>5 DEF Run, EventReturns, SetOrigin, RunReturns, Awaited, Waiting
<1>6. CASE CheckEvents
  <2>1. \/ pc' = "head" /\ m_events' # {}
        \/ pc' = "wait" /\ idle' = TRUE
      BY <1>6 DEF CheckEvents
  <2> QED
      BY <2>1 DEF Awaited, Waiting
<1>7. CASE PrepareWait
  <2>1. m_events # {}
      BY <1>7 DEF PrepareWait, Awaited
  <2>2. PICK e \in m_events : e.ts = NextTs
      BY <2>1, NextTsLeast
  <2>3. NextTs <= Max({GetCurrentRealtime, NextTs})
    <3>1. GetCurrentRealtime \in Int /\ NextTs \in Int
        BY <1>a, <2>1, NextTsLeast
    <3> QED
        BY <3>1, LargerOf
  <2>4. pc' = "wait" /\ m_events' = m_events /\ until' = Max({GetCurrentRealtime, NextTs})
      BY <1>7 DEF PrepareWait
  <2>5. \E f \in m_events' : f.ts <= until'
      BY <2>2, <2>3, <2>4
  <2> QED
      BY <2>4, <2>5 DEF Awaited
<1>8. CASE Synchronize
  <2>1. pc = "wait" /\ pc' \in {"sleep", "spin"} /\ UNCHANGED <<m_events, idle, until>>
      BY <1>8 DEF Synchronize
  <2> QED
      BY <2>1 DEF Awaited, Waiting
<1>9. CASE SleepEnds \/ SpinEnds
  <2>1. /\ pc \in {"sleep", "spin"}
        /\ UNCHANGED <<m_events, idle, until, wall, m_realtimeOriginNano>>
        /\ \/ pc' = "spin" \/ pc' = ReturnTo(FALSE)
           \/ GetCurrentRealtime >= until /\ pc' = ReturnTo(TRUE)
      BY <1>9 DEF SleepEnds, SpinEnds
  <2>2. CASE idle
    <3>1. pc' \in {"spin", "loop"} /\ idle'
        BY <2>1, <2>2 DEF ReturnTo
    <3> QED
        BY <3>1 DEF Awaited
  <2>3. CASE ~idle
    <3>1. PICK e \in m_events : e.ts <= until
        BY <2>1, <2>3 DEF Awaited, Waiting
    <3>2. \/ pc' \in {"spin", "head"}
          \/ pc' = "take" /\ GetCurrentRealtime >= until
        BY <2>1, <2>3 DEF ReturnTo
    <3>3. GetCurrentRealtime >= until => e.ts <= GetCurrentRealtime
        BY <1>a, <3>1
    <3>4. GetCurrentRealtime' = GetCurrentRealtime
        BY <2>1 DEF GetCurrentRealtime
    <3> QED
        BY <2>1, <3>1, <3>2, <3>3, <3>4 DEF Awaited
  <2> QED
      BY <2>2, <2>3
<1>10. CASE ProcessOneEvent
  <2>1. PICK next \in m_events : /\ IsEarliest(next, m_events)
                                 /\ m_currentTs' = next.ts
                                 /\ pc' \in {"fatal", "event"}
      BY <1>10 DEF ProcessOneEvent
  <2>2. PICK e \in m_events : e.ts <= GetCurrentRealtime
      BY <1>10 DEF ProcessOneEvent, Awaited
  <2>3. next.ts <= e.ts
      BY <1>a, <2>1 DEF IsEarliest, Less
  <2>4. next.ts <= GetCurrentRealtime
      BY <1>a, <2>2, <2>3
  <2>5. GetCurrentRealtime' = GetCurrentRealtime
      BY <1>10 DEF ProcessOneEvent, GetCurrentRealtime
  <2> QED
      BY <2>1, <2>4, <2>5 DEF Awaited, Waiting
<1>11. CASE Tick
  <2>1. GetCurrentRealtime' = GetCurrentRealtime + 1
      BY <1>a, <1>11 DEF Tick, GetCurrentRealtime
  <2>2. \A t \in Nat : t <= GetCurrentRealtime => t <= GetCurrentRealtime'
      BY <1>a, <2>1
  <2> QED
      BY <1>a, <1>11, <2>2 DEF Tick, Awaited, Waiting
<1> QED
    BY <1>1, <1>2, <1>3, <1>4, <1>5, <1>6, <1>7, <1>8, <1>9, <1>10, <1>11 DEF Next, Main

\* Times are natural numbers in spite of the subtractions (TypeOK).  The type
\* alone is not inductive: NextTs is a time only while an event is pending.
THEOREM TypeCorrect == Spec => []TypeOK
<1> QED
    BY TypeInit, AwaitedInit, TypeStep, AwaitedStep, PTL DEF Spec

\* No event is invoked before the wall clock has reached its time (NeverEarly),
\* whatever other threads schedule during the wait and however often Run is called.
THEOREM PacingKept == Spec => []NeverEarly
<1>1. Awaited => NeverEarly
    BY DEF Awaited, NeverEarly
<1> QED
    BY <1>1, TypeInit, AwaitedInit, TypeStep, AwaitedStep, PTL DEF Spec

-----------------------------------------------------------------------------
(* The condition variable.                                                 *)

\* While the main thread waits, a step of another thread signals or leaves the
\* events alone.
LEMMA WakeupKept ==
    ASSUME TypeOK, Awaited, NoLostWakeup, Waiting => m_events' = m_events \/ m_condition',
           UNCHANGED <<pc, idle, until, wall, m_realtimeOriginNano>>,
           m_condition' \/ ~m_condition
    PROVE  NoLostWakeup'
<1>1. CASE ~Waiting \/ m_condition'
    BY <1>1 DEF NoLostWakeup, Waiting
<1>2. CASE Waiting /\ ~m_condition'
  <2>1. m_events' = m_events /\ ~m_condition
      BY <1>2
  <2>2. NextTs' = NextTs /\ GetCurrentRealtime' = GetCurrentRealtime
      BY <2>1 DEF NextTs, GetCurrentRealtime
  <2> QED
      BY <1>2, <2>1, <2>2 DEF NoLostWakeup, Waiting
<1> QED
    BY <1>1, <1>2

LEMMA WakeupStep ==
    ASSUME TypeOK, Awaited, NoLostWakeup, [Next]_vars
    PROVE  NoLostWakeup'
<1>a. GetCurrentRealtime \in Nat /\ wall \in Nat /\ m_realtimeOriginNano \in Nat /\ until \in Nat
    BY RealtimeNat DEF TypeOK
<1> USE DEF queue, wait
<1>b. ASSUME ~Waiting' PROVE NoLostWakeup'
    BY <1>b DEF NoLostWakeup, Waiting
<1>1. CASE UNCHANGED vars
    BY <1>1, WakeupKept DEF vars
<1>2. ASSUME NEW delay \in Delays,
             Schedule(delay) \/ ScheduleWithContextOther(delay) \/ ScheduleRealtime(delay)
      PROVE  NoLostWakeup'
  <2>1. m_condition' = TRUE
      BY <1>2, Scheduling DEF Insert
  <2> QED
      BY <2>1 DEF NoLostWakeup
<1>3. ASSUME NEW ev \in m_events, Remove(ev)
      PROVE  NoLostWakeup'
    BY <1>3, <1>b DEF Remove, InUserCode, Waiting
<1>4. CASE Stop
    BY <1>4, <1>b DEF Stop, InUserCode, Waiting
<1>5. CASE Run \/ EventReturns \/ SetOrigin \/ RunReturns \/ ProcessOneEvent
    BY <1>5, <1>b DEF Run, EventReturns, SetOrigin, RunReturns, ProcessOneEvent, Waiting
<1>6. CASE CheckEvents
  <2>1. \/ pc' = "head"
        \/ idle' = TRUE /\ m_events' = {}
      BY <1>6 DEF CheckEvents
  <2> QED
      BY <1>b, <2>1 DEF Waiting, NoLostWakeup
<1>7. CASE PrepareWait
  <2>1. m_events # {}
      BY <1>7 DEF PrepareWait, Awaited
  <2>2. until' = Max({GetCurrentRealtime, NextTs}) /\ m_events' = m_events /\ idle' = FALSE
        /\ UNCHANGED <<wall, m_realtimeOriginNano>>
      BY <1>7 DEF PrepareWait
  <2>3. NextTs' = NextTs /\ GetCurrentRealtime' = GetCurrentRealtime
      BY <2>2 DEF NextTs, GetCurrentRealtime
  <2>4. {GetCurrentRealtime, NextTs} = {NextTs, GetCurrentRealtime}
      OBVIOUS
  <2>5. until' = Max({NextTs', GetCurrentRealtime'}) /\ until' \in Int
    <3>1. GetCurrentRealtime \in Int /\ NextTs \in Int
        BY <1>a, <2>1, NextTsLeast
    <3> QED
        BY <2>2, <2>3, <2>4, <3>1, LargerOf
  <2> QED
      BY <2>1, <2>2, <2>5 DEF NoLostWakeup
<1>8. CASE Synchronize \/ SleepEnds \/ SpinEnds
  <2>1. /\ Waiting
        /\ UNCHANGED <<m_events, m_condition, idle, until, wall, m_realtimeOriginNano>>
      BY <1>8 DEF Synchronize, SleepEnds, SpinEnds, Waiting
  <2>2. NextTs' = NextTs /\ GetCurrentRealtime' = GetCurrentRealtime
      BY <2>1 DEF NextTs, GetCurrentRealtime
  <2> QED
      BY <2>1, <2>2 DEF NoLostWakeup, Waiting
<1>9. CASE Tick
  <2>1. UNCHANGED <<m_events, m_condition, idle, until, pc>>
      BY <1>9 DEF Tick
  <2>2. NextTs' = NextTs
      BY <2>1 DEF NextTs
  <2>3. GetCurrentRealtime' = GetCurrentRealtime + 1
      BY <1>a, <1>9 DEF Tick, GetCurrentRealtime
  <2>4. ASSUME m_events # {}, until <= Max({NextTs, GetCurrentRealtime})
        PROVE  until <= Max({NextTs', GetCurrentRealtime'})
    <3> DEFINE n == NextTs
               g == GetCurrentRealtime
    <3>1. n \in Int /\ g \in Int /\ g + 1 \in Int
        BY <1>a, <2>4, NextTsLeast
    <3> HIDE DEF n, g
    <3>2. Max({n, g}) \in {n, g}
        BY <3>1, LargerOf
    <3>3. n <= Max({n, g + 1}) /\ g + 1 <= Max({n, g + 1}) /\ Max({n, g + 1}) \in Int
        BY <3>1, LargerOf
    <3>4. until <= Max({n, g})
        BY <2>4 DEF n, g
    <3>5. until <= n \/ until <= g
        BY <3>2, <3>4
    <3>6. until <= Max({n, g + 1})
        BY <1>a, <3>1, <3>3, <3>5
    <3> QED
        BY <2>2, <2>3, <3>6 DEF n, g
  <2> QED
      BY <2>1, <2>4 DEF NoLostWakeup
<1> QED
    BY <1>1, <1>2, <1>3, <1>4, <1>5, <1>6, <1>7, <1>8, <1>9 DEF Next, Main

\* No wake-up is lost (NoLostWakeup): between the critical section that decides
\* on a wait and its end, whoever inserts an event also signals.
THEOREM WakeupsKept == Spec => []NoLostWakeup
<1>1. Init => NoLostWakeup
    BY DEF Init, NoLostWakeup
<1> QED
    BY <1>1, TypeInit, AwaitedInit, TypeStep, AwaitedStep, WakeupStep, PTL DEF Spec

-----------------------------------------------------------------------------
(* Scheduling in the past.                                                 *)

\* In the first run the simulation clock is not ahead of the wall clock: it has
\* not moved before SetOrigin, and then only to events that are due.
ClockBehind ==
    /\ m_currentTs <= GetCurrentRealtime
    /\ runs = 0 \/ pc = "origin" => m_currentTs = 0
    /\ runs = 0 => pc = "main"

LEMMA ClockStep ==
    ASSUME MaxRuns = 1, TypeOK, Awaited, ClockBehind, [Next]_vars
    PROVE  ClockBehind'
<1>a. /\ GetCurrentRealtime \in Nat /\ wall \in Nat /\ m_realtimeOriginNano \in Nat
      /\ \A e \in m_events : e.ts \in Nat
      /\ m_currentTs \in Nat /\ runs \in 0..1
    BY RealtimeNat DEF TypeOK
<1> USE DEF queue, wait, GetCurrentRealtime, ClockBehind
<1>1. CASE UNCHANGED vars
    BY <1>1 DEF vars
<1>2. ASSUME NEW delay \in Delays,
             Schedule(delay) \/ ScheduleWithContextOther(delay) \/ ScheduleRealtime(delay)
      PROVE  ClockBehind'
    BY <1>2, Scheduling
<1>3. ASSUME NEW ev \in m_events, Remove(ev)
      PROVE  ClockBehind'
    BY <1>3 DEF Remove
<1>4. CASE Stop \/ Run
    BY <1>a, <1>4 DEF Stop, Run
<1>5. CASE EventReturns \/ SetOrigin \/ RunReturns
    BY <1>a, <1>5 DEF EventReturns, SetOrigin, RunReturns
<1>6. CASE CheckEvents \/ PrepareWait \/ Synchronize
    BY <1>6 DEF CheckEvents, PrepareWait, Synchronize
<1>7. CASE SleepEnds \/ SpinEnds
    BY <1>7 DEF SleepEnds, SpinEnds, ReturnTo
<1>8. CASE ProcessOneEvent
  <2>1. PICK next \in m_events : /\ IsEarliest(next, m_events)
                                 /\ m_currentTs' = next.ts
                                 /\ pc' \in {"fatal", "event"}
      BY <1>8 DEF ProcessOneEvent
  <2>2. PICK e \in m_events : e.ts <= GetCurrentRealtime
      BY <1>8 DEF ProcessOneEvent, Awaited
  <2>3. next.ts <= e.ts
      BY <1>a, <2>1 DEF IsEarliest, Less
  <2>4. next.ts <= GetCurrentRealtime
      BY <1>a, <2>2, <2>3
  <2>5. UNCHANGED <<wall, m_realtimeOriginNano, runs>> /\ pc = "take"
      BY <1>8 DEF ProcessOneEvent
  <2> QED
      BY <2>1, <2>4, <2>5
<1>9. CASE Tick
    BY <1>a, <1>9 DEF Tick
<1> QED
    BY <1>1, <1>2, <1>3, <1>4, <1>5, <1>6, <1>7, <1>8, <1>9 DEF Next, Main

\* The assertion of the scheduling calls holds (NotInPast), if Run is called once:
\* an event another thread schedules for the wall clock is not behind the event run
\* last.  A second Run sets the origin anew and leaves the simulation clock.
THEOREM NeverInPast == ASSUME MaxRuns = 1 PROVE Spec => NotInPast
<1>1. Init => ClockBehind
    BY TimesAssumption DEF Init, ClockBehind, GetCurrentRealtime
<1>2. TypeOK /\ Awaited /\ ClockBehind /\ [Next]_vars
      => [\A e \in m_events' \ m_events : m_currentTs <= e.ts]_vars
  <2> SUFFICES ASSUME TypeOK, Awaited, ClockBehind, Next, NEW e \in m_events' \ m_events
               PROVE  m_currentTs <= e.ts
      OBVIOUS
  <2>1. ASSUME NEW delay \in Delays,
               Schedule(delay) \/ ScheduleWithContextOther(delay) \/ ScheduleRealtime(delay)
        PROVE  m_currentTs <= e.ts
    <3>1. PICK ts \in Nat : /\ Insert(ts)
                            /\ \/ ts = m_currentTs + delay
                               \/ ts = GetCurrentRealtime + delay
        BY <2>1, Scheduling
    <3>2. e.ts = ts
        BY <3>1 DEF Insert
    <3>3. m_currentTs <= GetCurrentRealtime /\ m_currentTs \in Nat /\ GetCurrentRealtime \in Nat
          /\ delay \in Nat
        BY RealtimeNat, TimesAssumption DEF ClockBehind, TypeOK
    <3> QED
        BY <3>1, <3>2, <3>3
  <2>2. CASE m_events' \subseteq m_events
      BY <2>2
  <2> USE DEF queue, wait
  <2>3. ASSUME NEW ev \in m_events, Remove(ev)
        PROVE  m_currentTs <= e.ts
      BY <2>2, <2>3 DEF Remove
  <2>4. CASE Stop \/ Run \/ Main \/ Tick
    <3>1. m_events' \subseteq m_events
        BY <2>4 DEF Stop, Run, Main, Tick, EventReturns, SetOrigin, RunReturns, CheckEvents,
                    PrepareWait, Synchronize, SleepEnds, SpinEnds, ProcessOneEvent
    <3> QED
        BY <2>2, <3>1
  <2> QED
      BY <2>1, <2>3, <2>4 DEF Next
<1> QED
    BY <1>1, <1>2, TypeInit, AwaitedInit, TypeStep, AwaitedStep, ClockStep, PTL
    DEF Spec, NotInPast
=============================================================================
