-------------------------- MODULE RealtimeSimulator --------------------------
(***************************************************************************)
(* RealtimeSimulatorImpl and WallClockSynchronizer: events are invoked     *)
(* when the wall clock reaches their time.  The main thread runs them and  *)
(* waits in between; other threads schedule events at any moment (packets  *)
(* from real devices) and wake it with a condition variable.               *)
(*                                                                         *)
(* pc is where the main thread is:                                         *)
(*   "main"    outside Run, in user code                                   *)
(*   "origin"  in Run, after m_running = true and before SetOrigin         *)
(*   "loop"    at the condition of Run's while loop                        *)
(*   "head"    at the top of ProcessOneEvent's for loop                    *)
(*   "wait"    about to enter Synchronize                                  *)
(*   "sleep"   in SystemCondition::TimedWait                               *)
(*   "spin"    in SpinWait                                                 *)
(*   "take"    after the wait, before the second critical section          *)
(*   "event"   in the function of an event                                 *)
(*   "fatal"   aborted: the hard limit was exceeded                        *)
(*                                                                         *)
(* A critical section of m_mutex is one step, and so is Signal, which sets *)
(* the condition and wakes the waiter.  Time is counted in ticks, which    *)
(* are also the jiffies of the synchronizer.                               *)
(***************************************************************************)
EXTENDS Scheduler, FiniteSetsExt

CONSTANTS Delays,      \* the delays events are scheduled with
          IdleWait,    \* the tsDelay of Run: the wait when there is no event
          Second,      \* NS_PER_SEC, the modulus of a timespec; in the code it
                       \* equals IdleWait
          SpinTicks,   \* a wait sleeps for all but its last SpinTicks ticks
          HardLimit,   \* the largest jitter that is accepted
          StartWall,   \* the wall clock when the program starts
          MaxWall,     \* bound on the wall clock
          MaxUid,      \* bound on the uids
          MaxRuns      \* bound on the calls of Run

ASSUME TimesAssumption ==
    /\ Delays \subseteq Nat /\ IdleWait \in Nat /\ Second \in Nat \ {0} /\ SpinTicks \in Nat
    /\ StartWall \in Nat /\ MaxWall \in Nat /\ StartWall <= MaxWall
    /\ HardLimit \in Nat
ASSUME BoundsAssumption == MaxUid \in Nat /\ MaxUid >= 4 /\ MaxRuns \in Nat \* the first uid is 4

VARIABLES
    m_events,
    m_uid,
    m_currentTs,
    m_stop,
    m_running,
    m_realtimeOriginNano,  \* the wall clock at the beginning of Run
    m_condition,           \* the condition of the synchronizer
    wall,                  \* gettimeofday
    pc,
    idle,                  \* Synchronize was called for lack of events
    until,                 \* its argument tsNow + tsDelay
    deadline,              \* of TimedWait, or Never
    runs

queue == <<m_events, m_uid>>
wait == <<idle, until, deadline>>
vars == <<queue, m_currentTs, m_stop, m_running, m_realtimeOriginNano, m_condition,
          wall, pc, wait, runs>>

\* A deadline that is not a valid timespec: pthread_cond_timedwait refuses it,
\* and TimedWait, which only looks for ETIMEDOUT, calls it again and again.
Never == MaxWall + 1

Init == /\ m_events = {} /\ m_uid = 4
        /\ m_currentTs = 0
        /\ m_stop = FALSE /\ m_running = FALSE
        /\ m_realtimeOriginNano = 0
        /\ m_condition = FALSE
        /\ wall = StartWall
        /\ pc = "main"
        /\ idle = FALSE /\ until = 0 /\ deadline = 0
        /\ runs = 0

GetCurrentRealtime == wall - m_realtimeOriginNano

\* Mutant: the event is inserted and the main thread is not woken.
MutantInsert(ts) ==
    /\ m_uid <= MaxUid
    /\ m_events' = m_events \cup {[ts |-> ts, uid |-> m_uid]}
    /\ m_uid' = m_uid + 1
    /\ UNCHANGED m_condition

\* The critical section of every scheduling call: Insert and Signal.
Insert(ts) ==
    /\ m_uid <= MaxUid
    /\ m_events' = m_events \cup {[ts |-> ts, uid |-> m_uid]}
    /\ m_uid' = m_uid + 1
    /\ m_condition' = TRUE

-----------------------------------------------------------------------------
(* User code in the main thread, and other threads.                        *)

InUserCode == pc \in {"main", "event"}

\* Schedule, ScheduleNow, and ScheduleWithContext in the main thread.
Schedule(delay) ==
    /\ InUserCode
    /\ Insert(m_currentTs + delay)
    /\ UNCHANGED <<m_currentTs, m_stop, m_running, m_realtimeOriginNano, wall, pc, wait, runs>>

\* ScheduleWithContext in another thread, and with no delay
\* ScheduleRealtimeNow in any thread.
ScheduleWithContextOther(delay) ==
    /\ pc # "fatal"
    /\ Insert((IF m_running THEN GetCurrentRealtime ELSE m_currentTs) + delay)
    /\ UNCHANGED <<m_currentTs, m_stop, m_running, m_realtimeOriginNano, wall, pc, wait, runs>>

\* ScheduleRealtime does not ask whether the clock is running.
ScheduleRealtime(delay) ==
    /\ pc # "fatal"
    /\ Insert(GetCurrentRealtime + delay)
    /\ UNCHANGED <<m_currentTs, m_stop, m_running, m_realtimeOriginNano, wall, pc, wait, runs>>

Remove(ev) ==
    /\ InUserCode
    /\ ev \in m_events
    /\ m_events' = m_events \ {ev}
    /\ UNCHANGED <<m_uid, m_currentTs, m_stop, m_running, m_realtimeOriginNano, m_condition,
                   wall, pc, wait, runs>>

Stop ==
    /\ InUserCode
    /\ m_stop' = TRUE
    /\ UNCHANGED <<queue, m_currentTs, m_running, m_realtimeOriginNano, m_condition, wall,
                   pc, wait, runs>>

EventReturns ==
    /\ pc = "event"
    /\ pc' = "loop"
    /\ UNCHANGED <<queue, m_currentTs, m_stop, m_running, m_realtimeOriginNano, m_condition,
                   wall, wait, runs>>

-----------------------------------------------------------------------------
(* Run.                                                                    *)

Run ==
    /\ pc = "main" /\ runs < MaxRuns
    /\ m_stop' = FALSE
    /\ m_running' = TRUE
    /\ runs' = runs + 1
    /\ pc' = "origin"
    /\ UNCHANGED <<queue, m_currentTs, m_realtimeOriginNano, m_condition, wall, wait>>

SetOrigin ==
    /\ pc = "origin"
    /\ m_realtimeOriginNano' = wall
    /\ pc' = "loop"
    /\ UNCHANGED <<queue, m_currentTs, m_stop, m_running, m_condition, wall, wait, runs>>

RunReturns ==
    /\ pc = "loop" /\ m_stop
    /\ m_running' = FALSE
    /\ pc' = "main"
    /\ UNCHANGED <<queue, m_currentTs, m_stop, m_realtimeOriginNano, m_condition, wall,
                   wait, runs>>

\* The first critical section of Run: with no event, a wait of one second.
\* The condition is left as it is.
CheckEvents ==
    /\ pc = "loop" /\ ~m_stop
    /\ \/ /\ m_events # {}
          /\ pc' = "head"
          /\ UNCHANGED wait
       \/ /\ m_events = {}
          /\ pc' = "wait"
          /\ idle' = TRUE
          /\ until' = GetCurrentRealtime + IdleWait
          /\ UNCHANGED deadline
    /\ UNCHANGED <<queue, m_currentTs, m_stop, m_running, m_realtimeOriginNano, m_condition,
                   wall, runs>>

NextTs == Min({e.ts : e \in m_events})

\* Mutant: the unsigned difference of an event that is late wraps.
MutantPrepareWait ==
    /\ pc = "head"
    /\ idle' = FALSE
    /\ until' = IF NextTs < GetCurrentRealtime THEN 2 * MaxWall ELSE NextTs
    /\ m_condition' = FALSE
    /\ pc' = "wait"
    /\ UNCHANGED <<queue, m_currentTs, m_stop, m_running, m_realtimeOriginNano, wall,
                   deadline, runs>>

\* The first critical section of ProcessOneEvent.
PrepareWait ==
    /\ pc = "head"
    /\ idle' = FALSE
    /\ until' = Max({GetCurrentRealtime, NextTs})
    /\ m_condition' = FALSE
    /\ pc' = "wait"
    /\ UNCHANGED <<queue, m_currentTs, m_stop, m_running, m_realtimeOriginNano, wall,
                   deadline, runs>>

\* The absolute time TimedWait computes for a wait of ns: seconds and
\* nanoseconds are added separately, and a sum of exactly one second of
\* nanoseconds is not carried.
Deadline(ns) ==
    IF (wall % Second) + (ns % Second) = Second THEN Never ELSE wall + ns

\* DoSynchronize: sleep for most of the remaining time, then spin.
Synchronize ==
    LET ns == Max({0, until - GetCurrentRealtime}) IN
    /\ pc = "wait"
    /\ \/ /\ ns > SpinTicks
          /\ pc' = "sleep"
          /\ deadline' = Deadline(ns - SpinTicks)
       \/ /\ ns <= SpinTicks
          /\ pc' = "spin"
          /\ UNCHANGED deadline
    /\ UNCHANGED <<queue, m_currentTs, m_stop, m_running, m_realtimeOriginNano, m_condition,
                   wall, idle, until, runs>>

\* The caller of Synchronize goes on: Run's loop whatever the result, and
\* ProcessOneEvent to the event or, after an interruption, to its loop.
ReturnTo(result) == CASE idle            -> "loop"
                      [] ~idle /\ result -> "take"
                      [] OTHER           -> "head"

\* TimedWait ends with its deadline or with the condition, whichever it sees first.
SleepEnds ==
    /\ pc = "sleep"
    /\ \/ wall >= deadline /\ deadline # Never /\ pc' = "spin"
       \/ m_condition /\ pc' = ReturnTo(FALSE)
    /\ UNCHANGED <<queue, m_currentTs, m_stop, m_running, m_realtimeOriginNano, m_condition,
                   wall, wait, runs>>

\* Mutant: the wait for the next event ends when sleeping does.
MutantSpinEnds ==
    /\ pc = "spin"
    /\ pc' = ReturnTo(TRUE)
    /\ UNCHANGED <<queue, m_currentTs, m_stop, m_running, m_realtimeOriginNano, m_condition,
                   wall, wait, runs>>

SpinEnds ==
    /\ pc = "spin"
    /\ \/ GetCurrentRealtime >= until /\ pc' = ReturnTo(TRUE)
       \/ GetCurrentRealtime < until /\ m_condition /\ pc' = ReturnTo(FALSE)
    /\ UNCHANGED <<queue, m_currentTs, m_stop, m_running, m_realtimeOriginNano, m_condition,
                   wall, wait, runs>>

\* The second critical section of ProcessOneEvent: whatever event is first by
\* now is taken.  In hard limit mode a late event aborts the program.
ProcessOneEvent ==
    /\ pc = "take"
    /\ \E next \in m_events :
         /\ IsEarliest(next, m_events)
         /\ m_events' = m_events \ {next}
         /\ m_currentTs' = next.ts
         /\ pc' = IF GetCurrentRealtime - next.ts > HardLimit THEN "fatal" ELSE "event"
    /\ UNCHANGED <<m_uid, m_stop, m_running, m_realtimeOriginNano, m_condition, wall, wait, runs>>

Tick ==
    /\ wall < MaxWall
    /\ wall' = wall + 1
    /\ UNCHANGED <<queue, m_currentTs, m_stop, m_running, m_realtimeOriginNano, m_condition,
                   pc, wait, runs>>

Main == \/ EventReturns \/ SetOrigin \/ RunReturns \/ CheckEvents \/ PrepareWait
        \/ Synchronize \/ SleepEnds \/ SpinEnds \/ ProcessOneEvent

Next == \/ \E delay \in Delays : \/ Schedule(delay)
                                 \/ ScheduleWithContextOther(delay)
                                 \/ ScheduleRealtime(delay)
        \/ \E ev \in m_events : Remove(ev)
        \/ Stop \/ Run
        \/ Main
        \/ Tick

Spec == Init /\ [][Next]_vars

\* The main thread is scheduled, event functions return, and time passes.
FairSpec == Spec /\ WF_vars(Main) /\ WF_vars(Tick)

-----------------------------------------------------------------------------
\* Times are natural numbers in spite of the subtractions, and the main thread
\* is at one of its locations.
TypeOK ==
    /\ m_events \subseteq [ts : Nat, uid : 4..MaxUid]
    /\ m_uid \in 4..MaxUid + 1
    /\ m_currentTs \in Nat
    /\ m_stop \in BOOLEAN /\ m_running \in BOOLEAN /\ m_condition \in BOOLEAN
    /\ m_realtimeOriginNano \in 0..wall
    /\ wall \in StartWall..MaxWall
    /\ pc \in {"main", "origin", "loop", "head", "wait", "sleep", "spin", "take", "event", "fatal"}
    /\ idle \in BOOLEAN /\ until \in Nat /\ deadline \in Nat
    /\ runs \in 0..MaxRuns

\* Pacing: no event is invoked before the wall clock has reached its time,
\* although the event that is taken after a wait need not be the one the wait
\* was for.
NeverEarly == pc = "event" => m_currentTs <= GetCurrentRealtime

\* No wake-up is lost: while the main thread waits it has been signalled, or it
\* waits for an event that is still the earliest (and in Run's own wait there
\* is no event).  The window between the critical section that decides on the
\* wait and the wait itself is open to other threads.
NoLostWakeup ==
    pc \in {"wait", "sleep", "spin"} /\ ~m_condition =>
        IF idle THEN m_events = {}
        ELSE m_events # {} /\ until <= Max({NextTs, GetCurrentRealtime})

\* The assertion of the scheduling calls: an event is never scheduled for a
\* time before that of the event run last.
NotInPast == [][\A e \in m_events' \ m_events : m_currentTs <= e.ts]_vars

\* An event whose time the wall clock reaches is invoked in the end, or removed
\* by the user, unless the simulation is stopped or aborted.
EventuallyRun ==
    \A uid \in 4..MaxUid :
        (/\ pc \notin {"main", "origin"}
         /\ \E e \in m_events : e.uid = uid /\ e.ts + m_realtimeOriginNano <= MaxWall)
        ~> (m_stop \/ pc = "fatal" \/ \A e \in m_events : e.uid # uid)
=============================================================================
