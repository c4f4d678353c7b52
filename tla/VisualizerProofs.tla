-------------------------- MODULE VisualizerProofs --------------------------
(***************************************************************************)
(* The threads of PyViz, for every bound on time, every set of sample      *)
(* periods and any number of nested main loops.                            *)
(***************************************************************************)
EXTENDS Visualizer, FiniteSetTheorems, SequenceTheorems, NaturalsInduction, TLAPS

-----------------------------------------------------------------------------
(* The lock.  It is held exactly by the thread that is where the code has  *)
(* taken it and not yet released it.                                       *)

LockExact == /\ lock = "gui" <=> gui \in {"view", "locked"}
             /\ lock = "sim" <=> sim \in {"run", "release"}

LEMMA LockInit == Init => LockExact
BY DEF Init, LockExact

LEMMA LockStep ==
    ASSUME LockExact, [Next]_vars
    PROVE  LockExact'
<1> USE DEF LockExact, guiVars, simVars, sharedVars
<1>1. CASE UNCHANGED vars
    BY <1>1 DEF vars
<1>2. CASE SimStep
    BY <1>2 DEF SimStep, SimWhile, SimWait, SimClear, SimIfQuit, SimAcquire, SimRun, SimRelease
<1>3. CASE CallbackStep
  <2>1. CASE TryAcquire \/ TryFails
      BY <2>1 DEF TryAcquire, TryFails, CanAcquire
  <2>2. CASE UpdateView \/ FinishUpdate
      BY <2>2 DEF UpdateView, FinishUpdate, ReturnTo
  <2>3. CASE CallbackAcquires \/ CallbackReleases \/ UnlockedReturns
      BY <2>3 DEF CallbackAcquires, CallbackReleases, UnlockedReturns
  <2>4. CASE QuitGo \/ Join
      BY <2>4 DEF QuitGo, Join, ReturnTo
  <2> QED
      BY <1>3, <2>1, <2>2, <2>3, <2>4 DEF CallbackStep
<1>4. CASE UserStep \/ UpdateModel
    BY <1>4 DEF UserStep, UpdateModel, NodeCallback, EnterCallback, UnlockedCallback,
                OnPlayButtonToggled, SpeedChanged, Quit
<1>5. CASE Retry \/ \E t \in TimerIds : Fire(t)
    BY <1>5 DEF Retry, Fire
<1> QED
    BY <1>1, <1>2, <1>3, <1>4, <1>5 DEF Next

-----------------------------------------------------------------------------
(* How far the simulation is ahead of the view.  The target is what keeps  *)
(* it back: it was set when the view was updated, at most a sample period  *)
(* after the time that was shown.                                          *)

TimeTypes == /\ now \in Nat /\ shown \in Nat /\ target_time \in Nat
             /\ sample_period \in Periods

TargetNear == \E p \in Periods : target_time <= shown + p

AheadInv == TimeTypes /\ NotAheadOfView /\ TargetNear

LEMMA AheadInit == Init => AheadInv
<1> SUFFICES ASSUME Init PROVE AheadInv
    OBVIOUS
<1>1. now = 0 /\ shown = 0 /\ target_time = 0 /\ sample_period \in Periods
    BY DEF Init
<1>2. sample_period \in Nat
    BY <1>1, PeriodsAssumption
<1> QED
    BY <1>1, <1>2 DEF AheadInv, TimeTypes, NotAheadOfView, TargetNear

LEMMA QuietAhead ==
    ASSUME AheadInv, UNCHANGED <<now, shown, target_time>>, sample_period' \in Periods
    PROVE  AheadInv'
BY DEF AheadInv, TimeTypes, NotAheadOfView, TargetNear

LEMMA AheadStep ==
    ASSUME AheadInv, [Next]_vars
    PROVE  AheadInv'
<1>a. sample_period \in Periods
    BY DEF AheadInv, TimeTypes
<1> USE DEF guiVars, simVars, sharedVars
<1>1. CASE UNCHANGED vars
    BY <1>1, <1>a, QuietAhead DEF vars
<1>2. CASE SimWhile \/ SimWait \/ SimClear \/ SimIfQuit \/ SimAcquire \/ SimRelease
    BY <1>2, <1>a, QuietAhead
    DEF SimWhile, SimWait, SimClear, SimIfQuit, SimAcquire, SimRelease
<1>3. CASE SimRun
  <2>1. now' = IF now >= target_time THEN now ELSE target_time
      BY <1>3 DEF SimRun, SimulatorRunUntil
  <2>2. UNCHANGED <<shown, target_time, sample_period>>
      BY <1>3 DEF SimRun
  <2>3. CASE now >= target_time
      BY <1>a, <2>1, <2>2, <2>3, QuietAhead DEF AheadInv, TimeTypes
  <2>4. CASE ~(now >= target_time)
      BY <2>1, <2>2, <2>4 DEF AheadInv, TimeTypes, NotAheadOfView, TargetNear
  <2> QED
      BY <2>3, <2>4
<1>4. CASE UpdateView
  <2>1. /\ shown' = now /\ now' = now /\ sample_period' = sample_period
        /\ target_time' = IF now + sample_period < MaxTime THEN now + sample_period ELSE MaxTime
      BY <1>4 DEF UpdateView, Target, Smaller
  <2>2. now \in Nat /\ sample_period \in Nat /\ MaxTime \in Nat
      BY <1>a, PeriodsAssumption, MaxTimeAssumption DEF AheadInv, TimeTypes
  <2>3. target_time' \in Nat /\ target_time' <= now + sample_period /\ now <= now + sample_period
      BY <2>1, <2>2
  <2> QED
      BY <1>a, <2>1, <2>2, <2>3 DEF AheadInv, TimeTypes, NotAheadOfView, TargetNear
<1>5. CASE TryAcquire \/ TryFails \/ FinishUpdate \/ CallbackAcquires \/ CallbackReleases
           \/ UnlockedReturns \/ QuitGo \/ Join
    BY <1>5, <1>a, QuietAhead
    DEF TryAcquire, TryFails, FinishUpdate, CallbackAcquires, CallbackReleases,
        UnlockedReturns, QuitGo, Join
<1>6. CASE UserStep \/ UpdateModel
    BY <1>6, <1>a, QuietAhead
    DEF UserStep, UpdateModel, NodeCallback, EnterCallback, UnlockedCallback, OnPlayButtonToggled,
        SpeedChanged, Quit
<1>7. CASE Retry \/ \E t \in TimerIds : Fire(t)
    BY <1>7, <1>a, QuietAhead DEF Retry, Fire
<1> QED
    BY <1>1, <1>2, <1>3, <1>4, <1>5, <1>6, <1>7 DEF Next, SimStep, CallbackStep

\* The simulation is never more than a sample period ahead of the view
\* (NotAheadOfView), however late SimulationThread runs to an old target and
\* however often go is set in the meantime.
THEOREM ViewKeepsUp == Spec => []NotAheadOfView
<1>1. AheadInv => NotAheadOfView
    BY DEF AheadInv
<1> QED
    BY AheadInit, AheadStep, <1>1, PTL DEF Spec

-----------------------------------------------------------------------------
(* The timer.                                                              *)

LEMMA QuietTimer ==
    ASSUME PlayingHasTimer, UNCHANGED <<active, quit, timers, update_timeout_id>>
    PROVE  PlayingHasTimer'
BY DEF PlayingHasTimer

LEMMA TimerStep ==
    ASSUME PlayingHasTimer, [Next]_vars
    PROVE  PlayingHasTimer'
<1> USE DEF guiVars, timerVars, simVars, sharedVars
<1>1. CASE UNCHANGED vars
    BY <1>1, QuietTimer DEF vars
<1>2. CASE SimStep
    BY <1>2, QuietTimer
    DEF SimStep, SimWhile, SimWait, SimClear, SimIfQuit, SimAcquire, SimRun, SimRelease
<1>3. CASE FinishUpdate
  <2>1. active' = (active /\ ~found) /\ quit' = quit
      BY <1>3, Zenon DEF FinishUpdate
  <2>2. ASSUME active, ~found
        PROVE  timers' = timers /\ update_timeout_id' = update_timeout_id
      BY <1>3, <2>2 DEF FinishUpdate
  <2>3. CASE active /\ ~found
    <3>1. ~quit' => update_timeout_id \in timers
        BY <2>1, <2>3, Zenon DEF PlayingHasTimer
    <3>2. timers' = timers /\ update_timeout_id' = update_timeout_id
        BY <2>2, <2>3
    <3> QED
        BY <3>1, <3>2 DEF PlayingHasTimer
  <2>4. CASE ~(active /\ ~found)
      BY <2>1, <2>4, Zenon DEF PlayingHasTimer
  <2> QED
      BY <2>3, <2>4
<1>4. CASE TryAcquire \/ TryFails \/ UpdateView \/ CallbackAcquires \/ CallbackReleases
           \/ UnlockedReturns \/ QuitGo \/ Join
    BY <1>4, QuietTimer
    DEF TryAcquire, TryFails, UpdateView, CallbackAcquires, CallbackReleases,
        UnlockedReturns, QuitGo, Join
<1>5. CASE OnPlayButtonToggled
  <2>1. /\ active' = ~active /\ quit' = quit
        /\ ~active => timers' = (timers \ {update_timeout_id}) \cup {FreshId}
                      /\ update_timeout_id' = FreshId
      BY <1>5, Zenon DEF OnPlayButtonToggled, StartUpdateTimer
  <2>2. CASE active
      BY <2>1, <2>2, Zenon DEF PlayingHasTimer
  <2>3. CASE ~active
      BY <2>1, <2>3, Zenon DEF PlayingHasTimer
  <2> QED
      BY <2>2, <2>3
<1>6. CASE SpeedChanged
  <2>1. timers' = (timers \ {update_timeout_id}) \cup {FreshId} /\ update_timeout_id' = FreshId
      BY <1>6 DEF SpeedChanged, StartUpdateTimer
  <2> QED
      BY <2>1 DEF PlayingHasTimer
<1>7. CASE NodeCallback \/ UnlockedCallback \/ UpdateModel
    BY <1>7, QuietTimer DEF NodeCallback, UnlockedCallback, UpdateModel, EnterCallback
<1>8. CASE Quit
  <2>1. quit' = TRUE
      BY <1>8 DEF Quit
  <2> QED
      BY <2>1, Zenon DEF PlayingHasTimer
<1>9. CASE Retry \/ \E t \in TimerIds : Fire(t)
    BY <1>9, QuietTimer DEF Retry, Fire
<1> QED
    BY <1>1, <1>2, <1>3, <1>4, <1>5, <1>6, <1>7, <1>8, <1>9 DEF Next, CallbackStep, UserStep

\* While the simulation is playing its timer is alive (PlayingHasTimer): the
\* callbacks that run inside a waiting update_view_timeout may replace the
\* timer under it, and it may end the timer of another frame, but never the
\* one on record unless the play button is released.
THEOREM TimerAlive == Spec => []PlayingHasTimer
<1>1. Init => PlayingHasTimer
    BY Zenon DEF Init, PlayingHasTimer
<1> QED
    BY <1>1, TimerStep, PTL DEF Spec

-----------------------------------------------------------------------------
(* Type correctness.  The ids of timers do not run out: those still in use *)
(* are among the first one and one for each thing the user has done.       *)

IdsUsed == \E U \in SUBSET TimerIds :
              /\ Cardinality(U) <= events + 1
              /\ timers \subseteq U /\ InFrames \subseteq U
              /\ update_timeout_id \in U \cup {None}

TypeInv == TypeOK /\ IdsUsed

LEMMA LeastNatural ==
    ASSUME NEW S \in SUBSET Nat, S # {}
    PROVE  \E n \in S : \A m \in S : n <= m
<1> DEFINE Below == {pair \in Nat \X Nat : pair[1] < pair[2]}
<1>1. IsWellFoundedOn(Below, Nat)
    BY NatLessThanWellFounded DEF OpToRel
<1> HIDE DEF Below
<1>2. PICK x \in S : \A y \in S : <<y, x>> \notin Below
    BY <1>1, WFMin
<1>3. \A y \in S : ~(y < x)
    BY <1>2 DEF Below
<1> QED
    BY <1>3

\* A timer can be started as long as the user may still do something.
LEMMA FreshIdFresh ==
    ASSUME TypeInv, events < MaxEvents
    PROVE  \E U \in SUBSET TimerIds :
              /\ Cardinality(U) <= events + 2
              /\ timers \subseteq U /\ InFrames \subseteq U
              /\ FreshId \in U
<1>1. PICK U \in SUBSET TimerIds :
         /\ Cardinality(U) <= events + 1
         /\ timers \subseteq U /\ InFrames \subseteq U
         /\ update_timeout_id \in U \cup {None}
    BY DEF TypeInv, IdsUsed
<1>2. IsFiniteSet(U) /\ Cardinality(U) \in Nat
    BY TimerIdsAssumption, FS_Subset, FS_CardinalityType
<1>3. Cardinality(U) < Cardinality(TimerIds)
  <2>1. Cardinality(TimerIds) \in Nat /\ events \in Nat
      BY TimerIdsAssumption, FS_CardinalityType DEF TypeInv, TypeOK
  <2> QED
      BY <1>1, <1>2, <2>1, TimerIdsAssumption, MaxEventsAssumption
<1> DEFINE free == TimerIds \ (timers \cup InFrames \cup {update_timeout_id})
<1>4. free # {}
  <2>1. U # TimerIds
      BY <1>2, <1>3
  <2>2. None \notin TimerIds
      BY TimerIdsAssumption DEF None
  <2> QED
      BY <1>1, <2>1, <2>2
<1>5. FreshId \in free
  <2>1. free \in SUBSET Nat
      BY TimerIdsAssumption
  <2> HIDE DEF free
  <2>2. \E t \in free : \A u \in free : t <= u
      BY <1>4, <2>1, LeastNatural
  <2>3. FreshId = CHOOSE t \in free : \A u \in free : t <= u
      BY DEF FreshId, free
  <2> QED
      BY <2>2, <2>3
<1>6. Cardinality(U \cup {FreshId}) <= events + 2
  <2>1. events \in Nat
      BY DEF TypeInv, TypeOK
  <2>2. Cardinality(U \cup {FreshId}) <= Cardinality(U) + 1
      BY <1>2, FS_AddElement
  <2>3. Cardinality(U \cup {FreshId}) \in Nat
      BY <1>2, FS_AddElement, FS_CardinalityType
  <2> QED
      BY <1>1, <1>2, <2>1, <2>2, <2>3
<1> QED
    BY <1>1, <1>5, <1>6

Flags == {active, found, go, quit, pause_messages, update_pending} \subseteq BOOLEAN

Modes == /\ gui \in {"loop", "try", "view", "tick", "blocked", "locked", "unlocked", "quit",
                     "join", "left"}
         /\ sim \in {"while", "wait", "clear", "ifquit", "acquire", "run", "release", "dead"}
         /\ lock \in {"free", "gui", "sim"}

Times == /\ {now, shown, target_time} \subseteq 0..MaxTime
         /\ sample_period \in Periods

Timers == /\ frames \in Seq(TimerIds) /\ timers \subseteq TimerIds
          /\ update_timeout_id \in TimerIds \cup {None}
          /\ events \in 0..MaxEvents

LEMMA TypeParts == TypeOK <=> Flags /\ Modes /\ Times /\ Timers
BY DEF TypeOK, Flags, Modes, Times, Timers

LEMMA FlagsStep ==
    ASSUME Flags, [Next]_vars
    PROVE  Flags'
<1> USE DEF Flags, guiVars, timerVars, simVars, sharedVars
<1>1. CASE UNCHANGED vars
    BY <1>1, Zenon DEF vars
<1>2. CASE SimRun
    BY <1>2, Zenon DEF SimRun, Extend
<1>3. CASE SimWhile \/ SimWait \/ SimClear \/ SimIfQuit \/ SimAcquire \/ SimRelease
    BY <1>3, Zenon DEF SimWhile, SimWait, SimClear, SimIfQuit, SimAcquire, SimRelease
<1>4. CASE FinishUpdate
    BY <1>4, Zenon DEF FinishUpdate
<1>5. CASE UpdateView
    BY <1>5, Zenon DEF UpdateView
<1>6. CASE TryAcquire \/ TryFails \/ CallbackAcquires \/ CallbackReleases \/ UnlockedReturns
           \/ QuitGo \/ Join
    BY <1>6, Zenon DEF TryAcquire, TryFails, CallbackAcquires, CallbackReleases,
                       UnlockedReturns, QuitGo, Join
<1>7. CASE OnPlayButtonToggled
    BY <1>7, Zenon DEF OnPlayButtonToggled, CanDo
<1>8. CASE SpeedChanged \/ Quit
    BY <1>8, Zenon DEF SpeedChanged, Quit, CanDo
<1>9. CASE NodeCallback \/ UnlockedCallback \/ UpdateModel
    BY <1>9, Zenon DEF NodeCallback, UnlockedCallback, UpdateModel, EnterCallback, CanDo
<1>10. CASE Retry \/ \E t \in TimerIds : Fire(t)
    BY <1>10, Zenon DEF Retry, Fire
<1> QED
    BY <1>1, <1>2, <1>3, <1>4, <1>5, <1>6, <1>7, <1>8, <1>9, <1>10
    DEF Next, SimStep, CallbackStep, UserStep

LEMMA ModesStep ==
    ASSUME Modes, [Next]_vars
    PROVE  Modes'
<1> USE DEF Modes, guiVars, simVars, sharedVars
<1>1. CASE UNCHANGED vars
    BY <1>1 DEF vars
<1>2. CASE SimStep
    BY <1>2 DEF SimStep, SimWhile, SimWait, SimClear, SimIfQuit, SimAcquire, SimRun, SimRelease
<1>3. CASE CallbackStep
    BY <1>3 DEF CallbackStep, TryAcquire, TryFails, UpdateView, FinishUpdate, ReturnTo,
                CallbackAcquires, CallbackReleases, UnlockedReturns, QuitGo, Join
<1>4. CASE UserStep \/ UpdateModel
    BY <1>4 DEF UserStep, UpdateModel, NodeCallback, EnterCallback, UnlockedCallback,
                OnPlayButtonToggled, SpeedChanged, Quit
<1>5. CASE Retry \/ \E t \in TimerIds : Fire(t)
    BY <1>5 DEF Retry, Fire
<1> QED
    BY <1>1, <1>2, <1>3, <1>4, <1>5 DEF Next

LEMMA TimesStep ==
    ASSUME Times, [Next]_vars
    PROVE  Times'
<1> USE DEF Times, guiVars, simVars, sharedVars
<1>1. CASE UNCHANGED vars
    BY <1>1 DEF vars
<1>2. CASE SimStep
    BY <1>2 DEF SimStep, SimWhile, SimWait, SimClear, SimIfQuit, SimAcquire, SimRun, SimRelease,
                SimulatorRunUntil
<1>3. CASE UpdateView
  <2>1. sample_period \in Nat /\ now \in 0..MaxTime
      BY PeriodsAssumption
  <2>2. Target \in 0..MaxTime
      BY <2>1, MaxTimeAssumption DEF Target, Smaller
  <2> QED
      BY <1>3, <2>2 DEF UpdateView
<1>4. CASE TryAcquire \/ TryFails \/ FinishUpdate \/ CallbackAcquires \/ CallbackReleases
           \/ UnlockedReturns \/ QuitGo \/ Join
    BY <1>4 DEF TryAcquire, TryFails, FinishUpdate, CallbackAcquires, CallbackReleases,
                UnlockedReturns, QuitGo, Join
<1>5. CASE UserStep \/ UpdateModel
    BY <1>5 DEF UserStep, UpdateModel, NodeCallback, EnterCallback, UnlockedCallback,
                OnPlayButtonToggled, SpeedChanged, Quit
<1>6. CASE Retry \/ \E t \in TimerIds : Fire(t)
    BY <1>6 DEF Retry, Fire
<1> QED
    BY <1>1, <1>2, <1>3, <1>4, <1>5, <1>6 DEF Next, CallbackStep

\* A step after which no new timer is referred to.
LEMMA QuietTimers ==
    ASSUME TypeInv, frames' \in Seq(TimerIds), timers' \subseteq timers,
           InFrames' \subseteq InFrames \cup timers,
           update_timeout_id' \in {update_timeout_id, None},
           \/ events' = events
           \/ events < MaxEvents /\ events' = events + 1
    PROVE  Timers' /\ IdsUsed'
<1>1. events \in 0..MaxEvents
    BY DEF TypeInv, TypeOK
<1>2. events' \in 0..MaxEvents /\ events + 1 <= events' + 1
    BY <1>1, MaxEventsAssumption
<1>3. Timers'
    BY <1>2 DEF Timers, TypeInv, TypeOK
<1>4. IdsUsed'
  <2>1. PICK U \in SUBSET TimerIds :
           /\ Cardinality(U) <= events + 1
           /\ timers \subseteq U /\ InFrames \subseteq U
           /\ update_timeout_id \in U \cup {None}
      BY DEF TypeInv, IdsUsed
  <2>2. Cardinality(U) \in Nat
      BY TimerIdsAssumption, FS_Subset, FS_CardinalityType
  <2>3. Cardinality(U) <= events' + 1
      BY <1>1, <1>2, <2>1, <2>2
  <2>4. timers' \subseteq U /\ InFrames' \subseteq U /\ update_timeout_id' \in U \cup {None}
      BY <2>1
  <2> QED
      BY <2>3, <2>4 DEF IdsUsed
<1> QED
    BY <1>3, <1>4

LEMMA StartTimer ==
    ASSUME TypeInv, CanDo, StartUpdateTimer, UNCHANGED frames
    PROVE  Timers' /\ IdsUsed'
<1>1. events \in 0..MaxEvents /\ events < MaxEvents /\ events' = events + 1
    BY DEF CanDo, TypeInv, TypeOK
<1>2. PICK U \in SUBSET TimerIds :
         /\ Cardinality(U) <= events + 2
         /\ timers \subseteq U /\ InFrames \subseteq U
         /\ FreshId \in U
    BY <1>1, FreshIdFresh
<1>3. timers' \subseteq U /\ update_timeout_id' \in U /\ InFrames' = InFrames
    BY <1>2 DEF StartUpdateTimer, InFrames
<1>4. Timers'
    BY <1>1, <1>3, MaxEventsAssumption DEF Timers, TypeInv, TypeOK
<1>5. Cardinality(U) <= events' + 1
    BY <1>1, <1>2
<1> QED
    BY <1>2, <1>3, <1>4, <1>5 DEF IdsUsed

LEMMA TimersStep ==
    ASSUME TypeInv, [Next]_vars
    PROVE  Timers' /\ IdsUsed'
<1>a. frames \in Seq(TimerIds)
    BY DEF TypeInv, TypeOK
<1>b. ASSUME UNCHANGED <<frames, events>>, timers' \subseteq timers,
             update_timeout_id' \in {update_timeout_id, None}
      PROVE  Timers' /\ IdsUsed'
    BY <1>a, <1>b, QuietTimers DEF InFrames
<1> USE DEF guiVars, timerVars, simVars, sharedVars
<1>1. CASE UNCHANGED vars
    BY <1>1, <1>b DEF vars
<1>2. CASE SimStep
    BY <1>2, <1>b
    DEF SimStep, SimWhile, SimWait, SimClear, SimIfQuit, SimAcquire, SimRun, SimRelease
<1>3. CASE FinishUpdate
  <2>1. /\ timers' \subseteq timers /\ events' = events
        /\ update_timeout_id' \in {update_timeout_id, None}
        /\ frames' = SubSeq(frames, 1, Len(frames) - 1)
      BY <1>3 DEF FinishUpdate
  <2>2. \A i \in 1..Len(frames) - 1 : frames[i] \in InFrames
      BY <1>a DEF InFrames
  <2>3. InFrames \subseteq TimerIds
      BY <1>a DEF InFrames
  <2>4. frames' \in Seq(InFrames)
      BY <1>a, <2>1, <2>2, SubSeqProperties
  <2>5. frames' \in Seq(TimerIds) /\ InFrames' \subseteq InFrames
    <3>1. \A i \in DOMAIN frames' : frames'[i] \in InFrames
        BY <2>4
    <3>2. InFrames' \subseteq InFrames
        BY <3>1 DEF InFrames
    <3>3. frames' \in Seq(TimerIds)
        BY <1>a, <2>1, SubSeqProperties
    <3> QED
        BY <3>2, <3>3
  <2> QED
      BY <2>1, <2>5, QuietTimers
<1>4. CASE TryAcquire \/ TryFails \/ UpdateView \/ CallbackAcquires \/ CallbackReleases
           \/ UnlockedReturns \/ QuitGo \/ Join
    BY <1>4, <1>b
    DEF TryAcquire, TryFails, UpdateView, CallbackAcquires, CallbackReleases,
        UnlockedReturns, QuitGo, Join
<1>5. CASE OnPlayButtonToggled
  <2>1. CanDo /\ UNCHANGED frames
      BY <1>5 DEF OnPlayButtonToggled
  <2>2. CASE active
      BY <1>5, <1>a, <2>1, <2>2, QuietTimers DEF OnPlayButtonToggled, CanDo, InFrames
  <2>3. CASE ~active
      BY <1>5, <2>1, <2>3, StartTimer DEF OnPlayButtonToggled
  <2> QED
      BY <2>2, <2>3
<1>6. CASE SpeedChanged
    BY <1>6, StartTimer DEF SpeedChanged
<1>7. CASE NodeCallback \/ UnlockedCallback
    BY <1>7, <1>a, QuietTimers
    DEF NodeCallback, EnterCallback, UnlockedCallback, CanDo, InFrames
<1>8. CASE UpdateModel \/ Quit \/ Retry
    BY <1>8, <1>b DEF UpdateModel, EnterCallback, Quit, Retry
<1>9. ASSUME NEW t \in TimerIds, Fire(t)
      PROVE  Timers' /\ IdsUsed'
  <2>1. t \in timers /\ frames' = Append(frames, t)
        /\ UNCHANGED <<timers, update_timeout_id, events>>
      BY <1>9 DEF Fire
  <2>2. frames' \in Seq(TimerIds) /\ \A i \in DOMAIN frames' : frames'[i] \in InFrames \cup {t}
      BY <1>a, <2>1 DEF InFrames
  <2>3. InFrames' \subseteq InFrames \cup timers
      BY <2>1, <2>2 DEF InFrames
  <2> QED
      BY <2>1, <2>2, <2>3, QuietTimers
<1> QED
    BY <1>1, <1>2, <1>3, <1>4, <1>5, <1>6, <1>7, <1>8, <1>9 DEF Next, CallbackStep, UserStep

\* Type correctness of the visualizer: in particular a timer that is started
\* always gets an id of its own, however many frames still hold old ones.
THEOREM TypeCorrect == Spec => []TypeOK
<1>1. Init => TypeInv
  <2> SUFFICES ASSUME Init PROVE TypeInv
      OBVIOUS
  <2>1. Flags
      BY Zenon DEF Init, Flags
  <2>2. Modes
      BY DEF Init, Modes
  <2>3. Times
      BY MaxTimeAssumption DEF Init, Times
  <2>4. Timers /\ InFrames = {}
      BY MaxEventsAssumption DEF Init, Timers, InFrames
  <2>5. IdsUsed
    <3>1. Cardinality({update_timeout_id}) = 1
        BY FS_Singleton
    <3> QED
        BY <2>4, <3>1 DEF Init, IdsUsed
  <2> QED
      BY <2>1, <2>2, <2>3, <2>4, <2>5, TypeParts DEF TypeInv
<1>2. TypeInv /\ [Next]_vars => TypeInv'
  <2> SUFFICES ASSUME TypeInv, [Next]_vars PROVE TypeInv'
      OBVIOUS
  <2>1. Flags /\ Modes /\ Times
      BY TypeParts DEF TypeInv
  <2>2. Flags' /\ Modes' /\ Times' /\ Timers' /\ IdsUsed'
      BY <2>1, FlagsStep, ModesStep, TimesStep, TimersStep
  <2>3. TypeOK'
      BY <2>2, TypeParts, PTL
  <2> QED
      BY <2>2, <2>3 DEF TypeInv
<1>3. TypeInv => TypeOK
    BY DEF TypeInv
<1> QED
    BY <1>1, <1>2, <1>3, PTL DEF Spec
-----------------------------------------------------------------------------
(* Who is in the simulator.                                                *)

\* The two threads are in the simulator at the same time only while the GTK
\* thread is in one of the callbacks that do not take the lock
\* (OnlyUnlockedOverlap), however deep update_view_timeout, which tries the
\* lock from inside its own main loop, is nested.
THEOREM OverlapOnlyUnlocked == Spec => []OnlyUnlockedOverlap
<1>1. TypeOK /\ LockExact => OnlyUnlockedOverlap
    BY DEF TypeOK, LockExact, OnlyUnlockedOverlap, GuiInSimulator, SimInSimulator
<1> QED
    BY LockInit, LockStep, TypeCorrect, <1>1, PTL DEF Spec
=============================================================================
