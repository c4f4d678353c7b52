----------------------------- MODULE Visualizer -----------------------------
(***************************************************************************)
(* The threads of PyViz (visualizer/core.py).  The GTK thread shows the    *)
(* simulation and handles the user; SimulationThread runs the simulator up *)
(* to target_time each time the GTK thread sets the event go.  A lock      *)
(* guards the simulator.  When update_view_timeout finds the lock taken it *)
(* runs the GTK main loop in the middle of itself, so that every other     *)
(* callback, and update_view_timeout of another timer, can run inside it.  *)
(*                                                                         *)
(* Drawing, and what the callbacks read and write in the simulator, are    *)
(* left out: a callback is where it is, whether it is in the simulator and *)
(* whether it holds the lock.  Three callbacks enter the simulator and do  *)
(* not take the lock.                                                      *)
(***************************************************************************)
EXTENDS Integers, Sequences, FiniteSets

CONSTANTS MaxTime,   \* bound on the simulation time
          Periods,   \* values sample_period can have, one per speed
          MaxEvents, \* bound on what the user does
          TimerIds   \* ids GLib.timeout_add can return, enough for MaxEvents

ASSUME MaxTimeAssumption == MaxTime \in Nat
ASSUME PeriodsAssumption == Periods \subseteq Nat \ {0} /\ Periods # {}
ASSUME MaxEventsAssumption == MaxEvents \in Nat
ASSUME TimerIdsAssumption == /\ TimerIds \subseteq Nat \ {0}
                             /\ IsFiniteSet(TimerIds) /\ Cardinality(TimerIds) > MaxEvents

VARIABLES gui,           \* where the GTK thread is
          frames,        \* the timers whose update_view_timeout is under way, innermost last
          timers,        \* the timers GLib knows
          update_timeout_id,
          active,        \* play_button.get_active()
          sample_period,
          found,         \* the local variable pause_messages is not empty
          shown,         \* history: the time the view was last updated at
          events,        \* counts what the user has done
          sim,           \* where SimulationThread.run is
          lock, go, quit, target_time,
          pause_messages, \* simulation.pause_messages is not empty
          update_pending, \* update_model callbacks are waiting to be run
          now            \* Simulator::Now

timerVars == <<timers, update_timeout_id>>
guiVars == <<gui, frames, timerVars, active, sample_period, found, shown, events>>
simVars == <<sim, now>>
sharedVars == <<lock, go, quit, target_time, pause_messages, update_pending>>
vars == <<guiVars, simVars, sharedVars>>

None == 0 \* update_timeout_id when there is no timer

Smaller(a, b) == IF a < b THEN a ELSE b

\* create_gui starts a timer before anybody has pressed the play button.
Init ==
  /\ gui = "loop" /\ frames = <<>>
  /\ update_timeout_id \in TimerIds /\ timers = {update_timeout_id}
  /\ \A t \in TimerIds : update_timeout_id <= t
  /\ active = FALSE
  /\ sample_period \in Periods
  /\ found = FALSE /\ shown = 0 /\ events = 0
  /\ sim = "while" /\ now = 0
  /\ lock = "free" /\ go = FALSE /\ quit = FALSE /\ target_time = 0
  /\ pause_messages = FALSE /\ update_pending = FALSE

-----------------------------------------------------------------------------
(* SimulationThread.run.                                                   *)

SimWhile ==
  /\ sim = "while" /\ sim' = (IF quit THEN "dead" ELSE "wait")
  /\ UNCHANGED <<guiVars, now, sharedVars>>

SimWait ==
  /\ sim = "wait" /\ go /\ sim' = "clear"
  /\ UNCHANGED <<guiVars, now, sharedVars>>

SimClear ==
  /\ sim = "clear" /\ sim' = "ifquit" /\ go' = FALSE
  /\ UNCHANGED <<guiVars, now, lock, quit, target_time, pause_messages, update_pending>>

SimIfQuit ==
  /\ sim = "ifquit" /\ sim' = (IF quit THEN "dead" ELSE "acquire")
  /\ UNCHANGED <<guiVars, now, sharedVars>>

SimAcquire ==
  /\ sim = "acquire" /\ lock = "free"
  /\ sim' = "run" /\ lock' = "sim"
  /\ UNCHANGED <<guiVars, now, go, quit, target_time, pause_messages, update_pending>>

\* PyViz::SimulatorRunUntil: an event at target_time stops the simulator, and
\* nothing is run when that time has passed.
SimulatorRunUntil(time) == IF now >= time THEN now ELSE time

\* Mutant: the messages of this run replace those that nobody has seen yet.
MutantExtend(pending, new) == new

\* pause_messages.extend(GetPauseMessages()); a run forgets the messages of the last.
Extend(pending, new) == pending \/ new

\* A Pause message comes from an event, so from a run that runs something.
SimRun ==
  /\ sim = "run" /\ sim' = "release"
  /\ now' = SimulatorRunUntil(target_time)
  /\ \E message \in {FALSE, now < target_time} : pause_messages' = Extend(pause_messages, message)
  /\ update_pending' = TRUE
  /\ UNCHANGED <<guiVars, lock, go, quit, target_time>>

SimRelease ==
  /\ sim = "release" /\ sim' = "while" /\ lock' = "free"
  /\ UNCHANGED <<guiVars, now, go, quit, target_time, pause_messages, update_pending>>

SimStep == SimWhile \/ SimWait \/ SimClear \/ SimIfQuit \/ SimAcquire \/ SimRun \/ SimRelease

-----------------------------------------------------------------------------
(* The timer of the GTK thread.                                            *)

InFrames == {frames[i] : i \in DOMAIN frames}

\* Ids are not used again: a new one is one that nothing refers to.
FreshId == CHOOSE t \in TimerIds \ (timers \cup InFrames \cup {update_timeout_id}) :
             \A u \in TimerIds \ (timers \cup InFrames \cup {update_timeout_id}) : t <= u

\* Mutant: a timer is only started when none is on record.
MutantStartUpdateTimer ==
  IF update_timeout_id # None
  THEN UNCHANGED timerVars
  ELSE /\ timers' = timers \cup {FreshId}
       /\ update_timeout_id' = FreshId

\* GLib.source_remove of an id that is gone has no effect (but a warning).
StartUpdateTimer ==
  /\ timers' = (timers \ {update_timeout_id}) \cup {FreshId}
  /\ update_timeout_id' = FreshId

\* A timer expires.  GLib does not run a callback inside itself.
Fire(t) ==
  /\ gui = "loop" /\ t \in timers \ InFrames
  /\ gui' = "try" /\ frames' = Append(frames, t)
  /\ UNCHANGED <<timerVars, active, sample_period, found, shown, events, simVars, sharedVars>>

\* Mutant: the result of lock.acquire(False) is not looked at.
MutantCanAcquire == TRUE

CanAcquire == lock = "free"

TryAcquire ==
  /\ gui = "try" /\ CanAcquire
  /\ gui' = "view" /\ lock' = "gui"
  /\ UNCHANGED <<frames, timerVars, active, sample_period, found, shown, events, simVars,
                 go, quit, target_time, pause_messages, update_pending>>

\* The lock is taken: run the main loop until no event is pending, then try again.
TryFails ==
  /\ gui = "try" /\ ~CanAcquire
  /\ gui' = "loop"
  /\ UNCHANGED <<frames, timerVars, active, sample_period, found, shown, events, simVars, sharedVars>>

Retry ==
  /\ gui = "loop" /\ frames # <<>>
  /\ gui' = "try"
  /\ UNCHANGED <<frames, timerVars, active, sample_period, found, shown, events, simVars, sharedVars>>

\* Mutant: the target is moved on from the last target, not from the present.
MutantTarget == Smaller(target_time + sample_period, MaxTime)

Target == Smaller(now + sample_period, MaxTime)

UpdateView ==
  /\ gui = "view" /\ gui' = "tick"
  /\ found' = pause_messages /\ pause_messages' = FALSE
  /\ shown' = now
  /\ target_time' = Target
  /\ lock' = "free"
  /\ UNCHANGED <<frames, timerVars, active, sample_period, events, simVars, go, quit, update_pending>>

\* Where the GTK thread is when a callback of n frames returns.
ReturnTo(n) == IF n = 0 /\ quit THEN "left" ELSE "loop"

\* Mutant: the callback returns None, which removes its timer.
MutantFinishUpdate ==
  LET t == frames[Len(frames)]
      playing == active /\ ~found
      left == IF found /\ active THEN timers \ {update_timeout_id} ELSE timers
  IN /\ gui = "tick" /\ gui' = ReturnTo(Len(frames) - 1)
     /\ frames' = SubSeq(frames, 1, Len(frames) - 1)
     /\ active' = playing /\ found' = FALSE
     /\ timers' = left \ {t}
     /\ update_timeout_id' = IF playing THEN update_timeout_id ELSE None
     /\ go' = (go \/ playing)
     /\ UNCHANGED <<sample_period, shown, events, simVars,
                    lock, quit, target_time, pause_messages, update_pending>>

\* The rest of update_view_timeout.  A pause message releases the play button, whose
\* callback removes the timer on record; when paused the timer is forgotten and the
\* result removes the timer that called; otherwise the simulation may go on.
FinishUpdate ==
  LET t == frames[Len(frames)]
      playing == active /\ ~found
      left == IF found /\ active THEN timers \ {update_timeout_id} ELSE timers
  IN /\ gui = "tick" /\ gui' = ReturnTo(Len(frames) - 1)
     /\ frames' = SubSeq(frames, 1, Len(frames) - 1)
     /\ active' = playing /\ found' = FALSE
     /\ timers' = IF playing THEN left ELSE left \ {t}
     /\ update_timeout_id' = IF playing THEN update_timeout_id ELSE None
     /\ go' = (go \/ playing)
     /\ UNCHANGED <<sample_period, shown, events, simVars,
                    lock, quit, target_time, pause_messages, update_pending>>

-----------------------------------------------------------------------------
(* Callbacks that take the lock, and wait for it without a main loop.      *)

EnterCallback ==
  /\ gui = "loop" /\ gui' = "blocked"
  /\ UNCHANGED <<frames, timerVars, active, sample_period, found, shown, simVars,
                 lock, go, quit, target_time, pause_messages>>

\* The idle callbacks that the runs have added, as one.
UpdateModel ==
  /\ update_pending /\ update_pending' = FALSE
  /\ EnterCallback
  /\ events' = events

CanDo == events < MaxEvents /\ ~quit /\ events' = events + 1

\* The callbacks that take the lock: the user selects, moves or points at a node,
\* opens a window about it, or types into the IPython shell.
NodeCallback == CanDo /\ EnterCallback /\ update_pending' = update_pending

CallbackAcquires ==
  /\ gui = "blocked" /\ lock = "free"
  /\ gui' = "locked" /\ lock' = "gui"
  /\ UNCHANGED <<frames, timerVars, active, sample_period, found, shown, events, simVars,
                 go, quit, target_time, pause_messages, update_pending>>

CallbackReleases ==
  /\ gui = "locked" /\ gui' = "loop" /\ lock' = "free"
  /\ UNCHANGED <<frames, timerVars, active, sample_period, found, shown, events, simVars,
                 go, quit, target_time, pause_messages, update_pending>>

-----------------------------------------------------------------------------
(* Callbacks that enter the simulator without the lock, be it held or not. *)

\* autoscale_view, which a GLib timer calls and which asks every node for its
\* position, the menu of a node (the OLSR plug-in looks at the node) and the tooltip
\* of a Wi-Fi link (its plug-in looks at the stations).
UnlockedCallback ==
  /\ gui = "loop" /\ CanDo
  /\ gui' = "unlocked"
  /\ UNCHANGED <<frames, timerVars, active, sample_period, found, shown, simVars, sharedVars>>

UnlockedReturns ==
  /\ gui = "unlocked" /\ gui' = "loop"
  /\ UNCHANGED <<frames, timerVars, active, sample_period, found, shown, events, simVars, sharedVars>>

-----------------------------------------------------------------------------
(* The user plays, pauses, changes the speed and closes the window.        *)

\* Pausing removes the timer and leaves its id on record.
OnPlayButtonToggled ==
  /\ gui = "loop" /\ CanDo
  /\ active' = ~active
  /\ IF active
     THEN timers' = timers \ {update_timeout_id} /\ UNCHANGED update_timeout_id
     ELSE StartUpdateTimer
  /\ UNCHANGED <<gui, frames, sample_period, found, shown, simVars, sharedVars>>

\* The timer is started whether the simulation is playing or not.
SpeedChanged ==
  /\ gui = "loop" /\ CanDo
  /\ \E p \in Periods \ {sample_period} : sample_period' = p
  /\ StartUpdateTimer
  /\ UNCHANGED <<gui, frames, active, found, shown, simVars, sharedVars>>

Quit ==
  /\ gui = "loop" /\ ~quit
  /\ timers' = timers \ {update_timeout_id} /\ update_timeout_id' = None
  /\ quit' = TRUE /\ gui' = "quit"
  /\ UNCHANGED <<frames, active, sample_period, found, shown, events, simVars,
                 lock, go, target_time, pause_messages, update_pending>>

\* Mutant: the simulation thread is only woken up when the simulation is playing.
MutantQuitGo ==
  /\ gui = "quit" /\ gui' = "join" /\ go' = (go \/ active)
  /\ UNCHANGED <<frames, timerVars, active, sample_period, found, shown, events, simVars,
                 lock, quit, target_time, pause_messages, update_pending>>

QuitGo ==
  /\ gui = "quit" /\ gui' = "join" /\ go' = TRUE
  /\ UNCHANGED <<frames, timerVars, active, sample_period, found, shown, events, simVars,
                 lock, quit, target_time, pause_messages, update_pending>>

\* simulation.join, and Gtk.main_quit: the main loop is left once the callbacks return.
Join ==
  /\ gui = "join" /\ sim = "dead" /\ gui' = ReturnTo(Len(frames))
  /\ UNCHANGED <<frames, timerVars, active, sample_period, found, shown, events, simVars, sharedVars>>

\* The GTK thread inside a callback.
CallbackStep ==
  \/ TryAcquire \/ TryFails \/ UpdateView \/ FinishUpdate
  \/ CallbackAcquires \/ CallbackReleases \/ UnlockedReturns \/ QuitGo \/ Join

UserStep == NodeCallback \/ UnlockedCallback \/ OnPlayButtonToggled \/ SpeedChanged \/ Quit

Next ==
  \/ SimStep \/ CallbackStep \/ UserStep \/ UpdateModel \/ Retry
  \/ \E t \in TimerIds : Fire(t)

(***************************************************************************)
(* The threads run, a run of the simulator ends, and GTK runs the callback *)
(* of a timer that has expired.  Retry and SimAcquire are strong: timers   *)
(* are a sample period apart, so that again and again no event is pending, *)
(* and the lock is free for long enough to be taken.                       *)
(***************************************************************************)
Fairness ==
  /\ WF_vars(SimStep) /\ WF_vars(CallbackStep) /\ WF_vars(UpdateModel)
  /\ WF_vars(\E t \in TimerIds : Fire(t))
  /\ SF_vars(Retry) /\ SF_vars(SimAcquire)

Spec == Init /\ [][Next]_vars /\ Fairness

-----------------------------------------------------------------------------

\* Types of the variables.
TypeOK ==
  /\ gui \in {"loop", "try", "view", "tick", "blocked", "locked", "unlocked", "quit", "join",
              "left"}
  /\ frames \in Seq(TimerIds) /\ timers \subseteq TimerIds
  /\ update_timeout_id \in TimerIds \cup {None}
  /\ {active, found, go, quit, pause_messages, update_pending} \subseteq BOOLEAN
  /\ sample_period \in Periods
  /\ events \in 0..MaxEvents
  /\ sim \in {"while", "wait", "clear", "ifquit", "acquire", "run", "release", "dead"}
  /\ lock \in {"free", "gui", "sim"}
  /\ {now, shown, target_time} \subseteq 0..MaxTime

GuiInSimulator == gui \in {"view", "locked", "unlocked"}
SimInSimulator == sim \in {"run", "release"}

\* ns-3 is not thread safe (core.py:1489), but the lock keeps only those apart that
\* take it: both threads can be in the simulator at once, but only while the GTK
\* thread is in a callback that does not take it (autoscale_view, a node's menu, a
\* Wi-Fi link's tooltip).  The update of the view, which may be tried from inside a
\* main loop of its own, and all other callbacks exclude the simulation thread, and
\* the lock is never left taken by a thread that is not in the simulator.
OnlyUnlockedOverlap ==
  /\ GuiInSimulator /\ SimInSimulator => gui = "unlocked"
  /\ lock = "free" <=> ~SimInSimulator /\ (GuiInSimulator => gui = "unlocked")

\* The simulation is never ahead of what was shown by more than a sample period,
\* however late the simulation thread gets to run and however often go is set.
NotAheadOfView ==
  /\ shown <= now /\ (now <= target_time \/ now = shown)
  /\ \E p \in Periods : now <= shown + p

\* While the simulation is playing its timer is alive: pausing, playing and changing
\* the speed inside a waiting update_view_timeout never leave it without one.
PlayingHasTimer ==
  active /\ ~quit => update_timeout_id \in timers

\* Closing the window ends both threads: the simulation thread never waits for a go
\* that was cleared, and the GTK thread comes out of all its nested main loops.
QuitTerminates == quit ~> (gui = "left" /\ sim = "dead")

\* A message of Pause is not lost between the threads: it releases the play button.
PauseDelivered == pause_messages ~> (~active \/ quit)

\* A simulation that is left playing goes on.
TimeAdvances == <>[](active /\ ~quit) => <>(now = MaxTime)

=============================================================================
