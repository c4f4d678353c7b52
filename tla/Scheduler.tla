----------------------------- MODULE Scheduler -----------------------------
(***************************************************************************)
(* The vocabulary every event list shares (core/model/scheduler.h): event  *)
(* keys, their order and the earliest event of a set.  A key is the pair   *)
(* of a time stamp and a unique id; the execution context a key also       *)
(* carries plays no part in any comparison and is left out.                *)
(***************************************************************************)
EXTENDS Integers, FiniteSets

\* Scheduler::EventKey (with the EventImpl it is paired with in
\* Scheduler::Event, which uid stands for).
EventKey == [ts : Nat, uid : Nat]

\* uid 0 is the "invalid" event: what the simulator has run before any event.
NoEvent == [ts |-> 0, uid |-> 0]

\* operator < (EventKey, EventKey): by time stamp, and by uid within one.
Less(a, b) == a.ts < b.ts \/ (a.ts = b.ts /\ a.uid < b.uid)

\* Mutant: the earliest event by time stamp alone.
MutantIsEarliest(e, S) == e \in S /\ \A f \in S : e.ts <= f.ts

\* e is the event of S that precedes all the others.
IsEarliest(e, S) == e \in S /\ \A f \in S \ {e} : Less(e, f)
=============================================================================
