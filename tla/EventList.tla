----------------------------- MODULE EventList -----------------------------
(***************************************************************************)
(* What a Scheduler promises and what its user must respect: a set of      *)
(* events from which the earliest is taken (RemoveNext) or any one is      *)
(* withdrawn (Remove).  MapScheduler, the default event list, is this set  *)
(* directly: a std::map ordered by key.  The other schedulers are shown to *)
(* implement this module, and so are the simulators, whose steps are the   *)
(* Insert, RemoveNext and Remove steps below.                              *)
(*                                                                         *)
(* The user's part of the contract is in Insert: an event is never         *)
(* inserted behind the last one that was removed, and no uid is pending    *)
(* twice.  CalendarScheduler depends on the first, all of them on the      *)
(* second.                                                                 *)
(***************************************************************************)
EXTENDS Scheduler

CONSTANTS MaxTs,  \* bound on time stamps
          MaxUid  \* bound on uids

ASSUME BoundsAssumption == MaxTs \in Nat /\ MaxUid \in Nat

VARIABLES m_list,  \* the pending events
          next     \* the event the last RemoveNext returned

vars == <<m_list, next>>

Keys == [ts : 0..MaxTs, uid : 1..MaxUid]

Init == /\ m_list = {}
        /\ next = NoEvent

Insert(ev) == /\ Less(next, ev)
              /\ \A e \in m_list : e.uid # ev.uid
              /\ m_list' = m_list \cup {ev}
              /\ UNCHANGED next

\* PeekNext returns this event without removing it.
PeekNext(ev) == IsEarliest(ev, m_list)

RemoveNext == \E ev \in m_list : /\ PeekNext(ev)
                                 /\ next' = ev
                                 /\ m_list' = m_list \ {ev}

Remove(ev) == /\ ev \in m_list
              /\ m_list' = m_list \ {ev}
              /\ UNCHANGED next

Next == \/ \E ev \in Keys : Insert(ev)
        \/ RemoveNext
        \/ \E ev \in m_list : Remove(ev)

Spec == Init /\ [][Next]_vars

-----------------------------------------------------------------------------
\* The event list and the last returned event are events of the domain, and
\* the event that was returned is no longer in the list.
TypeOK == /\ m_list \subseteq Keys
          /\ next \in Keys \cup {NoEvent}
          /\ next \notin m_list

\* No two pending events carry the same uid: MapScheduler::Insert asserts that
\* its key is new, and every Remove finds its event by uid alone.
UniqueUids == \A e, f \in m_list : e.uid = f.uid => e = f

\* Nothing pending is overdue: every pending event is after the one that was
\* handed out last.
NothingOverdue == \A e \in m_list : Less(next, e)

\* RemoveNext hands events out in strictly increasing key order, whatever was
\* inserted and withdrawn in between.
InOrder == [][next' # next => Less(next, next')]_next
=============================================================================
