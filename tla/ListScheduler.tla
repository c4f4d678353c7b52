--------------------------- MODULE ListScheduler ---------------------------
(***************************************************************************)
(* ListScheduler: the event list as a std::list sorted by key.             *)
(***************************************************************************)
EXTENDS Scheduler, Sequences

Seqs == INSTANCE SequencesExt

CONSTANTS Delays,   \* the delays the simulator schedules events with
          MaxTs,    \* bound on time stamps
          MaxUid,   \* bound on the uids the simulator allocates
          MaxSize   \* bound on the events pending at a time

VARIABLES m_events,  \* the list
          m_uid,     \* the simulator's next uid
          next       \* the event the last RemoveNext returned

\* Mutant: before an element of the same time stamp.
MutantInsertSorted(l, ev) ==
    LET i == Seqs!SelectInSeq(l, LAMBDA e : ev.ts <= e.ts)
    IN  IF i = 0 THEN Append(l, ev) ELSE Seqs!InsertAt(l, i, ev)

\* Before the first element that ev precedes, or at the end.
InsertSorted(l, ev) ==
    LET i == Seqs!SelectInSeq(l, LAMBDA e : Less(ev, e))
    IN  IF i = 0 THEN Append(l, ev) ELSE Seqs!InsertAt(l, i, ev)

\* The list after the events evs were inserted in turn.
Filled(evs) ==
    LET after[i \in 0..Len(evs)] == IF i = 0 THEN <<>> ELSE InsertSorted(after[i - 1], evs[i])
    IN  after[Len(evs)]

Init == /\ m_events = <<>>
        /\ m_uid = 4
        /\ next = NoEvent

Insert(delay) ==
    /\ m_uid <= MaxUid /\ Len(m_events) < MaxSize /\ next.ts + delay <= MaxTs
    /\ m_events' = InsertSorted(m_events, [ts |-> next.ts + delay, uid |-> m_uid])
    /\ m_uid' = m_uid + 1
    /\ UNCHANGED next

RemoveNext ==
    /\ m_events # <<>>
    /\ next' = Head(m_events)
    /\ m_events' = Tail(m_events)
    /\ UNCHANGED m_uid

\* The first element with the uid of ev.
Remove(ev) ==
    /\ m_events' = Seqs!RemoveAt(m_events, Seqs!SelectInSeq(m_events, LAMBDA e : e.uid = ev.uid))
    /\ UNCHANGED <<m_uid, next>>

Contract == INSTANCE EventList WITH m_list <- Seqs!ToSet(m_events)
ImplementsEventList == Contract!Spec
=============================================================================
