----------------------------- MODULE Schedulers -----------------------------
(***************************************************************************)
(* All event lists side by side under the same calls, for a simulation may *)
(* use any of them and may change from one to another (SetScheduler): the  *)
(* map of EventList, the sorted list, the heap and the calendar.  Each     *)
(* keeps the event it returned last, so that a disagreement is seen.       *)
(***************************************************************************)
EXTENDS EventList, Sequences

CONSTANTS Delays,   \* the delays the simulator schedules events with
          MaxSize   \* bound on the events pending at a time

ASSUME CallsAssumption == Delays \subseteq Nat /\ MaxSize \in Nat

VARIABLES m_uid,                         \* the simulator's next uid
          m_events, listNext,            \* of ListScheduler
          m_heap, heapNext,              \* of HeapScheduler
          cal, m_reverse, m_qSize, calNext  \* of CalendarScheduler

allVars == <<vars, m_uid, m_events, listNext, m_heap, heapNext, cal, m_reverse, m_qSize, calNext>>

List == INSTANCE ListScheduler WITH next <- listNext
Heap == INSTANCE HeapScheduler WITH next <- heapNext
Calendar == INSTANCE CalendarScheduler WITH next <- calNext
Seqs == INSTANCE SequencesExt

SchedulersInit == /\ Init
                  /\ List!Init
                  /\ Heap!Init
                  /\ Calendar!Init

InsertAll(delay) ==
    /\ Insert([ts |-> next.ts + delay, uid |-> m_uid])
    /\ List!Insert(delay)
    /\ Heap!Insert(delay)
    /\ Calendar!Insert(delay)

RemoveNextAll == /\ RemoveNext
                 /\ List!RemoveNext
                 /\ Heap!RemoveNext
                 /\ Calendar!RemoveNext

RemoveAll(ev) ==
    /\ Remove(ev)
    /\ List!Remove(ev)
    /\ \E i \in DOMAIN m_heap : m_heap[i].uid = ev.uid /\ Heap!Remove(i)
    /\ LET b == Calendar!Hash(cal, ev.ts)
       IN  \E i \in DOMAIN cal.buckets[b] :
              cal.buckets[b][i].uid = ev.uid /\ Calendar!Remove(b, i)

\* SetScheduler drains one scheduler into another: here the list into the
\* heap, the heap into the calendar and the calendar into the list.
SetScheduler ==
    /\ m_heap' = Heap!Filled(m_events)
    /\ cal' = Calendar!Filled(Heap!Drained(m_heap))
    /\ m_events' = List!Filled(Calendar!Drained(cal, m_qSize))
    /\ UNCHANGED <<vars, m_uid, listNext, heapNext, m_reverse, m_qSize, calNext>>

SchedulersNext == \/ \E delay \in Delays : InsertAll(delay)
                  \/ RemoveNextAll
                  \/ \E ev \in m_list : RemoveAll(ev)
                  \/ SetScheduler

SchedulersSpec == SchedulersInit /\ [][SchedulersNext]_allVars

-----------------------------------------------------------------------------
\* What the algorithms of heap and calendar rely on, through all insertions, removals,
\* resizes and changes of scheduler: no event of the heap precedes its parent; every
\* event of the calendar is in the bucket of its time stamp, and the buckets are sorted;
\* the scan of RemoveNext starts at the interval of an event nothing is pending before.
StructuresOrdered == Heap!HeapOrder /\ Calendar!BucketsOrdered /\ Calendar!Window

\* A simulation runs the same events in the same order whichever scheduler it
\* uses: all of them hold the same events and have returned the same one.
SchedulersAgree == /\ listNext = next /\ heapNext = next /\ calNext = next
                   /\ Seqs!ToSet(m_events) = m_list
                   /\ Seqs!ToSet(m_heap) = m_list
                   /\ Calendar!Content(cal) = m_list

\* Every scheduler keeps the contract: RemoveNext takes the earliest event.
ImplementEventList == /\ List!ImplementsEventList
                      /\ Heap!ImplementsEventList
                      /\ Calendar!ImplementsEventList
=============================================================================
