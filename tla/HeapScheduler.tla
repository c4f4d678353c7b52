--------------------------- MODULE HeapScheduler ---------------------------
(***************************************************************************)
(* HeapScheduler: the event list as a binary heap in a std::vector.  The   *)
(* vector's unused slot 0 is left out, so that the sequence m_heap has the *)
(* code's indices: the root is 1, the children of i are 2i and 2i+1.       *)
(***************************************************************************)
EXTENDS Scheduler, Sequences

Seqs == INSTANCE SequencesExt

CONSTANTS Delays,   \* the delays the simulator schedules events with
          MaxTs,    \* bound on time stamps
          MaxUid,   \* bound on the uids the simulator allocates
          MaxSize   \* bound on the events pending at a time

VARIABLES m_heap,   \* the heap, as a sequence of events
          m_uid,    \* the simulator's next uid
          next      \* the event the last RemoveNext returned

vars == <<m_heap, m_uid, next>>

Parent(id) == id \div 2
LeftChild(id) == id * 2
RightChild(id) == id * 2 + 1
Root == 1
Last(h) == Len(h)
IsBottom(h, id) == id > Len(h)

\* Mutant: TopDown only follows left children.
MutantSmallest(h, a, b) == a

Exch(h, a, b) == [h EXCEPT ![a] = h[b], ![b] = h[a]]
IsLessStrictly(h, a, b) == Less(h[a], h[b])
Smallest(h, a, b) == IF IsLessStrictly(h, a, b) THEN a ELSE b

\* An iteration of the loop of BottomUp, on the heap and the index it has come to.
Climb(at) ==
    LET h == at.heap
        p == Parent(at.index)
    IN  IF at.index = Root \/ ~IsLessStrictly(h, at.index, p)
        THEN at
        ELSE [heap |-> Exch(h, at.index, p), index |-> p]

\* The loop ends after at most as many iterations as there are elements.
BottomUp(h, start) ==
    LET after[i \in 0..Len(h)] ==
            IF i = 0 THEN [heap |-> h, index |-> start] ELSE Climb(after[i - 1])
    IN  after[Len(h)].heap

\* The child TopDown compares with: the smaller one, or a lone left child.
Child(h, id) == IF IsBottom(h, RightChild(id))
                THEN LeftChild(id)
                ELSE Smallest(h, LeftChild(id), RightChild(id))

\* An iteration of the loop of TopDown, or what follows it for a lone child.
Descend(at) ==
    LET h == at.heap
        c == Child(h, at.index)
    IN  IF IsBottom(h, LeftChild(at.index)) \/ IsLessStrictly(h, at.index, c)
        THEN at
        ELSE [heap |-> Exch(h, at.index, c), index |-> c]

TopDown(h, start) ==
    LET after[i \in 0..Len(h)] ==
            IF i = 0 THEN [heap |-> h, index |-> start] ELSE Descend(after[i - 1])
    IN  after[Len(h)].heap

\* push_back (ev), BottomUp ().
Push(h, ev) == BottomUp(Append(h, ev), Len(h) + 1)

IsEmpty == Len(m_heap) = 0

PeekNext == m_heap[Root]

\* Exch (i, Last ()), pop_back, TopDown (i).
Extract(h, i) == TopDown(Seqs!Front(Exch(h, i, Last(h))), i)

\* What RemoveNext returns until the heap is empty.
Drained(h) ==
    LET after[i \in 0..Len(h)] == IF i = 0 THEN h ELSE Extract(after[i - 1], Root)
    IN  [i \in 1..Len(h) |-> after[i - 1][Root]]

\* The heap after the events evs were inserted in turn.
Filled(evs) ==
    LET after[i \in 0..Len(evs)] == IF i = 0 THEN <<>> ELSE Push(after[i - 1], evs[i])
    IN  after[Len(evs)]

-----------------------------------------------------------------------------
Init == /\ m_heap = <<>>
        /\ m_uid = 4
        /\ next = NoEvent

\* The simulator schedules an event with the given delay.
Insert(delay) ==
    /\ m_uid <= MaxUid /\ Len(m_heap) < MaxSize /\ next.ts + delay <= MaxTs
    /\ LET ev == [ts |-> next.ts + delay, uid |-> m_uid]
       IN  m_heap' = Push(m_heap, ev)
    /\ m_uid' = m_uid + 1
    /\ UNCHANGED next

RemoveNext ==
    /\ ~IsEmpty
    /\ next' = PeekNext
    /\ m_heap' = Extract(m_heap, Root)
    /\ UNCHANGED m_uid

\* The scan stops at the event with the uid to remove.
Remove(i) ==
    /\ m_heap' = Extract(m_heap, i)
    /\ UNCHANGED <<m_uid, next>>

Next == \/ \E delay \in Delays : Insert(delay)
        \/ RemoveNext
        \/ \E i \in DOMAIN m_heap : Remove(i)

Spec == Init /\ [][Next]_vars

-----------------------------------------------------------------------------
\* The heap is a sequence of distinct events with allocated uids: exchanges
\* neither duplicate nor lose an event.
TypeOK == /\ m_heap \in Seq(EventKey) /\ Len(m_heap) <= MaxSize
          /\ Seqs!IsInjective(m_heap)
          /\ \A e \in Seqs!ToSet(m_heap) : e.uid < m_uid
          /\ m_uid \in 4..MaxUid + 1
          /\ next \in EventKey

\* No event precedes its parent, the order BottomUp and TopDown restore after
\* a push at the end and an exchange with the last element.
HeapOrder == \A i \in DOMAIN m_heap \ {Root} :
                ~Less(m_heap[i], m_heap[Parent(i)])

\* What a scheduler promises: RemoveNext takes the earliest pending event.
Contract == INSTANCE EventList WITH m_list <- Seqs!ToSet(m_heap)
ImplementsEventList == Contract!Spec

\* The events are handed out in key order: what scheduler.h says of
\* RemoveNext ("Remove the earliest event from the event list").
RemovesEarliest == [][next' # next => IsEarliest(next', Seqs!ToSet(m_heap))]_vars
=============================================================================
