------------------------- MODULE CalendarScheduler -------------------------
(***************************************************************************)
(* CalendarScheduler: the event list as a calendar queue.  Time is cut     *)
(* into intervals of m_width, and interval i goes to bucket i % m_nBuckets *)
(* (a day of the year); a bucket is kept sorted.  RemoveNext looks through *)
(* one year from the day of the last event it removed, and then for the    *)
(* earliest event of all.  The number of buckets follows the number of     *)
(* events, and the width is estimated from the first events whenever it    *)
(* changes.  The state of the calendar is one record, for a resize works   *)
(* on a calendar that it restores afterwards.                              *)
(***************************************************************************)
EXTENDS Scheduler, Sequences

Seqs == INSTANCE SequencesExt
Sets == INSTANCE FiniteSetsExt

CONSTANTS Delays,   \* the delays the simulator schedules events with
          MaxTs,    \* bound on time stamps
          MaxUid,   \* bound on the uids the simulator allocates
          MaxSize   \* bound on the events pending at a time

VARIABLES cal,        \* m_buckets, m_nBuckets, m_width, m_lastBucket,
                      \* m_lastPrio and m_bucketTop
          m_reverse,  \* the Reverse attribute: buckets in reverse order
          m_qSize,
          m_uid,      \* the simulator's next uid
          next        \* the event the last RemoveNext returned

\* SetReverse: the end of a bucket the next event is at, the order of its
\* elements, and how the next event is taken off.
NextEvent(bucket) == IF m_reverse THEN Seqs!Last(bucket) ELSE Head(bucket)
\* Mutant of Order: by time stamp alone, a new event before its equals.
MutantOrder(a, b) == IF m_reverse THEN b.ts <= a.ts ELSE a.ts <= b.ts
Order(a, b) == IF m_reverse THEN Less(b, a) ELSE Less(a, b)
Pop(bucket) == IF m_reverse THEN Seqs!Front(bucket) ELSE Tail(bucket)

Hash(c, ts) == (ts \div c.width) % c.nBuckets

\* Init: an empty calendar whose current interval is that of startPrio.
NewCalendar(nBuckets, width, startPrio) ==
    LET c == [nBuckets |-> nBuckets, width |-> width]
    IN  [buckets    |-> [b \in 0..nBuckets - 1 |-> <<>>],
         nBuckets   |-> nBuckets,
         width      |-> width,
         lastPrio   |-> startPrio,
         lastBucket |-> Hash(c, startPrio),
         bucketTop  |-> (startPrio \div width + 1) * width]

\* Mutant: an event is always appended to its bucket.
MutantDoInsert(c, ev) == [c EXCEPT !.buckets[Hash(c, ev.ts)] = Append(@, ev)]

\* Before the first element that ev precedes, or at the end.
DoInsert(c, ev) ==
    LET b == Hash(c, ev.ts)
        i == Seqs!SelectInSeq(c.buckets[b], LAMBDA e : Order(ev, e))
    IN  [c EXCEPT !.buckets[b] =
            IF i = 0 THEN Append(@, ev) ELSE Seqs!InsertAt(@, i, ev)]

\* The events evs inserted in turn.
InsertEach(c, evs) ==
    LET after[i \in 0..Len(evs)] == IF i = 0 THEN c ELSE DoInsert(after[i - 1], evs[i])
    IN  after[Len(evs)]

-----------------------------------------------------------------------------
(* The scan: step k looks at the k-th bucket from m_lastBucket on, whose   *)
(* interval ends at m_bucketTop + k * m_width.                             *)

BucketAt(c, k) == (c.lastBucket + k) % c.nBuckets
BucketTop(c, k) == c.bucketTop + k * c.width

\* The steps at which the scan would stop.
Hits(c) == {k \in 0..c.nBuckets - 1 :
               LET bucket == c.buckets[BucketAt(c, k)]
               IN  bucket # <<>> /\ NextEvent(bucket).ts < BucketTop(c, k)}

\* The first events of the buckets.
Candidates(c) == {NextEvent(c.buckets[b]) : b \in {i \in DOMAIN c.buckets : c.buckets[i] # <<>>}}

MinCandidate(c) == CHOOSE e \in Candidates(c) : IsEarliest(e, Candidates(c))

PeekNext(c) == IF Hits(c) # {}
               THEN NextEvent(c.buckets[BucketAt(c, Sets!Min(Hits(c)))])
               ELSE MinCandidate(c)

\* The calendar after DoRemoveNext, which returns PeekNext(c).
DoRemoveNext(c) ==
    LET ev == PeekNext(c)
        k  == Sets!Min(Hits(c))
        b  == BucketAt(c, k)
        m  == Hash(c, ev.ts)
    IN  IF Hits(c) # {}
        THEN [c EXCEPT !.lastBucket = b, !.lastPrio = ev.ts,
                       !.bucketTop = BucketTop(c, k), !.buckets[b] = Pop(@)]
        ELSE [c EXCEPT !.lastBucket = m, !.lastPrio = ev.ts,
                       !.bucketTop = (ev.ts \div c.width + 1) * c.width,
                       !.buckets[m] = Pop(@)]

-----------------------------------------------------------------------------
(* Resizing.                                                               *)

NSamples(qSize) == Sets!Min({25, IF qSize <= 5 THEN qSize ELSE 5 + qSize \div 10})

\* The calendars after 0, 1, ... samples were taken off c.
Sampling(c, n) ==
    LET after[i \in 0..n] == IF i = 0 THEN c ELSE DoRemoveNext(after[i - 1])
    IN  after

\* Mutant: the samples put back, the position left at the last sample.
MutantPutBack(c, n) ==
    LET after   == Sampling(c, n)
        samples == [i \in 1..n |-> PeekNext(after[i - 1])]
    IN  InsertEach(after[n], samples)

\* The samples put back, and the position restored.
PutBack(c, n) ==
    LET after   == Sampling(c, n)
        samples == [i \in 1..n |-> PeekNext(after[i - 1])]
        full    == InsertEach(after[n], samples)
    IN  [full EXCEPT !.lastBucket = c.lastBucket, !.bucketTop = c.bucketTop,
                     !.lastPrio = c.lastPrio]

\* The sum of the values of f, a function on 1..n.
Sum(f, n) ==
    LET sum[i \in 0..n] == IF i = 0 THEN 0 ELSE sum[i - 1] + f[i]
    IN  sum[n]

\* Three times the sum of those separations of consecutive samples that are
\* not more than twice their average.
CalculateNewWidth(c, qSize) ==
    LET n        == NSamples(qSize)
        after    == Sampling(c, n)
        ts       == [i \in 1..n |-> PeekNext(after[i - 1]).ts]
        diff     == [i \in 1..n - 1 |-> ts[i + 1] - ts[i]]
        twiceAvg == (Sum(diff, n - 1) \div (n - 1)) * 2
        small    == [i \in 1..n - 1 |-> IF diff[i] <= twiceAvg THEN diff[i] ELSE 0]
    IN  IF qSize < 2 THEN 1 ELSE Sets!Max({1, 3 * Sum(small, n - 1)})

\* All events of the old buckets inserted into a new calendar.
DoResize(c, newSize, newWidth) ==
    LET after[b \in 0..c.nBuckets] ==
            IF b = 0 THEN NewCalendar(newSize, newWidth, c.lastPrio)
            ELSE InsertEach(after[b - 1], c.buckets[b - 1])
    IN  after[c.nBuckets]

Resize(c, qSize, newSize) ==
    LET width == CalculateNewWidth(c, qSize)
        kept  == IF qSize < 2 THEN c ELSE PutBack(c, NSamples(qSize))
    IN  DoResize(kept, newSize, width)

ResizeUp(c, qSize) ==
    IF qSize > c.nBuckets * 2 /\ c.nBuckets < 32768
    THEN Resize(c, qSize, c.nBuckets * 2)
    ELSE c

ResizeDown(c, qSize) ==
    IF qSize < c.nBuckets \div 2
    THEN Resize(c, qSize, c.nBuckets \div 2)
    ELSE c

-----------------------------------------------------------------------------
\* What RemoveNext returns until the calendar with qSize events is empty.
Drained(c, qSize) ==
    LET after[i \in 0..qSize] ==
            IF i = 0 THEN c ELSE ResizeDown(DoRemoveNext(after[i - 1]), qSize - i)
    IN  [i \in 1..qSize |-> PeekNext(after[i - 1])]

\* A new calendar into which the events evs were inserted in turn.
Filled(evs) ==
    LET after[i \in 0..Len(evs)] ==
            IF i = 0 THEN NewCalendar(2, 1, 0)
            ELSE ResizeUp(DoInsert(after[i - 1], evs[i]), i)
    IN  after[Len(evs)]

Init == /\ cal = NewCalendar(2, 1, 0)
        /\ m_reverse \in BOOLEAN
        /\ m_qSize = 0
        /\ m_uid = 4
        /\ next = NoEvent

Insert(delay) ==
    /\ m_uid <= MaxUid /\ m_qSize < MaxSize /\ next.ts + delay <= MaxTs
    /\ LET ev == [ts |-> next.ts + delay, uid |-> m_uid]
       IN  cal' = ResizeUp(DoInsert(cal, ev), m_qSize + 1)
    /\ m_qSize' = m_qSize + 1
    /\ m_uid' = m_uid + 1
    /\ UNCHANGED <<m_reverse, next>>

RemoveNext ==
    /\ m_qSize # 0
    /\ next' = PeekNext(cal)
    /\ cal' = ResizeDown(DoRemoveNext(cal), m_qSize - 1)
    /\ m_qSize' = m_qSize - 1
    /\ UNCHANGED <<m_reverse, m_uid>>

\* The event is the i-th of the bucket of its time stamp.
Remove(b, i) ==
    /\ cal' = ResizeDown([cal EXCEPT !.buckets[b] = Seqs!RemoveAt(@, i)], m_qSize - 1)
    /\ m_qSize' = m_qSize - 1
    /\ UNCHANGED <<m_reverse, m_uid, next>>

-----------------------------------------------------------------------------
Content(c) == UNION {Seqs!ToSet(c.buckets[b]) : b \in DOMAIN c.buckets}

\* The shape of the calendar: one sequence of events per bucket, a positive
\* number of buckets and a positive width (both are divisors), and m_qSize
\* the number of events in the buckets.
TypeOK == /\ cal.nBuckets > 0 /\ cal.width > 0
          /\ cal.buckets \in [0..cal.nBuckets - 1 -> Seq(EventKey)]
          /\ m_qSize = Cardinality(Content(cal))
          /\ m_uid \in 4..MaxUid + 1 /\ next \in EventKey

\* Every event is in the bucket of its time stamp, where Remove looks for it,
\* and the buckets are sorted, through all resizes.
BucketsOrdered ==
    \A b \in DOMAIN cal.buckets :
        /\ \A i \in DOMAIN cal.buckets[b] : Hash(cal, cal.buckets[b][i].ts) = b
        /\ \A i, j \in DOMAIN cal.buckets[b] :
              i < j => Order(cal.buckets[b][i], cal.buckets[b][j])

\* The position of the calendar is the interval of m_lastPrio, which is not
\* ahead of the last removed event (a new calendar starts at zero), and nothing
\* is pending before it: otherwise a scan of one year would pass over an event
\* of an earlier year, or take one of a later.
Window == /\ cal.lastPrio <= next.ts
          /\ cal.lastBucket = Hash(cal, cal.lastPrio)
          /\ cal.bucketTop = (cal.lastPrio \div cal.width + 1) * cal.width
          /\ \A e \in Content(cal) : e.ts >= cal.lastPrio

\* What a scheduler promises: RemoveNext takes the earliest pending event.
Contract == INSTANCE EventList WITH m_list <- Content(cal)
ImplementsEventList == Contract!Spec
=============================================================================
