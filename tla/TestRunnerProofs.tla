-------------------------- MODULE TestRunnerProofs --------------------------
(***************************************************************************)
(* test.py, for every number of jobs and of worker threads, with Control-C *)
(* at any moment and with children that cannot be started or print what    *)
(* does not decode.                                                        *)
(***************************************************************************)
EXTENDS TestRunner, FiniteSetTheorems, SequenceTheorems, TLAPS

-----------------------------------------------------------------------------
(* Type correctness.                                                       *)

MainTypes ==
  /\ main \in {"suites", "examples", "pyexamples", "breaks", "collect", "returned", "raised"}
  /\ jobs \in 0..MaxJobs /\ collected \in 0..jobs
  /\ passed_tests \in 0..collected /\ skipped_tests \in 0..collected
  /\ returned \in {NotRun, 0, 1}

FieldTypes ==
  /\ kind \in [Jobs -> Kinds]
  /\ is_skip \in [Jobs -> BOOLEAN] /\ is_break \in [Jobs -> BOOLEAN]
  /\ returncode \in [Jobs -> Codes] /\ exit_code \in [Jobs -> Codes \cup {NotRun}]
  /\ tmp_file \in [Jobs -> {"absent", "partial", "complete"}]
  /\ thread_exit \in BOOLEAN

QueueTypes ==
  /\ input_queue \in Seq(Jobs \cup {Break}) /\ output_queue \in Seq(Jobs)
  /\ worker \in [Workers -> {"get", "check", "communicate", "returned", "raised"}]
  /\ held \in [Workers -> Jobs \cup {Break}]
  /\ \A w \in Workers : held[w] = Break <=> worker[w] \in {"get", "returned"}

LEMMA TypeParts == TypeOK <=> MainTypes /\ FieldTypes /\ QueueTypes
BY DEF TypeOK, MainTypes, FieldTypes, QueueTypes

\* The breaks are a sequence, one per worker.
LEMMA BreaksSeq ==
    LET breaks == [i \in 1..Cardinality(Workers) |-> Break]
    IN  /\ Cardinality(Workers) \in Nat
        /\ breaks \in Seq({Break})
        /\ Len(breaks) = Cardinality(Workers)
<1>1. Cardinality(Workers) \in Nat
    BY WorkersAssumption, FS_CardinalityType
<1> QED
    BY <1>1, IsASeq

LEMMA TypeInit == Init => TypeOK
<1> SUFFICES ASSUME Init PROVE MainTypes /\ FieldTypes /\ QueueTypes
    BY TypeParts
<1>1. MainTypes
    BY MaxJobsAssumption DEF Init, MainTypes
<1>2. FieldTypes
  <2>1. thread_exit \in BOOLEAN /\ is_skip \in [Jobs -> BOOLEAN] /\ is_break \in [Jobs -> BOOLEAN]
      BY Zenon DEF Init
  <2>2. returncode \in [Jobs -> Codes] /\ exit_code \in [Jobs -> Codes \cup {NotRun}]
      BY DEF Init, Codes, Other, NotRun
  <2>3. kind \in [Jobs -> Kinds] /\ tmp_file \in [Jobs -> {"absent", "partial", "complete"}]
      BY DEF Init, Kinds
  <2> QED
      BY <2>1, <2>2, <2>3 DEF FieldTypes
<1>3. QueueTypes
    BY DEF Init, QueueTypes
<1> QED
    BY <1>1, <1>2, <1>3

LEMMA MainTypesStep ==
    ASSUME TypeOK, [Next]_vars
    PROVE  MainTypes'
<1> USE MaxJobsAssumption DEF TypeOK, MainTypes, mainVars, workerVars
<1>1. CASE UNCHANGED vars \/ sigint_hook
    BY <1>1 DEF vars, sigint_hook
<1>2. CASE DispatchSuite \/ DispatchExample \/ DispatchPyexample
    BY <1>2 DEF DispatchSuite, DispatchExample, DispatchPyexample, Dispatch
<1>3. CASE SuitesDone \/ ExamplesDone \/ PyexamplesDone \/ ConditionRaises \/ DispatchBreaks
    BY <1>3 DEF SuitesDone, ExamplesDone, PyexamplesDone, ConditionRaises, Goto, DispatchBreaks
<1>4. CASE CollectBreak
    BY <1>4 DEF CollectBreak
<1>5. CASE CollectResult
  <2>1. PICK c \in {0, 1}, d \in {0, 1} : /\ passed_tests' = passed_tests + c
                                         /\ skipped_tests' = skipped_tests + d
      BY <1>5 DEF CollectResult, Count
  <2> QED
      BY <1>5, <2>1 DEF CollectResult
<1>6. CASE JoinAndReturn
    BY <1>6 DEF JoinAndReturn
<1>7. ASSUME NEW w \in Workers, WorkerStep(w)
      PROVE  MainTypes'
    BY <1>7 DEF WorkerStep, Get, ThrowBack, Skip, Launch, PopenRaises, Communicate
<1> QED
    BY <1>1, <1>2, <1>3, <1>4, <1>5, <1>6, <1>7 DEF Next, MainStep

LEMMA FieldTypesStep ==
    ASSUME TypeOK, [Next]_vars
    PROVE  FieldTypes'
<1> USE DEF TypeOK, FieldTypes, mainVars, workerVars
<1>1. CASE UNCHANGED vars
    BY <1>1 DEF vars
<1>2. CASE sigint_hook
  <2>1. thread_exit' \in BOOLEAN
      BY <1>2, Zenon DEF sigint_hook
  <2> QED
      BY <1>2, <2>1 DEF sigint_hook
<1>3. CASE DispatchSuite \/ DispatchExample \/ DispatchPyexample
  <2>1. PICK k \in Kinds, skip \in BOOLEAN : Dispatch(k, skip)
      BY <1>3 DEF DispatchSuite, DispatchExample, DispatchPyexample, Kinds
  <2>2. is_skip' \in [Jobs -> BOOLEAN]
      BY <2>1, Zenon DEF Dispatch
  <2> QED
      BY <2>1, <2>2 DEF Dispatch
<1>4. CASE SuitesDone \/ ExamplesDone \/ PyexamplesDone \/ ConditionRaises \/ DispatchBreaks
    BY <1>4 DEF SuitesDone, ExamplesDone, PyexamplesDone, ConditionRaises, Goto, DispatchBreaks
<1>5. CASE CollectBreak \/ CollectResult \/ JoinAndReturn
    BY <1>5 DEF CollectBreak, CollectResult, JoinAndReturn
<1>6. ASSUME NEW w \in Workers, Get(w) \/ ThrowBack(w) \/ Skip(w) \/ Launch(w) \/ PopenRaises(w)
      PROVE  FieldTypes'
    BY <1>6 DEF Get, ThrowBack, Skip, Launch, PopenRaises
<1>7. ASSUME NEW w \in Workers, Communicate(w)
      PROVE  FieldTypes'
  <2>1. PICK code \in Codes, decodes \in {TRUE, ~BadOutput} :
           /\ exit_code' = [exit_code EXCEPT ![held[w]] = code]
           /\ returncode' = [returncode EXCEPT ![held[w]] = Retval(code, decodes)]
           /\ IF kind[held[w]] = "suite"
              THEN \E f \in FilesAfter(code) : tmp_file' = [tmp_file EXCEPT ![held[w]] = f]
              ELSE UNCHANGED tmp_file
      BY <1>7, ZenonT(60) DEF Communicate
  <2>2. Retval(code, decodes) \in Codes
      BY DEF Retval, Codes, Other
  <2>3. tmp_file' \in [Jobs -> {"absent", "partial", "complete"}]
      BY <2>1 DEF FilesAfter
  <2> QED
      BY <1>7, <2>1, <2>2, <2>3 DEF Communicate
<1> QED
    BY <1>1, <1>2, <1>3, <1>4, <1>5, <1>6, <1>7 DEF Next, MainStep, WorkerStep

LEMMA QueueTypesStep ==
    ASSUME TypeOK, [Next]_vars
    PROVE  QueueTypes'
<1> USE DEF TypeOK, QueueTypes, mainVars, workerVars
<1>0. Break \notin Jobs
    BY DEF Break, Jobs
<1>1. CASE UNCHANGED vars \/ sigint_hook
    BY <1>1 DEF vars, sigint_hook
<1>2. CASE DispatchSuite \/ DispatchExample \/ DispatchPyexample
  <2>1. /\ input_queue' = Append(input_queue, jobs + 1) /\ jobs < MaxJobs
        /\ UNCHANGED <<output_queue, worker, held>>
      BY <1>2 DEF DispatchSuite, DispatchExample, DispatchPyexample, Dispatch
  <2>2. jobs + 1 \in Jobs
      BY <2>1, MaxJobsAssumption DEF Jobs
  <2> QED
      BY <2>1, <2>2
<1>3. CASE SuitesDone \/ ExamplesDone \/ PyexamplesDone \/ ConditionRaises
    BY <1>3 DEF SuitesDone, ExamplesDone, PyexamplesDone, ConditionRaises, Goto
<1>4. CASE DispatchBreaks
  <2>1. [i \in 1..Cardinality(Workers) |-> Break] \in Seq(Jobs \cup {Break})
      BY BreaksSeq
  <2> QED
      BY <1>4, <2>1, ConcatProperties DEF DispatchBreaks
<1>5. CASE CollectBreak \/ CollectResult
  <2>1. /\ output_queue # <<>> /\ output_queue' = Tail(output_queue)
        /\ UNCHANGED <<input_queue, worker, held>>
      BY <1>5 DEF CollectBreak, CollectResult
  <2>2. output_queue' \in Seq(Jobs)
      BY <2>1
  <2> QED
      BY <2>1, <2>2
<1>6. CASE JoinAndReturn
    BY <1>6 DEF JoinAndReturn
<1>7. ASSUME NEW w \in Workers, Get(w)
      PROVE  QueueTypes'
  <2>1. /\ input_queue # <<>> /\ input_queue' = Tail(input_queue) /\ worker[w] = "get"
        /\ output_queue' = output_queue
      BY <1>7 DEF Get
  <2>2. Head(input_queue) \in Jobs \cup {Break} /\ input_queue' \in Seq(Jobs \cup {Break})
      BY <2>1
  <2>3. CASE Head(input_queue) = Break
      BY <1>7, <2>1, <2>2, <2>3 DEF Get
  <2>4. CASE Head(input_queue) # Break
      BY <1>7, <2>1, <2>2, <2>4 DEF Get
  <2> QED
      BY <2>3, <2>4
<1>8. ASSUME NEW w \in Workers, ThrowBack(w) \/ Skip(w) \/ Communicate(w)
      PROVE  QueueTypes'
  <2>1. Put(w) /\ worker[w] \in {"check", "communicate"} /\ input_queue' = input_queue
      BY <1>8 DEF ThrowBack, Skip, Communicate
  <2>2. held[w] \in Jobs
      BY <2>1
  <2> QED
      BY <2>1, <2>2 DEF Put
<1>9. ASSUME NEW w \in Workers, Launch(w) \/ PopenRaises(w)
      PROVE  QueueTypes'
    BY <1>9 DEF Launch, PopenRaises
<1> QED
    BY <1>1, <1>2, <1>3, <1>4, <1>5, <1>6, <1>7, <1>8, <1>9 DEF Next, MainStep, WorkerStep

LEMMA TypeStep == TypeOK /\ [Next]_vars => TypeOK'
<1> SUFFICES ASSUME TypeOK, [Next]_vars PROVE TypeOK'
    OBVIOUS
<1>1. MainTypes' /\ FieldTypes' /\ QueueTypes'
    BY MainTypesStep, FieldTypesStep, QueueTypesStep
<1> QED
    BY <1>1, TypeParts, PTL

\* Type correctness of test.py: the counters are in range, a queue holds only
\* jobs and breaks, and a worker holds a job exactly while it works on it.
THEOREM TypeCorrect == Spec => []TypeOK
BY TypeInit, TypeStep, PTL DEF Spec

-----------------------------------------------------------------------------
(* How jobs move between the queues and the threads.                       *)

StayPut == UNCHANGED <<input_queue, output_queue, held, jobs, collected>>

Dispatched == /\ jobs < MaxJobs /\ jobs' = jobs + 1
              /\ input_queue' = Append(input_queue, jobs + 1)
              /\ UNCHANGED <<output_queue, held, collected>>

BreaksAdded == /\ input_queue' = input_queue \o [i \in 1..Cardinality(Workers) |-> Break]
               /\ UNCHANGED <<output_queue, held, jobs, collected>>

BreakTaken == /\ input_queue # <<>> /\ Head(input_queue) = Break
              /\ input_queue' = Tail(input_queue)
              /\ UNCHANGED <<output_queue, held, jobs, collected>>

JobTaken(w) == /\ input_queue # <<>> /\ Head(input_queue) # Break /\ held[w] = Break
               /\ input_queue' = Tail(input_queue)
               /\ held' = [held EXCEPT ![w] = Head(input_queue)]
               /\ UNCHANGED <<output_queue, jobs, collected>>

ResultPut(w) == /\ held[w] # Break
                /\ output_queue' = Append(output_queue, held[w])
                /\ held' = [held EXCEPT ![w] = Break]
                /\ UNCHANGED <<input_queue, jobs, collected>>

ResultTaken == /\ collected < jobs /\ collected' = collected + 1
               /\ output_queue # <<>> /\ output_queue' = Tail(output_queue)
               /\ UNCHANGED <<input_queue, held, jobs>>

LEMMA Moves ==
    ASSUME TypeOK, [Next]_vars
    PROVE  \/ StayPut \/ Dispatched \/ BreaksAdded \/ BreakTaken \/ ResultTaken
           \/ \E w \in Workers : JobTaken(w) \/ ResultPut(w)
<1> USE DEF TypeOK, mainVars, workerVars
<1>1. CASE UNCHANGED vars \/ sigint_hook
    BY <1>1 DEF vars, sigint_hook, StayPut
<1>2. CASE DispatchSuite \/ DispatchExample \/ DispatchPyexample
    BY <1>2 DEF DispatchSuite, DispatchExample, DispatchPyexample, Dispatch, Dispatched
<1>3. CASE SuitesDone \/ ExamplesDone \/ PyexamplesDone \/ ConditionRaises \/ JoinAndReturn
    BY <1>3 DEF SuitesDone, ExamplesDone, PyexamplesDone, ConditionRaises, Goto, JoinAndReturn, StayPut
<1>4. CASE DispatchBreaks
    BY <1>4 DEF DispatchBreaks, BreaksAdded
<1>5. CASE CollectBreak \/ CollectResult
    BY <1>5 DEF CollectBreak, CollectResult, ResultTaken
<1>6. ASSUME NEW w \in Workers, Get(w)
      PROVE  BreakTaken \/ JobTaken(w)
    BY <1>6 DEF Get, BreakTaken, JobTaken
<1>7. ASSUME NEW w \in Workers, ThrowBack(w) \/ Skip(w) \/ Communicate(w)
      PROVE  ResultPut(w)
    BY <1>7 DEF ThrowBack, Skip, Communicate, Put, ResultPut
<1>8. ASSUME NEW w \in Workers, Launch(w) \/ PopenRaises(w)
      PROVE  StayPut
    BY <1>8 DEF Launch, PopenRaises, StayPut
<1> QED
    BY <1>1, <1>2, <1>3, <1>4, <1>5, <1>6, <1>7, <1>8 DEF Next, MainStep, WorkerStep

\* What is in the queues and in the hands of the workers.
In == {input_queue[i] : i \in DOMAIN input_queue}
Out == {output_queue[i] : i \in DOMAIN output_queue}
Held == {held[w] : w \in Workers}

\* The jobs whose result the main thread waits for, and those it has collected.
Pending == {j \in Jobs : j \in In \cup Out \cup Held}
Done == (1..jobs) \ Pending

Once == /\ \A i, k \in DOMAIN input_queue :
              input_queue[i] = input_queue[k] /\ input_queue[i] # Break => i = k
        /\ \A i, k \in DOMAIN output_queue : output_queue[i] = output_queue[k] => i = k
        /\ \A v, w \in Workers : held[v] = held[w] /\ held[v] # Break => v = w

Apart == In \cap Out = {} /\ In \cap Held \subseteq {Break} /\ Out \cap Held = {}

OnlyGiven == Pending \subseteq 1..jobs

PlaceInv == Once /\ Apart /\ OnlyGiven

\* What a move does to the set of pending jobs.
SamePending == Pending' = Pending /\ UNCHANGED <<jobs, collected>>

MorePending == /\ jobs + 1 \notin Pending /\ Pending' = Pending \cup {jobs + 1}
               /\ jobs' = jobs + 1 /\ collected' = collected

LessPending == /\ output_queue # <<>> /\ Head(output_queue) \in Pending
               /\ Pending' = Pending \ {Head(output_queue)}
               /\ jobs' = jobs /\ collected' = collected + 1

PendingMove == SamePending \/ MorePending \/ LessPending

\* The elements of a queue after Append.
LEMMA AppendElements ==
    ASSUME NEW S, NEW s \in Seq(S), NEW e \in S, NEW t, t = Append(s, e)
    PROVE  /\ {t[i] : i \in DOMAIN t} = {s[i] : i \in DOMAIN s} \cup {e}
           /\ \A i \in DOMAIN t : \/ i \in DOMAIN s /\ t[i] = s[i]
                                  \/ i = Len(s) + 1 /\ t[i] = e
<1>1. DOMAIN t = 1..Len(s) + 1 /\ DOMAIN s = 1..Len(s)
    OBVIOUS
<1>2. (\A i \in 1..Len(s) : t[i] = s[i]) /\ t[Len(s) + 1] = e
    BY AppendProperties
<1>3. \A i \in 1..Len(s) + 1 : i \in 1..Len(s) \/ i = Len(s) + 1
    OBVIOUS
<1>4. 1..Len(s) \subseteq 1..Len(s) + 1 /\ Len(s) + 1 \in 1..Len(s) + 1
    OBVIOUS
<1>5. \A x : x \in {t[i] : i \in DOMAIN t} <=> x \in {s[i] : i \in DOMAIN s} \cup {e}
    BY <1>1, <1>2, <1>3, <1>4, Zenon
<1> QED
    BY <1>1, <1>2, <1>3, <1>5, Zenon

LEMMA PlaceStep ==
    ASSUME TypeOK, PlaceInv, [Next]_vars
    PROVE  PlaceInv' /\ PendingMove
<1>a. /\ input_queue \in Seq(Jobs \cup {Break}) /\ output_queue \in Seq(Jobs)
      /\ held \in [Workers -> Jobs \cup {Break}]
      /\ jobs \in Nat /\ collected \in Nat
    BY MaxJobsAssumption DEF TypeOK
<1>b. Break \notin Jobs /\ \A j \in Jobs : j \in Nat
    BY DEF Break, Jobs
<1>c. Out \subseteq Jobs
    BY <1>a DEF Out
<1>d. ASSUME Once', Apart', Pending' = Pending, UNCHANGED <<jobs, collected>>
      PROVE  PlaceInv' /\ PendingMove
    BY <1>d DEF PlaceInv, OnlyGiven, PendingMove, SamePending
<1>1. CASE StayPut
    BY <1>1 DEF StayPut, PlaceInv, Once, Apart, OnlyGiven, PendingMove, SamePending,
                Pending, In, Out, Held
<1>2. CASE Dispatched
  <2>1. jobs + 1 \in Jobs /\ jobs + 1 \notin Pending /\ jobs + 1 # Break
      BY <1>2, <1>a, <1>b, MaxJobsAssumption DEF Dispatched, Jobs, PlaceInv, OnlyGiven
  <2>2. /\ In' = In \cup {jobs + 1}
        /\ \A i \in DOMAIN input_queue' :
              \/ i \in DOMAIN input_queue /\ input_queue'[i] = input_queue[i]
              \/ i = Len(input_queue) + 1 /\ input_queue'[i] = jobs + 1
    <3>1. input_queue' = Append(input_queue, jobs + 1) /\ jobs + 1 \in Jobs \cup {Break}
        BY <1>2, <2>1 DEF Dispatched
    <3>2. /\ {input_queue'[i] : i \in DOMAIN input_queue'}
               = {input_queue[i] : i \in DOMAIN input_queue} \cup {jobs + 1}
          /\ \A i \in DOMAIN input_queue' :
              \/ i \in DOMAIN input_queue /\ input_queue'[i] = input_queue[i]
              \/ i = Len(input_queue) + 1 /\ input_queue'[i] = jobs + 1
        BY <1>a, <3>1, AppendElements, SMTT(30)
    <3> QED
        BY <3>2 DEF In
  <2>3. Out' = Out /\ Held' = Held
      BY <1>2 DEF Dispatched, Out, Held
  <2>4. jobs + 1 \notin In \cup Out \cup Held
      BY <2>1 DEF Pending
  <2>5. Once'
      BY <1>2, <2>2, <2>4 DEF Dispatched, PlaceInv, Once, In
  <2>6. Apart'
      BY <2>2, <2>3, <2>4 DEF PlaceInv, Apart
  <2>7. Pending' = Pending \cup {jobs + 1}
      BY <2>1, <2>2, <2>3 DEF Pending
  <2>8. OnlyGiven'
      BY <1>2, <1>a, <2>7 DEF Dispatched, PlaceInv, OnlyGiven
  <2> QED
      BY <1>2, <2>1, <2>5, <2>6, <2>7, <2>8
      DEF Dispatched, PlaceInv, PendingMove, MorePending
<1>3. CASE BreaksAdded
  <2> DEFINE breaks == [i \in 1..Cardinality(Workers) |-> Break]
  <2>1. breaks \in Seq(Jobs \cup {Break}) /\ \A i \in 1..Len(breaks) : breaks[i] = Break
      BY BreaksSeq
  <2> HIDE DEF breaks
  <2>2. input_queue' = input_queue \o breaks
      BY <1>3 DEF BreaksAdded, breaks
  <2>3. /\ \A i \in DOMAIN input_queue :
              i \in DOMAIN input_queue' /\ input_queue'[i] = input_queue[i]
        /\ \A i \in DOMAIN input_queue' : i \in DOMAIN input_queue \/ input_queue'[i] = Break
      BY <1>a, <2>1, <2>2, ConcatProperties
  <2>4. In \subseteq In' /\ In' \subseteq In \cup {Break}
      BY <2>3 DEF In
  <2>5. Out' = Out /\ Held' = Held
      BY <1>3 DEF BreaksAdded, Out, Held
  <2>9. UNCHANGED <<output_queue, held>>
      BY <1>3 DEF BreaksAdded
  <2>6. Once'
      BY <2>3, <2>9 DEF PlaceInv, Once
  <2>7. Apart'
      BY <1>b, <1>c, <2>4, <2>5 DEF PlaceInv, Apart
  <2>8. Pending' = Pending
      BY <1>b, <2>4, <2>5 DEF Pending
  <2> QED
      BY <1>3, <1>d, <2>6, <2>7, <2>8 DEF BreaksAdded
<1>4. ASSUME input_queue # <<>>, input_queue' = Tail(input_queue)
      PROVE  /\ In = In' \cup {Head(input_queue)}
             /\ \A i \in DOMAIN input_queue' :
                   /\ i \in Nat /\ i + 1 \in DOMAIN input_queue /\ i # 0
                   /\ input_queue'[i] = input_queue[i + 1]
             /\ 1 \in DOMAIN input_queue /\ Head(input_queue) = input_queue[1]
             /\ Head(input_queue) \in Jobs \cup {Break}
  <2>2. /\ \A i \in DOMAIN input_queue' :
              /\ i \in Nat /\ i + 1 \in DOMAIN input_queue /\ i # 0
              /\ input_queue'[i] = input_queue[i + 1]
        /\ 1 \in DOMAIN input_queue /\ Head(input_queue) = input_queue[1]
        /\ Head(input_queue) \in Jobs \cup {Break}
      BY <1>4, <1>a
  <2>3. \A i \in DOMAIN input_queue :
           i = 1 \/ (i - 1 \in DOMAIN input_queue' /\ input_queue[i] = input_queue'[i - 1])
      BY <1>4, <1>a
  <2>4. In' \subseteq In /\ Head(input_queue) \in In
      BY <2>2 DEF In
  <2>5. In \subseteq In' \cup {Head(input_queue)}
      BY <2>2, <2>3 DEF In
  <2> QED
      BY <2>2, <2>4, <2>5
<1>5. CASE BreakTaken
  <2>1. input_queue # <<>> /\ input_queue' = Tail(input_queue) /\ Head(input_queue) = Break
      BY <1>5 DEF BreakTaken
  <2>2. Once'
      BY <1>5, <1>4, <2>1 DEF BreakTaken, PlaceInv, Once
  <2>3. In = In' \cup {Break} /\ Out' = Out /\ Held' = Held
      BY <1>5, <1>4, <2>1 DEF BreakTaken, Out, Held
  <2>4. Apart'
      BY <2>3 DEF PlaceInv, Apart
  <2>5. Pending' = Pending
      BY <1>b, <2>3 DEF Pending
  <2> QED
      BY <1>5, <1>d, <2>2, <2>4, <2>5 DEF BreakTaken
<1>6. ASSUME NEW w \in Workers, JobTaken(w)
      PROVE  PlaceInv' /\ PendingMove
  <2> DEFINE h == Head(input_queue)
  <2>1. /\ input_queue # <<>> /\ input_queue' = Tail(input_queue) /\ held[w] = Break
        /\ held'[w] = h /\ h # Break /\ DOMAIN held' = Workers
        /\ \A v \in Workers : v # w => held'[v] = held[v]
        /\ UNCHANGED <<output_queue, jobs, collected>>
      BY <1>6, <1>a DEF JobTaken
  <2>2. /\ In = In' \cup {h} /\ h \in Jobs /\ h = input_queue[1] /\ h \in In
      BY <1>4, <2>1
  <2> HIDE DEF h
  <2>3. h \notin In'
      BY <1>4, <2>1, <2>2 DEF PlaceInv, Once, In, h
  <2>4. /\ Held' \subseteq Held \cup {h} /\ Held \subseteq Held' \cup {Break} /\ h \in Held'
        /\ Out' = Out
      BY <2>1 DEF Held, Out
  <2>5. h \notin Held /\ h \notin Out
      BY <2>1, <2>2 DEF PlaceInv, Apart
  <2>6. Once'
    <3>1. \A i, k \in DOMAIN input_queue' :
             input_queue'[i] = input_queue'[k] /\ input_queue'[i] # Break => i = k
        BY <1>4, <2>1 DEF PlaceInv, Once
    <3>2. \A v, u \in Workers : held'[v] = held'[u] /\ held'[v] # Break => v = u
        BY <2>1, <2>5 DEF PlaceInv, Once, Held
    <3> QED
        BY <2>1, <3>1, <3>2 DEF PlaceInv, Once
  <2>7. Apart'
      BY <2>2, <2>3, <2>4, <2>5 DEF PlaceInv, Apart
  <2>8. Pending' = Pending
      BY <1>b, <2>2, <2>4 DEF Pending
  <2> QED
      BY <1>d, <2>1, <2>6, <2>7, <2>8
<1>7. ASSUME NEW w \in Workers, ResultPut(w)
      PROVE  PlaceInv' /\ PendingMove
  <2> DEFINE h == held[w]
  <2>1. /\ h # Break /\ h \in Jobs /\ held'[w] = Break /\ h \in Held
        /\ \A v \in Workers : v # w => held'[v] = held[v]
        /\ output_queue' = Append(output_queue, h)
        /\ UNCHANGED <<input_queue, jobs, collected>>
      BY <1>7, <1>a DEF ResultPut, Held
  <2> HIDE DEF h
  <2>2. /\ Out' = Out \cup {h}
        /\ \A i \in DOMAIN output_queue' :
              \/ i \in DOMAIN output_queue /\ output_queue'[i] = output_queue[i]
              \/ i = Len(output_queue) + 1 /\ output_queue'[i] = h
    <3>1. /\ {output_queue'[i] : i \in DOMAIN output_queue'}
               = {output_queue[i] : i \in DOMAIN output_queue} \cup {h}
          /\ \A i \in DOMAIN output_queue' :
                \/ i \in DOMAIN output_queue /\ output_queue'[i] = output_queue[i]
                \/ i = Len(output_queue) + 1 /\ output_queue'[i] = h
        BY <1>a, <2>1, AppendElements, SMTT(30)
    <3> QED
        BY <3>1 DEF Out
  <2>3. In' = In /\ h \notin In /\ h \notin Out
      BY <2>1 DEF PlaceInv, Apart, In
  <2>4. Held' \subseteq Held \cup {Break} /\ Held \subseteq Held' \cup {h} /\ h \notin Held'
      BY <2>1 DEF Held, PlaceInv, Once, h
  <2>5. Once'
    <3>1. \A i, k \in DOMAIN output_queue' : output_queue'[i] = output_queue'[k] => i = k
        BY <2>2, <2>3 DEF PlaceInv, Once, Out
    <3>2. \A v, u \in Workers : held'[v] = held'[u] /\ held'[v] # Break => v = u
        BY <2>1 DEF PlaceInv, Once
    <3> QED
        BY <2>1, <3>1, <3>2 DEF PlaceInv, Once
  <2>6. Apart'
      BY <1>b, <1>c, <2>1, <2>2, <2>3, <2>4 DEF PlaceInv, Apart
  <2>7. Pending' = Pending
      BY <1>b, <2>1, <2>2, <2>3, <2>4 DEF Pending
  <2> QED
      BY <1>d, <2>1, <2>5, <2>6, <2>7
<1>8. CASE ResultTaken
  <2> DEFINE h == Head(output_queue)
  <2>1. /\ UNCHANGED <<input_queue, held, jobs>> /\ collected' = collected + 1
        /\ output_queue # <<>> /\ output_queue' = Tail(output_queue)
      BY <1>8 DEF ResultTaken
  <2>2. /\ Out = Out' \cup {h} /\ h \in Jobs
        /\ \A i \in DOMAIN output_queue' :
              /\ i \in Nat /\ i + 1 \in DOMAIN output_queue /\ i # 0
              /\ output_queue'[i] = output_queue[i + 1]
        /\ 1 \in DOMAIN output_queue /\ h = output_queue[1]
    <3>2. /\ \A i \in DOMAIN output_queue' :
                /\ i \in Nat /\ i + 1 \in DOMAIN output_queue /\ i # 0
                /\ output_queue'[i] = output_queue[i + 1]
          /\ 1 \in DOMAIN output_queue /\ h = output_queue[1] /\ h \in Jobs
        BY <1>a, <2>1 DEF h
    <3>3. \A i \in DOMAIN output_queue :
             i = 1 \/ (i - 1 \in DOMAIN output_queue' /\ output_queue[i] = output_queue'[i - 1])
        BY <1>a, <2>1
    <3>4. Out' \subseteq Out /\ h \in Out
        BY <3>2 DEF Out
    <3>5. Out \subseteq Out' \cup {h}
        BY <3>2, <3>3 DEF Out
    <3> QED
        BY <3>2, <3>4, <3>5
  <2> HIDE DEF h
  <2>3. In' = In /\ Held' = Held
      BY <2>1 DEF In, Held
  <2>4. h \notin Out'
      BY <2>2 DEF PlaceInv, Once, Out
  <2>5. Once'
      BY <2>1, <2>2 DEF PlaceInv, Once
  <2>6. Apart'
      BY <2>2, <2>3 DEF PlaceInv, Apart
  <2>7. Pending' = Pending \ {h} /\ h \in Pending
      BY <2>2, <2>3, <2>4 DEF Pending, PlaceInv, Apart
  <2>8. OnlyGiven'
      BY <2>1, <2>7 DEF PlaceInv, OnlyGiven
  <2> QED
      BY <2>1, <2>5, <2>6, <2>7, <2>8 DEF PlaceInv, PendingMove, LessPending, h
<1> QED
    BY <1>1, <1>2, <1>3, <1>5, <1>6, <1>7, <1>8, Moves

-----------------------------------------------------------------------------
(* No job is lost: the pending jobs are as many as the results the main    *)
(* thread still waits for.                                                 *)

CountInv == Cardinality(Pending) = jobs - collected

LEMMA PendingFinite == IsFiniteSet(Pending)
<1>1. IsFiniteSet(Jobs)
    BY MaxJobsAssumption, FS_Interval DEF Jobs
<1>2. Pending \in SUBSET Jobs
    BY DEF Pending
<1> QED
    BY <1>1, <1>2, FS_Subset

LEMMA PlaceInit == Init => PlaceInv /\ CountInv
<1> SUFFICES ASSUME Init PROVE PlaceInv /\ CountInv
    OBVIOUS
<1>1. In = {} /\ Out = {} /\ Held \subseteq {Break}
    BY DEF Init, In, Out, Held
<1>2. Pending = {}
    BY <1>1 DEF Pending, Jobs, Break
<1>3. Once
    BY DEF Init, Once
<1>4. PlaceInv
    BY <1>1, <1>2, <1>3 DEF PlaceInv, Apart, OnlyGiven
<1>5. jobs = 0 /\ collected = 0
    BY DEF Init
<1> QED
    BY <1>2, <1>4, <1>5, FS_EmptySet DEF CountInv

LEMMA CountStep ==
    ASSUME TypeOK, PlaceInv, CountInv, [Next]_vars
    PROVE  CountInv'
<1>1. PendingMove
    BY PlaceStep
<1>2. jobs \in Nat /\ collected \in Nat /\ Cardinality(Pending) \in Nat
    BY MaxJobsAssumption, PendingFinite, FS_CardinalityType DEF TypeOK
<1>3. CASE SamePending
    BY <1>3 DEF SamePending, CountInv
<1>4. CASE MorePending
  <2>1. Cardinality(Pending') = Cardinality(Pending) + 1
      BY <1>4, PendingFinite, FS_AddElement DEF MorePending
  <2> QED
      BY <1>2, <1>4, <2>1 DEF MorePending, CountInv
<1>5. CASE LessPending
  <2>1. Cardinality(Pending') = Cardinality(Pending) - 1
      BY <1>5, PendingFinite, FS_RemoveElement DEF LessPending
  <2> QED
      BY <1>2, <1>5, <2>1 DEF LessPending, CountInv
<1> QED
    BY <1>1, <1>3, <1>4, <1>5 DEF PendingMove

\* No job is lost or doubled between the threads (NoJobLost), for any number
\* of workers and jobs: also a job whose worker died of an exception is still
\* accounted for, and that is why the main thread waits for it.
THEOREM JobsAccounted == Spec => []NoJobLost
<1> DEFINE IInv == TypeOK /\ PlaceInv /\ CountInv
<1>1. Init => IInv
    BY TypeInit, PlaceInit
<1>2. IInv /\ [Next]_vars => IInv'
    BY TypeStep, PlaceStep, CountStep
<1>3. IInv => NoJobLost
  <2> SUFFICES ASSUME TypeOK, PlaceInv, CountInv PROVE NoJobLost
      OBVIOUS
  <2>1. \A j \in Jobs : Places(j) # {} <=> j \in Pending
    <3> SUFFICES ASSUME NEW j \in Jobs PROVE Places(j) # {} <=> j \in In \cup Out \cup Held
        BY DEF Pending
    <3>1. j \in In <=> {k \in DOMAIN input_queue : input_queue[k] = j} # {}
        BY DEF In
    <3>2. j \in Out <=> {k \in DOMAIN output_queue : output_queue[k] = j} # {}
        BY DEF Out
    <3>3. j \in Held <=> {v \in Workers : held[v] = j} # {}
        BY DEF Held
    <3> QED
        BY <3>1, <3>2, <3>3, Zenon DEF Places
  <2>2. ASSUME NEW j \in Jobs, NEW x \in Places(j), NEW y \in Places(j)
        PROVE  x = y
    <3>0. j # Break
        BY DEF Jobs, Break
    <3>1. \/ \E i \in DOMAIN input_queue : input_queue[i] = j /\ x = <<"in", i>>
          \/ \E i \in DOMAIN output_queue : output_queue[i] = j /\ x = <<"out", i>>
          \/ \E w \in Workers : held[w] = j /\ x = <<"held", w>>
        BY <2>2, Zenon DEF Places
    <3>2. \/ \E i \in DOMAIN input_queue : input_queue[i] = j /\ y = <<"in", i>>
          \/ \E i \in DOMAIN output_queue : output_queue[i] = j /\ y = <<"out", i>>
          \/ \E w \in Workers : held[w] = j /\ y = <<"held", w>>
        BY <2>2, Zenon DEF Places
    <3>3. CASE j \in In
      <4>1. j \notin Out /\ j \notin Held
          BY <3>0, <3>3 DEF PlaceInv, Apart
      <4> QED
          BY <3>0, <3>1, <3>2, <4>1 DEF Out, Held, PlaceInv, Once
    <3>4. CASE j \in Out
      <4>1. j \notin In /\ j \notin Held
          BY <3>0, <3>4 DEF PlaceInv, Apart
      <4> QED
          BY <3>0, <3>1, <3>2, <4>1 DEF In, Held, PlaceInv, Once
    <3>5. CASE j \notin In /\ j \notin Out
        BY <3>0, <3>1, <3>2, <3>5 DEF In, Out, PlaceInv, Once
    <3> QED
        BY <3>3, <3>4, <3>5
  <2>3. ASSUME NEW j \in Jobs
        PROVE  Cardinality(Places(j)) <= (IF j <= jobs THEN 1 ELSE 0)
    <3>1. CASE Places(j) = {}
        BY <3>1, FS_EmptySet
    <3>2. CASE Places(j) # {}
      <4>1. PICK x : Places(j) = {x}
          BY <2>2, <3>2
      <4>2. j <= jobs
        <5>1. j \in Pending /\ Pending \subseteq 1..jobs
            BY <2>1, <3>2 DEF PlaceInv, OnlyGiven
        <5>2. j \in 1..jobs
            BY <5>1, Zenon
        <5> QED
            BY <5>2
      <4> QED
          BY <4>1, <4>2, FS_Singleton
    <3> QED
        BY <3>1, <3>2
  <2>4. {j \in Jobs : Places(j) # {}} = Pending
      BY <2>1 DEF Pending
  <2>5. jobs - collected = Cardinality({j \in Jobs : Places(j) # {}})
      BY <2>4 DEF CountInv
  <2> QED
      BY <2>3, <2>5 DEF NoJobLost
<1> QED
    BY <1>1, <1>2, <1>3, PTL DEF Spec

-----------------------------------------------------------------------------
(* The breaks are the tail of the input queue, one for each worker that is *)
(* still in its loop once they have been dispatched.                       *)

Dispatching == {"suites", "examples", "pyexamples", "breaks"}

Live == {w \in Workers : worker[w] # "returned"}

\* The last b entries of the queue, and no others, are breaks.
BreaksFrom(b) == \A i \in 1..Len(input_queue) :
                    input_queue[i] = Break <=> i > Len(input_queue) - b

Shape(b) == /\ BreaksFrom(b)
            /\ Live # Workers => b = Len(input_queue)
            /\ main \in Dispatching => b = 0 /\ Live = Workers
            /\ main \in {"collect", "returned"} => b = Cardinality(Live)

ShapeInv == \E b \in 0..Len(input_queue) : Shape(b)

LEMMA LiveFinite == IsFiniteSet(Live) /\ Cardinality(Live) \in Nat
<1>1. Live \in SUBSET Workers
    BY DEF Live
<1> QED
    BY <1>1, WorkersAssumption, FS_Subset, FS_CardinalityType

\* A step that leaves the queue alone, with which no worker leaves its loop and
\* the main thread does not get to the collection of results.
LEMMA QuietShape ==
    ASSUME ShapeInv, input_queue' = input_queue, Live' = Live,
           \/ main' = main
           \/ main \in Dispatching /\ main' \in Dispatching
           \/ main' = "raised"
           \/ main = "collect" /\ main' = "returned"
    PROVE  ShapeInv'
<1>1. PICK b \in 0..Len(input_queue) : Shape(b)
    BY DEF ShapeInv
<1>2. Shape(b)'
    BY <1>1 DEF Shape, BreaksFrom, Dispatching
<1> QED
    BY <1>2 DEF ShapeInv

LEMMA ShapeStep ==
    ASSUME TypeOK, ShapeInv, [Next]_vars
    PROVE  ShapeInv'
<1>a. /\ input_queue \in Seq(Jobs \cup {Break}) /\ Len(input_queue) \in Nat
      /\ DOMAIN input_queue = 1..Len(input_queue)
    BY DEF TypeOK
<1>b. Break \notin Jobs
    BY DEF Break, Jobs
<1>c. PICK b \in 0..Len(input_queue) : Shape(b)
    BY DEF ShapeInv
<1>d. /\ b \in Nat /\ b <= Len(input_queue)
      /\ \A i \in 1..Len(input_queue) : input_queue[i] = Break <=> i > Len(input_queue) - b
  <2>1. b \in Nat /\ b <= Len(input_queue)
      BY <1>a
  <2>2. BreaksFrom(b)
      BY <1>c DEF Shape
  <2> QED
      BY <2>1, <2>2 DEF BreaksFrom
<1> USE DEF mainVars, workerVars
<1>1. CASE UNCHANGED vars \/ sigint_hook
    BY <1>1, QuietShape DEF vars, sigint_hook, Live
<1>2. CASE DispatchSuite \/ DispatchExample \/ DispatchPyexample
  <2>1. /\ main \in Dispatching /\ main' = main /\ worker' = worker /\ jobs < MaxJobs
        /\ input_queue' = Append(input_queue, jobs + 1)
      BY <1>2 DEF DispatchSuite, DispatchExample, DispatchPyexample, Dispatch, Dispatching
  <2>2. jobs + 1 \in Jobs
      BY <2>1, MaxJobsAssumption DEF Jobs, TypeOK
  <2>3. /\ Len(input_queue') = Len(input_queue) + 1
        /\ \A i \in 1..Len(input_queue) : input_queue'[i] = input_queue[i]
        /\ input_queue'[Len(input_queue) + 1] = jobs + 1
      BY <1>a, <2>1, <2>2
  <2>4. b = 0 /\ Live = Workers /\ \A i \in 1..Len(input_queue) : input_queue[i] # Break
      BY <1>a, <1>c, <2>1 DEF Shape, BreaksFrom
  <2>5. \A i \in 1..Len(input_queue') : input_queue'[i] # Break
      BY <1>a, <1>b, <2>2, <2>3, <2>4
  <2>6. BreaksFrom(0)'
      BY <1>a, <2>3, <2>5 DEF BreaksFrom
  <2>7. Live' = Live
      BY <2>1 DEF Live
  <2>8. Shape(0)'
      BY <2>1, <2>4, <2>6, <2>7 DEF Shape, Dispatching
  <2> QED
      BY <1>a, <2>3, <2>8 DEF ShapeInv
<1>3. CASE SuitesDone \/ ExamplesDone \/ PyexamplesDone \/ ConditionRaises
    BY <1>3, QuietShape
    DEF SuitesDone, ExamplesDone, PyexamplesDone, ConditionRaises, Goto, Dispatching, Live
<1>4. CASE DispatchBreaks
  <2> DEFINE breaks == [i \in 1..Cardinality(Workers) |-> Break]
             n == Cardinality(Workers)
  <2>1. /\ n \in Nat /\ breaks \in Seq(Jobs \cup {Break}) /\ Len(breaks) = n
        /\ \A i \in 1..n : breaks[i] = Break
      BY BreaksSeq
  <2>2. input_queue' = input_queue \o breaks /\ main = "breaks" /\ main' = "collect"
        /\ worker' = worker
      BY <1>4 DEF DispatchBreaks
  <2> HIDE DEF breaks, n
  <2>3. /\ Len(input_queue') = Len(input_queue) + n
        /\ \A i \in 1..Len(input_queue) + n :
              input_queue'[i] = IF i <= Len(input_queue) THEN input_queue[i]
                                                        ELSE breaks[i - Len(input_queue)]
      BY <1>a, <2>1, <2>2, ConcatProperties
  <2>4. b = 0 /\ Live = Workers /\ \A i \in 1..Len(input_queue) : input_queue[i] # Break
      BY <1>a, <1>c, <2>2 DEF Shape, BreaksFrom, Dispatching
  <2>5. ASSUME NEW i \in 1..Len(input_queue')
        PROVE  input_queue'[i] = Break <=> i > Len(input_queue') - n
    <3>1. CASE i <= Len(input_queue)
        BY <1>a, <2>1, <2>3, <2>4, <3>1
    <3>2. CASE i > Len(input_queue)
      <4>1. i - Len(input_queue) \in 1..n
          BY <1>a, <2>1, <2>3, <3>2
      <4>2. input_queue'[i] = breaks[i - Len(input_queue)]
          BY <1>a, <2>1, <2>3, <3>2
      <4> QED
          BY <1>a, <2>1, <2>3, <3>2, <4>1, <4>2
    <3> QED
        BY <1>a, <3>1, <3>2
  <2>6. BreaksFrom(n)'
      BY <2>5 DEF BreaksFrom
  <2>7. Live' = Workers
      BY <2>2, <2>4 DEF Live
  <2>8. Shape(n)'
      BY <2>2, <2>6, <2>7 DEF Shape, Dispatching, n
  <2>9. n \in 0..Len(input_queue')
      BY <1>a, <2>1, <2>3
  <2> QED
      BY <2>8, <2>9 DEF ShapeInv
<1>5. CASE CollectBreak \/ CollectResult \/ JoinAndReturn
    BY <1>5, QuietShape DEF CollectBreak, CollectResult, JoinAndReturn, Live
<1>6. ASSUME NEW w \in Workers, Get(w)
      PROVE  ShapeInv'
  <2>1. /\ input_queue # <<>> /\ input_queue' = Tail(input_queue) /\ worker[w] = "get"
        /\ main' = main /\ worker \in [Workers -> {"get", "check", "communicate", "returned", "raised"}]
      BY <1>6 DEF Get, TypeOK
  <2>2. /\ Len(input_queue') = Len(input_queue) - 1 /\ Len(input_queue) > 0
        /\ \A i \in 1..Len(input_queue) - 1 : input_queue'[i] = input_queue[i + 1]
        /\ Head(input_queue) = input_queue[1]
      BY <1>a, <2>1
  <2>3. CASE Head(input_queue) = Break
    <3>1. b = Len(input_queue) /\ b # 0
        BY <1>a, <1>c, <2>2, <2>3 DEF Shape, BreaksFrom
    <3>2. main \notin Dispatching
        BY <1>c, <3>1 DEF Shape
    <3>3. Live' = Live \ {w} /\ w \in Live
        BY <1>6, <2>1, <2>3 DEF Get, Live
    <3>4. Cardinality(Live') = Cardinality(Live) - 1
        BY <3>3, LiveFinite, FS_RemoveElement
    <3>5. BreaksFrom(b - 1)'
        BY <1>a, <1>c, <2>2, <3>1 DEF Shape, BreaksFrom
    <3>6. Shape(b - 1)'
        BY <1>a, <1>c, <2>1, <2>2, <3>1, <3>2, <3>4, <3>5, LiveFinite DEF Shape
    <3> QED
        BY <1>a, <2>2, <3>1, <3>6 DEF ShapeInv
  <2>4. CASE Head(input_queue) # Break
    <3>1. b < Len(input_queue)
      <4>1. 1 \in 1..Len(input_queue) /\ input_queue[1] # Break
          BY <1>a, <2>2, <2>4
      <4>2. ~(1 > Len(input_queue) - b)
          BY <1>d, <4>1
      <4> QED
          BY <1>a, <1>d, <4>2
    <3>2. Live' = Live
        BY <1>6, <2>1, <2>4 DEF Get, Live
    <3>3. BreaksFrom(b)'
        BY <1>a, <1>d, <2>2 DEF BreaksFrom
    <3>4. Shape(b)'
        BY <1>c, <2>1, <3>1, <3>2, <3>3 DEF Shape
    <3> QED
        BY <1>a, <2>2, <3>1, <3>4 DEF ShapeInv
  <2> QED
      BY <2>3, <2>4
<1>7. ASSUME NEW w \in Workers, ThrowBack(w) \/ Skip(w) \/ Communicate(w) \/ Launch(w) \/ PopenRaises(w)
      PROVE  ShapeInv'
  <2>1. /\ input_queue' = input_queue /\ main' = main
        /\ worker[w] \in {"check", "communicate"}
        /\ \E p \in {"get", "communicate", "raised"} : worker' = [worker EXCEPT ![w] = p]
      BY <1>7 DEF ThrowBack, Skip, Communicate, Launch, PopenRaises, Put
  <2>2. Live' = Live
      BY <2>1 DEF Live, TypeOK
  <2> QED
      BY <2>1, <2>2, QuietShape
<1> QED
    BY <1>1, <1>2, <1>3, <1>4, <1>5, <1>6, <1>7 DEF Next, MainStep, WorkerStep

\* The breaks are behind all jobs and there is one for each worker still in
\* its loop (BreaksLast): no worker leaves while there are jobs to be taken,
\* and none waits for a break that another one took.
THEOREM BreaksBehindJobs == Spec => []BreaksLast
<1>1. Init => TypeOK /\ ShapeInv
  <2> SUFFICES ASSUME Init PROVE ShapeInv
      BY TypeInit
  <2>1. Len(input_queue) = 0 /\ Live = Workers /\ main = "suites"
      BY DEF Init, Live
  <2>2. Shape(0)
      BY <2>1 DEF Shape, BreaksFrom
  <2> QED
      BY <2>1, <2>2 DEF ShapeInv
<1>2. TypeOK /\ ShapeInv /\ [Next]_vars => TypeOK' /\ ShapeInv'
    BY TypeStep, ShapeStep
<1>3. TypeOK /\ ShapeInv => BreaksLast
  <2> SUFFICES ASSUME TypeOK, ShapeInv PROVE BreaksLast
      OBVIOUS
  <2>1. PICK b \in 0..Len(input_queue) : Shape(b)
      BY DEF ShapeInv
  <2>2. Len(input_queue) \in Nat /\ DOMAIN input_queue = 1..Len(input_queue)
      BY DEF TypeOK
  <2>6. /\ b \in Nat /\ b <= Len(input_queue)
        /\ \A i \in 1..Len(input_queue) : input_queue[i] = Break <=> i > Len(input_queue) - b
    <3>1. b \in Nat /\ b <= Len(input_queue)
        BY <2>2
    <3>2. BreaksFrom(b)
        BY <2>1 DEF Shape
    <3> QED
        BY <3>1, <3>2 DEF BreaksFrom
  <2>3. (\E w \in Workers : worker[w] = "returned")
           => \A i \in DOMAIN input_queue : input_queue[i] = Break
    <3> SUFFICES ASSUME \E w \in Workers : worker[w] = "returned"
                 PROVE  \A i \in DOMAIN input_queue : input_queue[i] = Break
        OBVIOUS
    <3>1. b = Len(input_queue)
        BY <2>1 DEF Shape, Live
    <3> QED
        BY <2>2, <2>6, <3>1
  <2>4. \A i, k \in DOMAIN input_queue : input_queue[i] = Break /\ i < k => input_queue[k] = Break
      BY <2>2, <2>6
  <2>5. Cardinality({i \in DOMAIN input_queue : input_queue[i] = Break}) = b
    <3>1. {i \in DOMAIN input_queue : input_queue[i] = Break}
             = (Len(input_queue) - b + 1)..Len(input_queue)
        BY <2>2, <2>6
    <3>2. Len(input_queue) - b + 1 \in Int /\ Len(input_queue) \in Int
        BY <2>2, <2>6
    <3>3. Cardinality((Len(input_queue) - b + 1)..Len(input_queue))
             = IF Len(input_queue) - b + 1 > Len(input_queue) THEN 0
               ELSE Len(input_queue) - (Len(input_queue) - b + 1) + 1
        BY <3>2, FS_Interval
    <3>4. Cardinality((Len(input_queue) - b + 1)..Len(input_queue)) = b
        BY <2>2, <2>6, <3>3
    <3> QED
        BY <3>1, <3>4, Zenon
  <2> QED
      BY <2>1, <2>3, <2>4, <2>5 DEF BreaksLast, Shape, Live
<1> QED
    BY <1>1, <1>2, <1>3, PTL DEF Spec

-----------------------------------------------------------------------------
(* What the results say.  The fields of a job are written by the thread    *)
(* that holds it, and not any more once its result has been put.           *)

Fields(j) == <<kind[j], is_skip[j], is_break[j], returncode[j], exit_code[j], tmp_file[j]>>

LEMMA FieldsStay ==
    ASSUME TypeOK, [Next]_vars, NEW j \in 1..jobs, j \notin Held
    PROVE  Fields(j)' = Fields(j)
<1>a. j \in Jobs /\ jobs \in Nat
    BY MaxJobsAssumption DEF TypeOK, Jobs
<1> USE DEF Fields, mainVars, workerVars
<1>1. CASE UNCHANGED vars \/ sigint_hook
    BY <1>1 DEF vars, sigint_hook
<1>2. CASE DispatchSuite \/ DispatchExample \/ DispatchPyexample
  <2>1. PICK k, skip : Dispatch(k, skip)
      BY <1>2 DEF DispatchSuite, DispatchExample, DispatchPyexample
  <2>2. j # jobs + 1
      BY <1>a
  <2> QED
      BY <1>a, <2>1, <2>2 DEF Dispatch, TypeOK
<1>3. CASE SuitesDone \/ ExamplesDone \/ PyexamplesDone \/ ConditionRaises \/ DispatchBreaks
    BY <1>3 DEF SuitesDone, ExamplesDone, PyexamplesDone, ConditionRaises, Goto, DispatchBreaks
<1>4. CASE CollectBreak \/ CollectResult \/ JoinAndReturn
    BY <1>4 DEF CollectBreak, CollectResult, JoinAndReturn
<1>5. ASSUME NEW w \in Workers, Get(w) \/ Skip(w) \/ Launch(w) \/ PopenRaises(w)
      PROVE  Fields(j)' = Fields(j)
    BY <1>5 DEF Get, Skip, Launch, PopenRaises
<1>6. ASSUME NEW w \in Workers, ThrowBack(w) \/ Communicate(w)
      PROVE  Fields(j)' = Fields(j)
  <2>1. held[w] # j
      BY DEF Held
  <2>2. CASE ThrowBack(w)
      BY <1>a, <2>1, <2>2 DEF ThrowBack, TypeOK
  <2>3. CASE Communicate(w)
      BY <1>a, <2>1, <2>3 DEF Communicate, TypeOK
  <2> QED
      BY <1>6, <2>2, <2>3
<1> QED
    BY <1>1, <1>2, <1>3, <1>4, <1>5, <1>6 DEF Next, MainStep, WorkerStep

\* What a job's fields say when its result is on its way: it was to be skipped,
\* or its child was run and the return code is the exit code, unless the
\* output did not decode.
Ran(j) == \/ is_skip[j]
          \/ /\ exit_code[j] \in Codes
             /\ returncode[j] = exit_code[j] \/ (BadOutput /\ returncode[j] = 1)

ResultsRan == \A j \in 1..jobs : j \notin In \cup Held => is_break[j] \/ Ran(j)

BreakOnExit == \A j \in Jobs : is_break[j] => thread_exit

PartialCrashed == \A j \in Jobs : tmp_file[j] = "partial" =>
                     exit_code[j] = Other /\ kind[j] = "suite" /\ j <= jobs

FieldInv == ResultsRan /\ BreakOnExit /\ PartialCrashed

\* A job that is with nobody after a step either was with nobody before it, or
\* its result has just been put.
LEMMA LeftHands ==
    ASSUME TypeOK, PlaceInv, [Next]_vars, NEW j \in 1..jobs', j \notin In' \cup Held'
    PROVE  \/ j \in 1..jobs /\ j \notin In \cup Held
           \/ \E w \in Workers : /\ j = held[w] /\ j \in Jobs
                                 /\ ThrowBack(w) \/ Skip(w) \/ Communicate(w)
<1>a. j \in Nat /\ j # Break /\ jobs \in Nat
    BY MaxJobsAssumption DEF TypeOK, Break
<1> USE DEF mainVars, workerVars
<1>1. ASSUME UNCHANGED <<input_queue, held, jobs>>
      PROVE  j \in 1..jobs /\ j \notin In \cup Held
    BY <1>1 DEF In, Held
<1>2. CASE UNCHANGED vars \/ sigint_hook
    BY <1>1, <1>2 DEF vars, sigint_hook
<1>3. CASE DispatchSuite \/ DispatchExample \/ DispatchPyexample
  <2>1. /\ input_queue' = Append(input_queue, jobs + 1) /\ jobs' = jobs + 1 /\ held' = held
        /\ input_queue \in Seq(Jobs \cup {Break}) /\ jobs + 1 \in Jobs \cup {Break}
      BY <1>3, MaxJobsAssumption
      DEF DispatchSuite, DispatchExample, DispatchPyexample, Dispatch, TypeOK, Jobs
  <2>2. {input_queue'[i] : i \in DOMAIN input_queue'}
          = {input_queue[i] : i \in DOMAIN input_queue} \cup {jobs + 1}
      BY <2>1, AppendElements
  <2>3. In' = In \cup {jobs + 1} /\ Held' = Held
      BY <2>1, <2>2 DEF In, Held
  <2> QED
      BY <1>a, <2>1, <2>3
<1>4. CASE SuitesDone \/ ExamplesDone \/ PyexamplesDone \/ ConditionRaises
    BY <1>1, <1>4 DEF SuitesDone, ExamplesDone, PyexamplesDone, ConditionRaises, Goto
<1>5. CASE DispatchBreaks
  <2> DEFINE breaks == [i \in 1..Cardinality(Workers) |-> Break]
  <2>1. breaks \in Seq(Jobs \cup {Break})
      BY BreaksSeq
  <2> HIDE DEF breaks
  <2>2. input_queue' = input_queue \o breaks /\ input_queue \in Seq(Jobs \cup {Break})
        /\ held' = held /\ jobs' = jobs
      BY <1>5 DEF DispatchBreaks, breaks, TypeOK
  <2>3. \A i \in DOMAIN input_queue :
           i \in DOMAIN input_queue' /\ input_queue'[i] = input_queue[i]
      BY <2>1, <2>2, ConcatProperties
  <2>4. In \subseteq In' /\ Held' = Held
      BY <2>2, <2>3 DEF In, Held
  <2> QED
      BY <2>2, <2>4
<1>6. CASE CollectBreak \/ CollectResult \/ JoinAndReturn
    BY <1>1, <1>6 DEF CollectBreak, CollectResult, JoinAndReturn
<1>7. ASSUME NEW w \in Workers, Get(w)
      PROVE  j \in 1..jobs /\ j \notin In \cup Held
  <2>1. /\ input_queue # <<>> /\ input_queue' = Tail(input_queue)
        /\ input_queue \in Seq(Jobs \cup {Break})
        /\ jobs' = jobs /\ held[w] = Break /\ held \in [Workers -> Jobs \cup {Break}]
        /\ Head(input_queue) = Break \/ held' = [held EXCEPT ![w] = Head(input_queue)]
        /\ Head(input_queue) # Break \/ held' = held
      BY <1>7 DEF Get, TypeOK
  <2>2. \A i \in DOMAIN input_queue :
           \/ i - 1 \in DOMAIN input_queue' /\ input_queue[i] = input_queue'[i - 1]
           \/ input_queue[i] = Head(input_queue)
      BY <2>1
  <2>3. \A i \in DOMAIN input_queue : input_queue[i] \in In' \/ input_queue[i] = Head(input_queue)
      BY <2>2 DEF In
  <2>4. Head(input_queue) # j
      BY <1>a, <2>1 DEF Held
  <2>5. j \notin In
      BY <2>3, <2>4 DEF In
  <2>6. j \notin Held
      BY <1>a, <2>1 DEF Held
  <2> QED
      BY <2>1, <2>5, <2>6
<1>8. ASSUME NEW w \in Workers, ThrowBack(w) \/ Skip(w) \/ Communicate(w)
      PROVE  \/ j \in 1..jobs /\ j \notin In \cup Held
             \/ j = held[w] /\ j \in Jobs
  <2>1. /\ input_queue' = input_queue /\ jobs' = jobs
        /\ held' = [held EXCEPT ![w] = Break] /\ held \in [Workers -> Jobs \cup {Break}]
      BY <1>8 DEF ThrowBack, Skip, Communicate, Put, TypeOK
  <2>2. j \notin In
      BY <2>1 DEF In
  <2>3. j \notin Held \/ j = held[w]
      BY <2>1 DEF Held
  <2> QED
      BY <1>a, <2>1, <2>2, <2>3
<1>9. ASSUME NEW w \in Workers, Launch(w) \/ PopenRaises(w)
      PROVE  j \in 1..jobs /\ j \notin In \cup Held
    BY <1>1, <1>9 DEF Launch, PopenRaises
<1> QED
    BY <1>2, <1>3, <1>4, <1>5, <1>6, <1>7, <1>8, <1>9 DEF Next, MainStep, WorkerStep

LEMMA FieldInit == Init => FieldInv
<1>1. Init => ResultsRan
    BY DEF Init, ResultsRan
<1>2. Init => BreakOnExit
    BY Zenon DEF Init, BreakOnExit
<1>3. Init => PartialCrashed
    BY DEF Init, PartialCrashed
<1> QED
    BY <1>1, <1>2, <1>3 DEF FieldInv

\* What Communicate writes into the job it holds.
LEMMA CommunicateWrites ==
    ASSUME TypeOK, NEW w \in Workers, Communicate(w), held[w] \in Jobs
    PROVE  LET j == held[w]
           IN  /\ exit_code'[j] \in Codes
               /\ returncode'[j] = exit_code'[j] \/ (BadOutput /\ returncode'[j] = 1)
               /\ kind[j] = "suite" /\ tmp_file'[j] = "partial" => exit_code'[j] = Other
               /\ kind[j] # "suite" => tmp_file' = tmp_file
<1> DEFINE j == held[w]
<1>1. PICK code \in Codes, decodes \in {TRUE, ~BadOutput} :
         /\ exit_code' = [exit_code EXCEPT ![j] = code]
         /\ returncode' = [returncode EXCEPT ![j] = Retval(code, decodes)]
         /\ IF kind[j] = "suite"
            THEN \E f \in FilesAfter(code) : tmp_file' = [tmp_file EXCEPT ![j] = f]
            ELSE UNCHANGED tmp_file
    BY DEF Communicate
<1>2. exit_code'[j] = code /\ returncode'[j] = Retval(code, decodes)
    BY <1>1 DEF TypeOK
<1>3. decodes \/ BadOutput
    BY Zenon
<1>4. Retval(code, decodes) = code \/ (BadOutput /\ Retval(code, decodes) = 1)
    BY <1>3 DEF Retval
<1>5. kind[j] = "suite" /\ tmp_file'[j] = "partial" => code = Other
    BY <1>1 DEF FilesAfter, TypeOK
<1>6. kind[j] # "suite" => tmp_file' = tmp_file
    BY <1>1
<1> QED
    BY <1>2, <1>4, <1>5, <1>6

LEMMA FieldStep ==
    ASSUME TypeOK, PlaceInv, FieldInv, [Next]_vars
    PROVE  FieldInv'
<1>a. jobs \in Nat /\ 1..jobs \subseteq Jobs /\ jobs' \in Nat
    BY MaxJobsAssumption, MainTypesStep DEF TypeOK, Jobs, MainTypes
<1>1. ResultsRan'
  <2> SUFFICES ASSUME NEW j \in 1..jobs', j \notin In' \cup Held'
               PROVE  is_break'[j] \/ Ran(j)'
      BY DEF ResultsRan
  <2>1. CASE j \in 1..jobs /\ j \notin In \cup Held
    <3>1. Fields(j)' = Fields(j)
        BY <2>1, FieldsStay
    <3>2. is_break[j] \/ Ran(j)
        BY <2>1 DEF FieldInv, ResultsRan
    <3> QED
        BY <3>1, <3>2 DEF Fields, Ran
  <2>2. ASSUME NEW w \in Workers, j = held[w], j \in Jobs, ThrowBack(w) \/ Skip(w) \/ Communicate(w)
        PROVE  is_break'[j] \/ Ran(j)'
    <3>1. CASE ThrowBack(w)
      <4>1. is_break'[j] = TRUE
          BY <2>2, <3>1 DEF ThrowBack, TypeOK
      <4> QED
          BY <4>1
    <3>2. CASE Skip(w)
        BY <2>2, <3>2 DEF Skip, Ran
    <3>3. CASE Communicate(w)
        BY <2>2, <3>3, CommunicateWrites DEF Ran
    <3> QED
        BY <2>2, <3>1, <3>2, <3>3
  <2> QED
      BY <2>1, <2>2, LeftHands
<1> USE DEF mainVars, workerVars
<1>2. BreakOnExit'
  <2>1. ASSUME UNCHANGED <<is_break, thread_exit>>
        PROVE  BreakOnExit'
      BY <2>1 DEF FieldInv, BreakOnExit
  <2>2. CASE UNCHANGED vars
      BY <2>1, <2>2 DEF vars
  <2>3. CASE sigint_hook
      BY <2>3, Zenon DEF sigint_hook, BreakOnExit
  <2>4. CASE MainStep
      BY <2>1, <2>4 DEF MainStep, DispatchSuite, DispatchExample, DispatchPyexample, Dispatch,
                        SuitesDone, ExamplesDone, PyexamplesDone, ConditionRaises, Goto,
                        DispatchBreaks, CollectBreak, CollectResult, JoinAndReturn
  <2>5. ASSUME NEW w \in Workers, Get(w) \/ Skip(w) \/ Launch(w) \/ PopenRaises(w) \/ Communicate(w)
        PROVE  BreakOnExit'
      BY <2>1, <2>5 DEF Get, Skip, Launch, PopenRaises, Communicate
  <2>6. ASSUME NEW w \in Workers, ThrowBack(w)
        PROVE  BreakOnExit'
      BY <2>6, Zenon DEF ThrowBack, BreakOnExit
  <2> QED
      BY <2>2, <2>3, <2>4, <2>5, <2>6 DEF Next, WorkerStep
<1>3. PartialCrashed'
  <2>1. ASSUME UNCHANGED <<tmp_file, exit_code, kind, jobs>>
        PROVE  PartialCrashed'
      BY <2>1 DEF FieldInv, PartialCrashed
  <2>2. CASE UNCHANGED vars \/ sigint_hook
      BY <2>1, <2>2 DEF vars, sigint_hook
  <2>3. CASE DispatchSuite \/ DispatchExample \/ DispatchPyexample
    <3>1. PICK k, skip : Dispatch(k, skip)
        BY <2>3 DEF DispatchSuite, DispatchExample, DispatchPyexample
    <3>2. UNCHANGED <<tmp_file, exit_code>> /\ jobs' = jobs + 1
          /\ \A j \in Jobs : j # jobs + 1 => kind'[j] = kind[j]
        BY <3>1 DEF Dispatch, TypeOK
    <3>3. \A j \in Jobs : j \in Nat
        BY DEF Jobs
    <3> QED
        BY <1>a, <3>2, <3>3 DEF FieldInv, PartialCrashed
  <2>4. CASE SuitesDone \/ ExamplesDone \/ PyexamplesDone \/ ConditionRaises \/ DispatchBreaks
      BY <2>1, <2>4
      DEF SuitesDone, ExamplesDone, PyexamplesDone, ConditionRaises, Goto, DispatchBreaks
  <2>5. CASE CollectBreak \/ CollectResult \/ JoinAndReturn
      BY <2>1, <2>5 DEF CollectBreak, CollectResult, JoinAndReturn
  <2>6. ASSUME NEW w \in Workers, Get(w) \/ ThrowBack(w) \/ Skip(w) \/ Launch(w) \/ PopenRaises(w)
        PROVE  PartialCrashed'
      BY <2>1, <2>6 DEF Get, ThrowBack, Skip, Launch, PopenRaises
  <2>7. ASSUME NEW w \in Workers, Communicate(w)
        PROVE  PartialCrashed'
    <3>1. held[w] \in Jobs /\ UNCHANGED <<kind, jobs>>
        BY <2>7 DEF Communicate, TypeOK
    <3>2. \A j \in Jobs : j # held[w] => tmp_file'[j] = tmp_file[j] /\ exit_code'[j] = exit_code[j]
        BY <2>7 DEF Communicate, TypeOK
    <3>3. held[w] <= jobs
      <4>1. held[w] \in Pending /\ Pending \subseteq 1..jobs
          BY <3>1 DEF Held, Pending, PlaceInv, OnlyGiven
      <4>2. held[w] \in 1..jobs
          BY <4>1, Zenon
      <4> QED
          BY <4>2
    <3>4. tmp_file'[held[w]] = "partial" => exit_code'[held[w]] = Other /\ kind[held[w]] = "suite"
        BY <2>7, <3>1, CommunicateWrites DEF FieldInv, PartialCrashed
    <3> QED
        BY <3>1, <3>2, <3>3, <3>4 DEF FieldInv, PartialCrashed
  <2> QED
      BY <2>2, <2>3, <2>4, <2>5, <2>6, <2>7 DEF Next, MainStep, WorkerStep
<1> QED
    BY <1>1, <1>2, <1>3 DEF FieldInv

-----------------------------------------------------------------------------
(* The counts, what run_tests returns and what is in results.xml.          *)

\* How the main thread classifies a job.
Verdict(j) == IF is_break[j] THEN "BREAK" ELSE Status(j)

With(verdict) == {j \in Done : Verdict(j) = verdict}

\* Collected jobs keep their verdict and their entry, and at most one job is
\* collected in a step.
LEMMA DoneStep ==
    ASSUME TypeOK, PlaceInv, [Next]_vars
    PROVE  /\ \A j \in Done : Verdict(j)' = Verdict(j) /\ Entry(j)' = Entry(j)
           /\ \/ Done' = Done /\ collected' = collected
              \/ \E h \in (1..jobs) \ Done :
                   /\ output_queue # <<>> /\ h = Head(output_queue)
                   /\ collected' = collected + 1 /\ Done' = Done \cup {h}
                   /\ Verdict(h)' = Verdict(h) /\ Entry(h)' = Entry(h)
<1>a. jobs \in Nat /\ 1..jobs \subseteq Jobs
    BY MaxJobsAssumption DEF TypeOK, Jobs
<1>1. ASSUME NEW j \in 1..jobs, j \notin Held
      PROVE  Verdict(j)' = Verdict(j) /\ Entry(j)' = Entry(j)
  <2>1. Fields(j)' = Fields(j)
      BY <1>1, FieldsStay
  <2>2. Status(j)' = Status(j)
      BY <2>1 DEF Fields, Status
  <2>3. Verdict(j)' = Verdict(j)
      BY <2>1, <2>2 DEF Fields, Verdict
  <2>4. Entry(j)' = Entry(j)
      BY <2>1, <2>2 DEF Fields, Entry, MergesFile
  <2> QED
      BY <2>3, <2>4
<1>2. \A j \in Done : j \in 1..jobs /\ j \notin Held
    BY <1>a DEF Done, Pending
<1>3. CASE SamePending
    BY <1>1, <1>2, <1>3 DEF SamePending, Done
<1>4. CASE MorePending
  <2>1. Done' = Done
    <3>1. 1..jobs + 1 = (1..jobs) \cup {jobs + 1} /\ jobs + 1 \notin 1..jobs
        BY <1>a
    <3> QED
        BY <1>4, <3>1 DEF MorePending, Done
  <2> QED
      BY <1>1, <1>2, <1>4, <2>1 DEF MorePending
<1>5. CASE LessPending
  <2>1. PICK h \in Pending : /\ h = Head(output_queue) /\ output_queue # <<>>
                             /\ Pending' = Pending \ {h} /\ jobs' = jobs
                             /\ collected' = collected + 1
      BY <1>5 DEF LessPending
  <2>2. h \in Out
      BY <2>1 DEF Out, TypeOK
  <2>3. h \in 1..jobs /\ h \notin Held
      BY <2>1, <2>2 DEF PlaceInv, OnlyGiven, Apart
  <2>4. Done' = Done \cup {h} /\ h \notin Done
      BY <2>1, <2>3 DEF Done
  <2>5. Verdict(h)' = Verdict(h) /\ Entry(h)' = Entry(h)
      BY <2>3, <1>1
  <2> QED
      BY <1>1, <1>2, <2>1, <2>3, <2>4, <2>5
<1> QED
    BY <1>3, <1>4, <1>5, PlaceStep DEF PendingMove

CountsExact == /\ passed_tests = Cardinality(With("PASS"))
               /\ skipped_tests = Cardinality(With("SKIP"))

StatusExact == main = "returned" => /\ collected = jobs
                                    /\ returned = 0 <=> passed_tests + skipped_tests = jobs

VerdictInv == CountsExact /\ StatusExact

LEMMA WithFinite ==
    ASSUME TypeOK, NEW v
    PROVE  IsFiniteSet(With(v)) /\ Cardinality(With(v)) \in Nat
<1>1. IsFiniteSet(1..jobs)
    BY MaxJobsAssumption, FS_Interval DEF TypeOK
<1>2. With(v) \in SUBSET (1..jobs)
    BY DEF With, Done
<1> QED
    BY <1>1, <1>2, FS_Subset, FS_CardinalityType

\* Only the main thread writes the counts, and none of its steps follow its return.
LEMMA VerdictStep ==
    ASSUME TypeOK, PlaceInv, CountInv, VerdictInv, [Next]_vars
    PROVE  VerdictInv'
<1>a. jobs \in Nat /\ collected \in Nat /\ passed_tests \in Nat /\ skipped_tests \in Nat
    BY MaxJobsAssumption DEF TypeOK
<1>1. ASSUME NEW v, Done' = Done
      PROVE  With(v)' = With(v)
    BY <1>1, DoneStep DEF With
<1>2. ASSUME NEW v, NEW h \in (1..jobs) \ Done, Done' = Done \cup {h}, Verdict(h)' = Verdict(h)
      PROVE  Cardinality(With(v))' = Cardinality(With(v)) + (IF Verdict(h) = v THEN 1 ELSE 0)
  <2>1. \A j \in Done : Verdict(j)' = Verdict(j)
      BY DoneStep
  <2>2. With(v)' = IF Verdict(h) = v THEN With(v) \cup {h} ELSE With(v)
    <3>1. \A j : j \in With(v)' <=> j \in With(v) \/ (j = h /\ Verdict(h) = v)
        BY <1>2, <2>1 DEF With
    <3> QED
        BY <3>1, Zenon
  <2>3. h \notin With(v) /\ IsFiniteSet(With(v)) /\ Cardinality(With(v)) \in Nat
      BY <1>2, WithFinite DEF With
  <2>4. Cardinality(With(v) \cup {h}) = Cardinality(With(v)) + 1
      BY <2>3, FS_AddElement
  <2> QED
      BY <2>2, <2>3, <2>4
<1>3. CountsExact'
  <2>1. ASSUME UNCHANGED <<collected, passed_tests, skipped_tests>>
        PROVE  CountsExact'
    <3>1. Done' = Done
        BY <1>a, <2>1, DoneStep
    <3> QED
        BY <1>1, <2>1, <3>1 DEF VerdictInv, CountsExact
  <2>2. CASE CollectBreak \/ CollectResult
    <3>0. collected' = collected + 1
        BY <2>2 DEF CollectBreak, CollectResult
    <3>1. PICK h \in (1..jobs) \ Done : /\ h = Head(output_queue) /\ Done' = Done \cup {h}
                                        /\ Verdict(h)' = Verdict(h)
        BY <1>a, <3>0, DoneStep
    <3>2. CASE CollectBreak
      <4>1. Verdict(h) = "BREAK" /\ UNCHANGED <<passed_tests, skipped_tests>>
          BY <3>1, <3>2 DEF CollectBreak, IsBreakResult, Verdict
      <4>2. /\ Cardinality(With("PASS"))' = Cardinality(With("PASS")) + 0
            /\ Cardinality(With("SKIP"))' = Cardinality(With("SKIP")) + 0
          BY <1>2, <3>1, <4>1
      <4> QED
          BY <1>a, <4>1, <4>2 DEF VerdictInv, CountsExact
    <3>3. CASE CollectResult
      <4>1. /\ Verdict(h) = Status(h)
            /\ passed_tests' = passed_tests + Count("PASS", h)
            /\ skipped_tests' = skipped_tests + Count("SKIP", h)
          BY <3>1, <3>3 DEF CollectResult, IsBreakResult, Verdict
      <4>2. /\ Cardinality(With("PASS"))' = Cardinality(With("PASS")) + Count("PASS", h)
            /\ Cardinality(With("SKIP"))' = Cardinality(With("SKIP")) + Count("SKIP", h)
          BY <1>2, <3>1, <4>1 DEF Count
      <4> QED
          BY <4>1, <4>2 DEF VerdictInv, CountsExact
    <3> QED
        BY <2>2, <3>2, <3>3
  <2> USE DEF mainVars, workerVars
  <2>3. CASE UNCHANGED vars \/ sigint_hook
      BY <2>1, <2>3 DEF vars, sigint_hook
  <2>4. CASE \/ DispatchSuite \/ DispatchExample \/ DispatchPyexample
             \/ SuitesDone \/ ExamplesDone \/ PyexamplesDone \/ ConditionRaises
             \/ DispatchBreaks \/ JoinAndReturn
      BY <2>1, <2>4 DEF DispatchSuite, DispatchExample, DispatchPyexample, Dispatch,
                        SuitesDone, ExamplesDone, PyexamplesDone, ConditionRaises, Goto,
                        DispatchBreaks, JoinAndReturn
  <2>5. ASSUME NEW w \in Workers, WorkerStep(w)
        PROVE  CountsExact'
      BY <2>1, <2>5 DEF WorkerStep, Get, ThrowBack, Skip, Launch, PopenRaises, Communicate
  <2> QED
      BY <2>2, <2>3, <2>4, <2>5 DEF Next, MainStep
<1>4. StatusExact'
  <2> USE DEF mainVars, workerVars
  <2>1. ASSUME UNCHANGED mainVars
        PROVE  StatusExact'
      BY <2>1 DEF VerdictInv, StatusExact
  <2>2. CASE UNCHANGED vars \/ sigint_hook
      BY <2>1, <2>2 DEF vars, sigint_hook
  <2>3. ASSUME NEW w \in Workers, WorkerStep(w)
        PROVE  StatusExact'
      BY <2>1, <2>3 DEF WorkerStep, Get, ThrowBack, Skip, Launch, PopenRaises, Communicate
  <2>4. CASE JoinAndReturn
      BY <1>a, <2>4 DEF JoinAndReturn, AllCollected, StatusExact
  <2>5. CASE \/ DispatchSuite \/ DispatchExample \/ DispatchPyexample
             \/ SuitesDone \/ ExamplesDone \/ PyexamplesDone \/ ConditionRaises
             \/ DispatchBreaks \/ CollectBreak \/ CollectResult
    <3>1. main' # "returned"
        BY <2>5 DEF DispatchSuite, DispatchExample, DispatchPyexample,
                    SuitesDone, ExamplesDone, PyexamplesDone, ConditionRaises, Goto,
                    DispatchBreaks, CollectBreak, CollectResult
    <3> QED
        BY <3>1 DEF StatusExact
  <2> QED
      BY <2>2, <2>3, <2>4, <2>5 DEF Next, MainStep
<1> QED
    BY <1>3, <1>4 DEF VerdictInv

LEMMA VerdictInit == Init => VerdictInv
<1> SUFFICES ASSUME Init PROVE VerdictInv
    OBVIOUS
<1>1. With("PASS") = {} /\ With("SKIP") = {}
    BY DEF Init, With, Done
<1> QED
    BY <1>1, FS_EmptySet DEF Init, VerdictInv, CountsExact, StatusExact

\* What the status of run_tests is worth (ReturnedStatus): when it returns, every
\* job is collected, the counts are those of the verdicts, and a verdict PASS or
\* SKIP is only given to a job whose child ended with 0 or that was to be skipped.
THEOREM StatusJustified == Spec => []ReturnedStatus
<1> DEFINE IInv == TypeOK /\ PlaceInv /\ CountInv /\ FieldInv /\ VerdictInv
<1>1. Init => IInv
    BY TypeInit, PlaceInit, FieldInit, VerdictInit
<1>2. IInv /\ [Next]_vars => IInv'
    BY TypeStep, PlaceStep, CountStep, FieldStep, VerdictStep
<1>3. IInv => ReturnedStatus
  <2> SUFFICES ASSUME TypeOK, PlaceInv, CountInv, FieldInv, VerdictInv, main = "returned"
               PROVE  LET fine == \A j \in 1..jobs : is_skip[j] \/ exit_code[j] = 0
                      IN /\ returned = 0 => fine
                         /\ ~thread_exit /\ ~BadOutput /\ fine => returned = 0
      BY DEF ReturnedStatus
  <2>a. jobs \in Nat /\ 1..jobs \subseteq Jobs /\ passed_tests \in Nat /\ skipped_tests \in Nat
      BY MaxJobsAssumption DEF TypeOK, Jobs
  <2>1. Pending = {}
    <3>1. Cardinality(Pending) = 0
        BY <2>a DEF VerdictInv, StatusExact, CountInv
    <3> QED
        BY <3>1, PendingFinite, FS_EmptySet
  <2>2. Done = 1..jobs
      BY <2>1 DEF Done
  <2>3. \A j \in 1..jobs : is_break[j] \/ Ran(j)
    <3>1. \A j \in 1..jobs : j \notin In \cup Held
        BY <2>1, <2>a DEF Pending
    <3> QED
        BY <3>1 DEF FieldInv, ResultsRan
  <2> DEFINE Good == With("PASS") \cup With("SKIP")
  <2>4. IsFiniteSet(1..jobs) /\ Cardinality(1..jobs) = jobs
      BY <2>a, FS_Interval
  <2>5. Cardinality(Good) = passed_tests + skipped_tests /\ Good \subseteq 1..jobs
    <3>1. With("PASS") \cap With("SKIP") = {} /\ Good \subseteq 1..jobs
        BY <2>2 DEF With
    <3>2. Cardinality(Good) = Cardinality(With("PASS")) + Cardinality(With("SKIP"))
                              - Cardinality(With("PASS") \cap With("SKIP"))
        BY WithFinite, FS_Union
    <3>3. Cardinality(With("PASS") \cap With("SKIP")) = 0
        BY <3>1, FS_EmptySet
    <3> QED
        BY <2>a, <3>1, <3>2, <3>3 DEF VerdictInv, CountsExact
  <2>6. Good = 1..jobs <=> returned = 0
    <3>1. Cardinality(Good) = Cardinality(1..jobs) <=> Good = 1..jobs
        BY <2>4, <2>5, FS_Subset
    <3>2. returned = 0 <=> passed_tests + skipped_tests = jobs
        BY DEF VerdictInv, StatusExact
    <3> QED
        BY <2>4, <2>5, <3>1, <3>2
  <2>7. ASSUME NEW j \in Good
        PROVE  is_skip[j] \/ exit_code[j] = 0
    <3>1. j \in 1..jobs /\ Verdict(j) \in {"PASS", "SKIP"}
        BY <2>2, <2>7 DEF With
    <3>2. ~is_break[j] /\ Status(j) \in {"PASS", "SKIP"}
        BY <3>1 DEF Verdict
    <3>3. is_skip[j] \/ returncode[j] = 0
        BY <3>2 DEF Status
    <3>4. Ran(j)
        BY <2>3, <3>1, <3>2
    <3> QED
        BY <3>3, <3>4 DEF Ran
  <2>8. ASSUME ~thread_exit, ~BadOutput, NEW j \in 1..jobs, is_skip[j] \/ exit_code[j] = 0
        PROVE  j \in Good
    <3>1. ~is_break[j]
        BY <2>8, <2>a DEF FieldInv, BreakOnExit
    <3>2. is_skip[j] \/ returncode[j] = 0
        BY <2>3, <2>8, <3>1 DEF Ran
    <3>3. Status(j) \in {"PASS", "SKIP"}
        BY <3>2 DEF Status
    <3> QED
        BY <2>2, <2>8, <3>1, <3>3 DEF With, Verdict
  <2> HIDE DEF Good
  <2> QED
      BY <2>5, <2>6, <2>7, <2>8
<1> QED
    BY <1>1, <1>2, <1>3, PTL DEF Spec

-----------------------------------------------------------------------------

Texts == {"absent", "partial", "complete", "SKIP", "PASS", "FAIL", "VALGR", "CRASH"}

EntriesTyped == results_xml \in Seq([job : Jobs, text : Texts])

EntriesOnce ==
  \A i, k \in DOMAIN results_xml : results_xml[i].job = results_xml[k].job => i = k

\* An entry is that of a collected job which was not thrown back, as it is now.
EntriesTrue ==
  \A i \in DOMAIN results_xml : \E j \in Done :
     Verdict(j) # "BREAK" /\ results_xml[i] = Entry(j)

EntriesAll == main # "raised" /\ ~thread_exit => Len(results_xml) = collected

XmlInv == EntriesTyped /\ EntriesOnce /\ EntriesTrue /\ EntriesAll

LEMMA EntryType ==
    ASSUME TypeOK, NEW j \in Jobs
    PROVE  Entry(j) \in [job : Jobs, text : Texts] /\ Entry(j).job = j
<1>1. Status(j) \in Texts
    BY DEF Status, Texts
<1>2. tmp_file[j] \in Texts
    BY DEF TypeOK, Texts
<1> QED
    BY <1>1, <1>2 DEF Entry

LEMMA XmlInit == Init => XmlInv
    BY DEF Init, XmlInv, EntriesTyped, EntriesOnce, EntriesTrue, EntriesAll

\* Results.xml grows by at most the entry of the job that is collected.
LEMMA XmlStep ==
    ASSUME TypeOK, PlaceInv, CountInv, FieldInv, XmlInv, [Next]_vars
    PROVE  XmlInv'
<1>a. /\ jobs \in Nat /\ collected \in Nat /\ 1..jobs \subseteq Jobs
      /\ Done \subseteq 1..jobs /\ thread_exit \in BOOLEAN
    BY MaxJobsAssumption DEF TypeOK, Jobs, Done
<1>b. Done \subseteq Done' /\ \A j \in Done : Verdict(j)' = Verdict(j) /\ Entry(j)' = Entry(j)
    BY DoneStep
<1>1. ASSUME results_xml' = results_xml,
             main' = main \/ main' = "raised" \/ main # "raised",
             collected' = collected, thread_exit => thread_exit'
      PROVE  XmlInv'
  <2>1. EntriesTyped' /\ EntriesOnce'
      BY <1>1 DEF XmlInv, EntriesTyped, EntriesOnce
  <2>2. EntriesTrue'
    <3> SUFFICES ASSUME NEW i \in DOMAIN results_xml
                 PROVE  \E j \in Done' : Verdict(j)' # "BREAK" /\ results_xml[i] = Entry(j)'
        BY <1>1 DEF EntriesTrue
    <3>1. PICK j \in Done : Verdict(j) # "BREAK" /\ results_xml[i] = Entry(j)
        BY DEF XmlInv, EntriesTrue
    <3> QED
        BY <1>b, <3>1
  <2>3. EntriesAll'
      BY <1>1 DEF XmlInv, EntriesAll
  <2> QED
      BY <2>1, <2>2, <2>3 DEF XmlInv
<1>2. CASE CollectBreak \/ CollectResult
  <2>0. collected' = collected + 1 /\ thread_exit' = thread_exit /\ main = "collect"
      BY <1>2 DEF CollectBreak, CollectResult
  <2>1. PICK h \in (1..jobs) \ Done : /\ h = Head(output_queue) /\ Done' = Done \cup {h}
                                      /\ Verdict(h)' = Verdict(h) /\ Entry(h)' = Entry(h)
      BY <1>a, <2>0, DoneStep
  <2>2. ASSUME NEW i \in DOMAIN results_xml
        PROVE  \E j \in Done : /\ results_xml[i].job = j /\ j \in Done'
                               /\ Verdict(j)' # "BREAK" /\ results_xml[i] = Entry(j)'
    <3>1. PICK j \in Done : Verdict(j) # "BREAK" /\ results_xml[i] = Entry(j)
        BY DEF XmlInv, EntriesTrue
    <3>2. results_xml[i].job = j
        BY <1>a, <3>1, EntryType
    <3> QED
        BY <1>b, <3>1, <3>2
  <2>3. CASE results_xml' = results_xml /\ (is_break[h] \/ main' = "raised")
    <3>1. EntriesTyped' /\ EntriesOnce'
        BY <2>3 DEF XmlInv, EntriesTyped, EntriesOnce
    <3>2. EntriesTrue'
        BY <2>2, <2>3 DEF EntriesTrue
    <3>3. EntriesAll'
      <4>1. is_break[h] => thread_exit
          BY <1>a DEF FieldInv, BreakOnExit
      <4> QED
          BY <2>0, <2>3, <4>1 DEF EntriesAll
    <3> QED
        BY <3>1, <3>2, <3>3 DEF XmlInv
  <2>4. CASE /\ results_xml' = Append(results_xml, Entry(h)) /\ Verdict(h) # "BREAK"
             /\ main' = main
    <3> DEFINE e == Entry(h)
               R == [job : Jobs, text : Texts]
    <3>1. e \in R /\ e.job = h /\ results_xml \in Seq(R)
        BY <1>a, <2>1, EntryType DEF XmlInv, EntriesTyped
    <3>2. results_xml' \in Seq(R) /\ Len(results_xml') = Len(results_xml) + 1
          /\ \A i \in DOMAIN results_xml' : \/ i \in DOMAIN results_xml /\ results_xml'[i] = results_xml[i]
                                            \/ i = Len(results_xml) + 1 /\ results_xml'[i] = e
      <4> HIDE DEF R, e
      <4>1. results_xml' = Append(results_xml, e)
          BY <2>4 DEF e
      <4> QED
          BY <3>1, <4>1, AppendProperties, AppendElements
    <3>3. EntriesTyped'
        BY <3>2 DEF EntriesTyped
    <3>4. EntriesOnce'
      <4> SUFFICES ASSUME NEW i \in DOMAIN results_xml', NEW k \in DOMAIN results_xml',
                          results_xml'[i].job = results_xml'[k].job
                   PROVE  i = k
          BY DEF EntriesOnce
      <4>1. \A m \in DOMAIN results_xml : results_xml[m].job # e.job
          BY <2>1, <2>2, <3>1
      <4> HIDE DEF e
      <4> QED
          BY <3>2, <4>1 DEF XmlInv, EntriesOnce
    <3>5. EntriesTrue'
      <4> SUFFICES ASSUME NEW i \in DOMAIN results_xml'
                   PROVE  \E j \in Done' : Verdict(j)' # "BREAK" /\ results_xml'[i] = Entry(j)'
          BY DEF EntriesTrue
      <4>1. CASE i \in DOMAIN results_xml /\ results_xml'[i] = results_xml[i]
          BY <2>2, <4>1
      <4>2. CASE results_xml'[i] = e
          BY <2>1, <2>4, <4>2
      <4> HIDE DEF e
      <4> QED
          BY <3>2, <4>1, <4>2
    <3>6. EntriesAll'
        BY <2>0, <2>4, <3>2 DEF XmlInv, EntriesAll
    <3> QED
        BY <3>3, <3>4, <3>5, <3>6 DEF XmlInv
  <2>5. CASE CollectBreak
    <3>1. results_xml' = results_xml /\ is_break[h]
        BY <2>1, <2>5 DEF CollectBreak, IsBreakResult
    <3> QED
        BY <2>3, <3>1
  <2>6. CASE CollectResult
    <3>1. /\ ~is_break[h]
          /\ \/ results_xml' = results_xml /\ main' = "raised"
             \/ results_xml' = Append(results_xml, Entry(h)) /\ main' = main
        BY <2>1, <2>6 DEF CollectResult, IsBreakResult
    <3>2. Verdict(h) # "BREAK"
        BY <3>1 DEF Verdict, Status
    <3> QED
        BY <2>3, <2>4, <3>1, <3>2
  <2> QED
      BY <1>2, <2>5, <2>6
<1> USE DEF mainVars, workerVars
<1>3. CASE UNCHANGED vars \/ sigint_hook
    BY <1>1, <1>3 DEF vars, sigint_hook
<1>4. CASE \/ DispatchSuite \/ DispatchExample \/ DispatchPyexample
           \/ SuitesDone \/ ExamplesDone \/ PyexamplesDone \/ ConditionRaises
           \/ DispatchBreaks \/ JoinAndReturn
    BY <1>1, <1>4 DEF DispatchSuite, DispatchExample, DispatchPyexample, Dispatch,
                      SuitesDone, ExamplesDone, PyexamplesDone, ConditionRaises, Goto,
                      DispatchBreaks, JoinAndReturn
<1>5. ASSUME NEW w \in Workers, WorkerStep(w)
      PROVE  XmlInv'
    BY <1>1, <1>5 DEF WorkerStep, Get, ThrowBack, Skip, Launch, PopenRaises, Communicate
<1> QED
    BY <1>2, <1>3, <1>4, <1>5 DEF Next, MainStep

\* results.xml is true (ResultsMatchJobs): one entry for each job that was run or
\* skipped and collected, none for a job thrown back, and a copied file is complete
\* but for that of a crashed child whose output does not decode.
THEOREM ResultsTrue == Spec => []ResultsMatchJobs
<1> DEFINE IInv == TypeOK /\ PlaceInv /\ CountInv /\ FieldInv /\ VerdictInv /\ XmlInv
<1>1. Init => IInv
    BY TypeInit, PlaceInit, FieldInit, VerdictInit, XmlInit
<1>2. IInv /\ [Next]_vars => IInv'
    BY TypeStep, PlaceStep, CountStep, FieldStep, VerdictStep, XmlStep
<1>3. IInv => ResultsMatchJobs
  <2> SUFFICES ASSUME TypeOK, PlaceInv, CountInv, FieldInv, VerdictInv, XmlInv
               PROVE  ResultsMatchJobs
      OBVIOUS
  <2>a. jobs \in Nat /\ 1..jobs \subseteq Jobs /\ collected \in Nat
      BY MaxJobsAssumption DEF TypeOK, Jobs
  <2>1. ASSUME NEW i \in DOMAIN results_xml
        PROVE  LET j == results_xml[i].job
               IN  /\ is_skip[j] \/ exit_code[j] # NotRun
                   /\ results_xml[i].text = "partial" =>
                        BadOutput /\ exit_code[j] = Other /\ returncode[j] = 1
    <3>1. PICK j \in Done : Verdict(j) # "BREAK" /\ results_xml[i] = Entry(j)
        BY DEF XmlInv, EntriesTrue
    <3>2. j \in Jobs /\ results_xml[i].job = j /\ results_xml[i].text = Entry(j).text
        BY <2>a, <3>1, EntryType DEF Done
    <3>3. Ran(j)
      <4>1. ~is_break[j] /\ j \in 1..jobs /\ j \notin In \cup Held
          BY <3>1, <3>2 DEF Verdict, Done, Pending
      <4> QED
          BY <4>1 DEF FieldInv, ResultsRan
    <3>4. is_skip[j] \/ exit_code[j] # NotRun
        BY <3>3 DEF Ran, Codes, Other, NotRun
    <3>5. ASSUME Entry(j).text = "partial"
          PROVE  BadOutput /\ exit_code[j] = Other /\ returncode[j] = 1
      <4>1. MergesFile(j) /\ tmp_file[j] = "partial"
          BY <3>5 DEF Entry, Status
      <4>2. exit_code[j] = Other /\ ~is_skip[j] /\ returncode[j] \in 0..2
          BY <3>2, <4>1 DEF MergesFile, FieldInv, PartialCrashed
      <4> QED
          BY <3>3, <4>2 DEF Ran, Other
    <3> QED
        BY <3>2, <3>4, <3>5
  <2>2. main = "returned" /\ ~thread_exit => Len(results_xml) = jobs
      BY DEF VerdictInv, StatusExact, XmlInv, EntriesAll
  <2> QED
      BY <2>1, <2>2 DEF ResultsMatchJobs, XmlInv, EntriesOnce
<1> QED
    BY <1>1, <1>2, <1>3, PTL DEF Spec
=============================================================================
