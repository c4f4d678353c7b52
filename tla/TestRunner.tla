----------------------------- MODULE TestRunner -----------------------------
(***************************************************************************)
(* test.py: the main thread dispatches test suites, examples and Python    *)
(* examples as jobs to worker threads, then one "break" job per worker,    *)
(* and collects exactly as many results as it dispatched jobs.  A worker   *)
(* runs a job as a child process; Control-C only sets thread_exit, and the *)
(* workers then throw the jobs back.  The main thread classifies results,  *)
(* writes results.xml and returns 0 if all tests passed or were skipped.   *)
(*                                                                         *)
(* Names, paths, commands, printing and timing are left out.  A job is its *)
(* number; which jobs there are is chosen while they are dispatched.       *)
(***************************************************************************)
EXTENDS Integers, Sequences, FiniteSets

CONSTANTS Workers,    \* the worker threads, one per processor
          MaxJobs,    \* bound on the jobs of one invocation of test.py
          PopenFails, \* may subprocess.Popen raise an exception?
          BadOutput   \* may a child print bytes that do not decode?

ASSUME WorkersAssumption == IsFiniteSet(Workers) /\ Workers # {}
ASSUME MaxJobsAssumption == MaxJobs \in Nat
ASSUME FaultsAssumption == {PopenFails, BadOutput} \subseteq BOOLEAN

VARIABLES main,          \* where run_tests is
          jobs,          \* the jobs dispatched: the variables jobs and total_tests
          kind, is_skip, is_break, returncode, \* fields of the jobs
          input_queue, output_queue,
          thread_exit,   \* set by sigint_hook
          worker, held,  \* where each worker is, and the job it has taken
          tmp_file,      \* what a suite left in its temporary results file
          collected,     \* the index i of the loop that collects results
          passed_tests, skipped_tests,
          results_xml,   \* the entries written so far
          returned,      \* what run_tests returned
          exit_code      \* history: how the child process of a job really ended

mainVars == <<main, jobs, collected, passed_tests, skipped_tests, results_xml, returned>>
workerVars == <<worker, held, tmp_file, exit_code, returncode>>
vars == <<mainVars, workerVars, kind, is_skip, is_break, input_queue, output_queue, thread_exit>>

Jobs == 1..MaxJobs
Break == 0 \* the job made only to tell a worker to stop
Kinds == {"suite", "example", "pyexample"}

\* Exit codes: 0, 1 and 2 are the test runner's and valgrind's, Other is any other.
Other == 3
Codes == 0..Other
NotRun == -1

Init ==
  /\ main = "suites" /\ jobs = 0
  /\ kind = [j \in Jobs |-> "suite"]
  /\ is_skip = [j \in Jobs |-> FALSE]
  /\ is_break = [j \in Jobs |-> FALSE]
  /\ returncode = [j \in Jobs |-> 0] \* False, which is equal to 0
  /\ input_queue = <<>> /\ output_queue = <<>>
  /\ thread_exit = FALSE
  /\ worker = [w \in Workers |-> "get"]
  /\ held = [w \in Workers |-> Break]
  /\ tmp_file = [j \in Jobs |-> "absent"]
  /\ exit_code = [j \in Jobs |-> NotRun]
  /\ collected = 0 /\ passed_tests = 0 /\ skipped_tests = 0
  /\ results_xml = <<>>
  /\ returned = NotRun

-----------------------------------------------------------------------------
(* The main thread dispatches.                                             *)

Dispatch(k, skip) ==
  /\ jobs < MaxJobs
  /\ jobs' = jobs + 1
  /\ kind' = [kind EXCEPT ![jobs + 1] = k]
  /\ is_skip' = [is_skip EXCEPT ![jobs + 1] = skip]
  /\ input_queue' = Append(input_queue, jobs + 1)
  /\ UNCHANGED <<collected, passed_tests, skipped_tests, results_xml, returned, workerVars,
                 is_break, output_queue, thread_exit>>

\* A suite is skipped under valgrind or without NSC when it is in the list for that.
DispatchSuite == main = "suites" /\ main' = main /\ \E skip \in BOOLEAN : Dispatch("suite", skip)

DispatchExample == main = "examples" /\ main' = main /\ \E skip \in BOOLEAN : Dispatch("example", skip)

DispatchPyexample == main = "pyexamples" /\ main' = main /\ \E skip \in BOOLEAN : Dispatch("pyexample", skip)

Goto(from, to) ==
  /\ main = from /\ main' = to
  /\ UNCHANGED <<jobs, collected, passed_tests, skipped_tests, results_xml, returned, workerVars,
                 kind, is_skip, is_break, input_queue, output_queue, thread_exit>>

SuitesDone == Goto("suites", "examples")
ExamplesDone == Goto("examples", "pyexamples")
PyexamplesDone == Goto("pyexamples", "breaks")

\* A condition of an examples-to-run.py is evaluated with eval, which may raise.
ConditionRaises == Goto("examples", "raised") \/ Goto("pyexamples", "raised")

\* Mutant: the breaks get in front of the jobs.
MutantBreaksFirst ==
  /\ main = "breaks" /\ main' = "collect"
  /\ input_queue' = [i \in 1..Cardinality(Workers) |-> Break] \o input_queue
  /\ UNCHANGED <<jobs, collected, passed_tests, skipped_tests, results_xml, returned, workerVars,
                 kind, is_skip, is_break, output_queue, thread_exit>>

\* Mutant: one break for all workers.
MutantOneBreak ==
  /\ main = "breaks" /\ main' = "collect"
  /\ input_queue' = Append(input_queue, Break)
  /\ UNCHANGED <<jobs, collected, passed_tests, skipped_tests, results_xml, returned, workerVars,
                 kind, is_skip, is_break, output_queue, thread_exit>>

DispatchBreaks ==
  /\ main = "breaks" /\ main' = "collect"
  /\ input_queue' = input_queue \o [i \in 1..Cardinality(Workers) |-> Break]
  /\ UNCHANGED <<jobs, collected, passed_tests, skipped_tests, results_xml, returned, workerVars,
                 kind, is_skip, is_break, output_queue, thread_exit>>

-----------------------------------------------------------------------------
(* The main thread collects.                                               *)

Status(j) ==
  CASE is_skip[j] -> "SKIP"
    [] ~is_skip[j] /\ returncode[j] = 0 -> "PASS"
    [] ~is_skip[j] /\ returncode[j] = 1 -> "FAIL"
    [] ~is_skip[j] /\ returncode[j] = 2 -> "VALGR"
    [] OTHER -> "CRASH"

\* A suite that ended with 0, 1 or 2 is believed to have left its results in its file.
MergesFile(j) == kind[j] = "suite" /\ ~is_skip[j] /\ returncode[j] \in 0..2

Entry(j) == [job |-> j, text |-> IF MergesFile(j) THEN tmp_file[j] ELSE Status(j)]

\* Mutant: the result of a job that was thrown back is classified like the others.
MutantIsBreakResult(j) == FALSE

\* A result that was thrown back is counted by the loop and by nothing else.
IsBreakResult(j) == is_break[j]

CollectBreak ==
  /\ main = "collect" /\ collected < jobs /\ output_queue # <<>>
  /\ IsBreakResult(Head(output_queue))
  /\ output_queue' = Tail(output_queue)
  /\ collected' = collected + 1
  /\ UNCHANGED <<main, jobs, passed_tests, skipped_tests, results_xml, returned, workerVars,
                 kind, is_skip, is_break, input_queue, thread_exit>>

Count(s, j) == IF Status(j) = s THEN 1 ELSE 0

\* Opening a temporary file that is not there raises an exception.
CollectResult ==
  LET j == Head(output_queue)
      raises == MergesFile(j) /\ tmp_file[j] = "absent"
  IN /\ main = "collect" /\ collected < jobs /\ output_queue # <<>>
     /\ ~IsBreakResult(j)
     /\ output_queue' = Tail(output_queue)
     /\ collected' = collected + 1
     /\ passed_tests' = passed_tests + Count("PASS", j)
     /\ skipped_tests' = skipped_tests + Count("SKIP", j)
     /\ main' = IF raises THEN "raised" ELSE main
     /\ results_xml' = IF raises THEN results_xml ELSE Append(results_xml, Entry(j))
     /\ UNCHANGED <<jobs, returned, workerVars, kind, is_skip, is_break, input_queue, thread_exit>>

Dead(w) == worker[w] \in {"returned", "raised"}

AllCollected == collected = jobs

\* Waits for the threads, then writes the summary and returns.
JoinAndReturn ==
  /\ main = "collect" /\ AllCollected /\ \A w \in Workers : Dead(w)
  /\ main' = "returned"
  /\ returned' = IF passed_tests + skipped_tests = jobs THEN 0 ELSE 1
  /\ UNCHANGED <<jobs, collected, passed_tests, skipped_tests, results_xml, workerVars,
                 kind, is_skip, is_break, input_queue, output_queue, thread_exit>>

-----------------------------------------------------------------------------
(* The worker threads: worker_thread.run.                                  *)

Get(w) ==
  /\ worker[w] = "get" /\ input_queue # <<>>
  /\ input_queue' = Tail(input_queue)
  /\ IF Head(input_queue) = Break
     THEN worker' = [worker EXCEPT ![w] = "returned"] /\ held' = held
     ELSE /\ worker' = [worker EXCEPT ![w] = "check"]
          /\ held' = [held EXCEPT ![w] = Head(input_queue)]
  /\ UNCHANGED <<mainVars, tmp_file, exit_code, returncode, kind, is_skip, is_break,
                 output_queue, thread_exit>>

Put(w) ==
  /\ output_queue' = Append(output_queue, held[w])
  /\ held' = [held EXCEPT ![w] = Break]
  /\ worker' = [worker EXCEPT ![w] = "get"]

\* Mutant: after Control-C the job is dropped and not thrown back.
MutantThrowBack(w) ==
  /\ worker[w] = "check" /\ thread_exit
  /\ is_break' = [is_break EXCEPT ![held[w]] = TRUE]
  /\ held' = [held EXCEPT ![w] = Break]
  /\ worker' = [worker EXCEPT ![w] = "get"]
  /\ UNCHANGED <<mainVars, tmp_file, exit_code, returncode, kind, is_skip, input_queue,
                 output_queue, thread_exit>>

\* thread_exit is looked at once per job, before the child is started.
ThrowBack(w) ==
  /\ worker[w] = "check" /\ thread_exit
  /\ is_break' = [is_break EXCEPT ![held[w]] = TRUE]
  /\ Put(w)
  /\ UNCHANGED <<mainVars, tmp_file, exit_code, returncode, kind, is_skip, input_queue, thread_exit>>

Skip(w) ==
  /\ worker[w] = "check" /\ ~thread_exit /\ is_skip[held[w]]
  /\ Put(w)
  /\ UNCHANGED <<mainVars, tmp_file, exit_code, returncode, kind, is_skip, is_break,
                 input_queue, thread_exit>>

Launch(w) ==
  /\ worker[w] = "check" /\ ~thread_exit /\ ~is_skip[held[w]]
  /\ worker' = [worker EXCEPT ![w] = "communicate"]
  /\ UNCHANGED <<mainVars, held, tmp_file, exit_code, returncode, kind, is_skip, is_break,
                 input_queue, output_queue, thread_exit>>

\* The exception ends the thread; the job it had taken is in no queue any more.
PopenRaises(w) ==
  /\ PopenFails /\ worker[w] = "communicate"
  /\ worker' = [worker EXCEPT ![w] = "raised"]
  /\ UNCHANGED <<mainVars, held, tmp_file, exit_code, returncode, kind, is_skip, is_break,
                 input_queue, output_queue, thread_exit>>

\* What is left in the results file of a child that ended with code: the test
\* runner creates the file when it starts and completes it when it returns.
FilesAfter(code) == IF code = Other THEN {"absent", "partial", "complete"} ELSE {"complete"}

\* Mutant: output that does not decode is forgiven.
MutantRetval(code, decodes) == IF decodes THEN code ELSE 0

\* Output that does not decode turns the return code into 1, whatever it was.
Retval(code, decodes) == IF decodes THEN code ELSE 1

Communicate(w) ==
  \E code \in Codes, decodes \in {TRUE, ~BadOutput} :
    /\ worker[w] = "communicate"
    /\ exit_code' = [exit_code EXCEPT ![held[w]] = code]
    /\ returncode' = [returncode EXCEPT ![held[w]] = Retval(code, decodes)]
    /\ IF kind[held[w]] = "suite"
       THEN \E f \in FilesAfter(code) : tmp_file' = [tmp_file EXCEPT ![held[w]] = f]
       ELSE UNCHANGED tmp_file
    /\ Put(w)
    /\ UNCHANGED <<mainVars, kind, is_skip, is_break, input_queue, thread_exit>>

-----------------------------------------------------------------------------

\* Control-C at any moment.
sigint_hook ==
  /\ ~thread_exit /\ thread_exit' = TRUE
  /\ UNCHANGED <<mainVars, workerVars, kind, is_skip, is_break, input_queue, output_queue>>

MainStep ==
  \/ DispatchSuite \/ DispatchExample \/ DispatchPyexample
  \/ SuitesDone \/ ExamplesDone \/ PyexamplesDone \/ ConditionRaises
  \/ DispatchBreaks \/ CollectBreak \/ CollectResult \/ JoinAndReturn

WorkerStep(w) ==
  Get(w) \/ ThrowBack(w) \/ Skip(w) \/ Launch(w) \/ PopenRaises(w) \/ Communicate(w)

Next == MainStep \/ (\E w \in Workers : WorkerStep(w)) \/ sigint_hook

\* Threads are scheduled fairly, a child process ends, and the lists of tests are finite.
Fairness == WF_vars(MainStep) /\ \A w \in Workers : WF_vars(WorkerStep(w))

Spec == Init /\ [][Next]_vars /\ Fairness

-----------------------------------------------------------------------------

\* Types of the variables: the queues hold jobs and breaks, a worker that holds
\* no job is waiting for one or has ended.
TypeOK ==
  /\ main \in {"suites", "examples", "pyexamples", "breaks", "collect", "returned", "raised"}
  /\ jobs \in 0..MaxJobs /\ collected \in 0..jobs
  /\ passed_tests \in 0..collected /\ skipped_tests \in 0..collected
  /\ kind \in [Jobs -> Kinds]
  /\ is_skip \in [Jobs -> BOOLEAN] /\ is_break \in [Jobs -> BOOLEAN]
  /\ returncode \in [Jobs -> Codes] /\ exit_code \in [Jobs -> Codes \cup {NotRun}]
  /\ tmp_file \in [Jobs -> {"absent", "partial", "complete"}]
  /\ input_queue \in Seq(Jobs \cup {Break}) /\ output_queue \in Seq(Jobs)
  /\ thread_exit \in BOOLEAN
  /\ worker \in [Workers -> {"get", "check", "communicate", "returned", "raised"}]
  /\ held \in [Workers -> Jobs \cup {Break}]
  /\ \A w \in Workers : held[w] = Break <=> worker[w] \in {"get", "returned"}
  /\ returned \in {NotRun, 0, 1}

\* Where a dispatched job is: the positions in the queues and the workers that hold it.
Places(j) ==
  {<<"in", i>> : i \in {k \in DOMAIN input_queue : input_queue[k] = j}} \cup
  {<<"out", i>> : i \in {k \in DOMAIN output_queue : output_queue[k] = j}} \cup
  {<<"held", w>> : w \in {v \in Workers : held[v] = j}}

\* No job is lost or doubled between the threads: the results the main thread
\* still waits for are exactly the jobs that are in one of the queues or held by
\* a worker, each in one place, and a job nobody dispatched is nowhere.
NoJobLost ==
  /\ \A j \in Jobs : Cardinality(Places(j)) <= (IF j <= jobs THEN 1 ELSE 0)
  /\ jobs - collected = Cardinality({j \in Jobs : Places(j) # {}})

\* The breaks are behind all jobs: when a worker has left its loop no job is in the
\* queue, and while the main thread waits there is a break for each worker still
\* in its loop, whatever the workers took and in whichever order.
BreaksLast ==
  /\ (\E w \in Workers : worker[w] = "returned") => \A i \in DOMAIN input_queue : input_queue[i] = Break
  /\ \A i, k \in DOMAIN input_queue : input_queue[i] = Break /\ i < k => input_queue[k] = Break
  /\ main \in {"collect", "returned"} =>
       Cardinality({i \in DOMAIN input_queue : input_queue[i] = Break})
         = Cardinality({w \in Workers : worker[w] # "returned"})

\* What the status of run_tests is worth: 0 means that the child of every job that
\* was not to be skipped ended with 0, and without Control-C the converse holds for
\* children whose output decodes.
ReturnedStatus ==
  main = "returned" =>
    LET fine == \A j \in 1..jobs : is_skip[j] \/ exit_code[j] = 0
    IN /\ returned = 0 => fine
       /\ ~thread_exit /\ ~BadOutput /\ fine => returned = 0

\* results.xml has one entry for each job that was run or skipped and collected, and
\* none for a job that was thrown back after Control-C.  What is copied from a results
\* file is complete ("If the return code is 0, 1, or 2, we have a valid xml file"), but
\* for that of a crashed child whose output does not decode.
ResultsMatchJobs ==
  /\ \A i, k \in DOMAIN results_xml : results_xml[i].job = results_xml[k].job => i = k
  /\ \A i \in DOMAIN results_xml : LET j == results_xml[i].job IN is_skip[j] \/ exit_code[j] # NotRun
  /\ main = "returned" /\ ~thread_exit => Len(results_xml) = jobs
  /\ \A i \in DOMAIN results_xml :
       results_xml[i].text = "partial" =>
         BadOutput /\ exit_code[results_xml[i].job] = Other /\ returncode[results_xml[i].job] = 1

Ended == main \in {"returned", "raised"} /\ \A w \in Workers : Dead(w)

\* Two exceptions leave threads waiting for each other for ever: one in a worker, whose
\* result the main thread waits for, and one before the breaks are dispatched.
Stuck == (\E w \in Workers : worker[w] = "raised")
         \/ (main = "raised" /\ collected = 0)

\* The process ends: after Control-C at any moment, and also when the main thread
\* dies of a missing results file, for the breaks are then already in the queue.
ProcessEnds == <>(Ended \/ Stuck)

=============================================================================
