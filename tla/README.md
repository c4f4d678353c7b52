# A verification project for ns-3

ns-3 is a discrete-event network simulator: a C++ library in which a program
builds nodes, devices and protocols, schedules events for simulated times, and
calls `Simulator::Run`. Everything else in the repository - devices, IP, TCP,
Wi-Fi, LTE, routing - is code that runs inside events. This project models that
engine: the event lists, the sequential simulator, the real-time simulator and
the two parallel simulators; of the code inside events, the way of a packet
through traffic control and a device; and of the Python programs around the
library, the two that are concurrent: the test runner and the visualizer. All
paths below are relative to `src/src/`, but for `test.py`, which is in `src/`.

## 1. Inventory

### The engine (modelled)

| Part | State | Operations | Interacts with |
|---|---|---|---|
| Scheduler (`core/model/scheduler.h`) and its implementations `map-`, `list-`, `heap-`, `calendar-`, `priority-queue-scheduler.cc` | the pending events, keyed by time stamp and uid; for the calendar also buckets, width and position of the scan | Insert, PeekNext, RemoveNext, Remove, IsEmpty | called by a simulator, which promises not to insert before the event it runs |
| DefaultSimulatorImpl (`core/model/default-simulator-impl.cc`) | the scheduler, the clock (`m_currentTs`, `m_currentUid`), `m_uid`, `m_stop`, `m_unscheduledEvents`, destroy events, the list of events other threads scheduled and its flag | Schedule, ScheduleNow, ScheduleWithContext, ScheduleDestroy, Remove, Cancel, IsExpired, Stop, Run, Destroy, SetScheduler | user code inside events; reader threads of emulation devices |
| RealtimeSimulatorImpl and WallClockSynchronizer (`core/model/realtime-simulator-impl.cc`, `wall-clock-synchronizer.cc`, `unix-system-condition.cc`) | as above, and the origin of real time, a condition variable | the same, and ScheduleRealtime; Run waits for the wall clock between events | wall clock, reader threads |
| DistributedSimulatorImpl and GrantedTimeWindowMpiInterface (`mpi/model/`) | per rank: event list, clock, lookahead, granted time, counts of messages sent and received | Run with its windows, SendPacket, ReceiveMessages, BoundLookAhead | other ranks through MPI point-to-point messages and collectives |
| NullMessageSimulatorImpl, NullMessageMpiInterface and the remote channel bundles (`mpi/model/`) | per rank: event list, clock, safe time; per neighbour: guarantee and null message event | Run, SendPacket, SendNullMessage, blocking and non-blocking receipt, the null message handler | neighbouring ranks through MPI messages only |
| EventId, EventImpl, Simulator | cancel flag; the key of an event | Cancel, Remove, IsExpired | part of the simulators' modules |

### Inside events (modelled in part)

| Part | State | Operations | Interacts with |
|---|---|---|---|
| Traffic control (`traffic-control/model/traffic-control-layer.cc`, `queue-disc.cc`, `fifo-queue-disc.cc`) | the queue of the root queue disc, the requeued packet, whether it is running | Send, Run, Restart, DequeuePacket, Requeue, Transmit | the layers above; device queues, which stop and wake it |
| Device queue and its flow control (`network/utils/queue.h`, `net-device-queue-interface.cc`, `.h`, `dynamic-queue-limits.cc`) | packets and bytes queued, two reasons for being stopped, byte queue limits | Enqueue, Dequeue, Stop, Wake, NotifyQueuedBytes, NotifyTransmittedBytes | queue disc (through scheduled callbacks), device |
| Point-to-point device (`point-to-point/model/point-to-point-net-device.cc`) | the packet in transmission | Send, TransmitStart, TransmitComplete | device queue, channel |

### Around the library (modelled in part)

| Part | State | Operations | Interacts with |
|---|---|---|---|
| Test runner (`test.py`) | two queues of jobs, one thread per processor, counts, `results.xml` | dispatch jobs and breaks, run a child process, throw a job back, collect and classify | child processes and their results files, Control-C |
| Visualizer (`visualizer/visualizer/core.py`, `visualizer/model/pyviz.cc`) | the lock of the simulator, `go`, `quit`, `target_time`, `pause_messages`, the update timer | update_view_timeout, playing, pausing, changing the speed, closing; SimulationThread.run | GTK main loop (also nested), the simulator |

What is hard in the engine: user code calls back into the simulator from inside an
event; other threads hand events over with a lock and an unlocked flag; the
real-time loop decides on a wait in one critical section and takes an event in
another; messages between ranks are in nobody's event list while they are under
way; all ranks wait for each other; uids and times are machine integers. In the
packet path, a queue can be stopped for two reasons at once, is woken by a
scheduled callback and not by a call, and the packet a queue disc has already
taken out must wait. In the test runner, a flag set by a signal is read by
threads between two queue operations, and every job is waited for by number. In
the visualizer, a callback that waits for the lock runs the GTK main loop inside
itself, so that any other callback can run in its middle.

What makes each part correct:

* schedulers: RemoveNext returns the earliest event, whatever came before,
  including resizes, removals and a change of scheduler;
* sequential simulator: no event lost, none run twice, order by time and then
  by insertion, exact answers of IsExpired, hand-over in bounded time;
* real time: no event early, no wake-up lost, no due event left;
* parallel simulators: causality (no rank runs past a message under way to
  it), guarantees kept, and every rank comes back from Run;
* packet path: a FIFO for each transmission queue, nothing sent twice, nothing
  forgotten in a stopped queue;
* test runner: every job comes back once, 0 means that all children were fine,
  `results.xml` is what the children left, the process ends;
* visualizer: whatever takes the simulator's lock is alone in the simulator (some
  callbacks do not take it, section 4), a simulation that plays goes on and not
  ahead of the view, closing ends both threads.

### The rest (not modelled)

| Part | Where | State and behaviour | Decision |
|---|---|---|---|
| Timer, Watchdog | `core/model/timer.cc`, `watchdog.cc` | one event each, rescheduled, suspended and resumed | planned |
| Packets, nodes | `network/model/` | copy-on-write buffers, tags, protocol handlers | left out: data layout |
| CSMA, bridge, virtual devices | `csma/`, `bridge/`, `virtual-net-device/` | back-off, forwarding tables | candidate: CSMA |
| Other queue discs | `traffic-control/` | dropping policies (RED, CoDel, PIE, FQ), classes | left out: numerical |
| IP, ARP, neighbour discovery, UDP, TCP | `internet/` | caches with timers, connection states, buffers | planned: ARP cache, TCP buffers and states |
| Routing: AODV, DSDV, OLSR, DSR, RIP, global, nix-vector | `aodv/`, `dsdv/`, `olsr/`, `dsr/`, `internet/`, `nix-vector-routing/` | route tables with life times | planned: AODV table |
| Wi-Fi, mesh, wave, LTE, WiMAX, LR-WPAN, UAN, 6LoWPAN | `wifi/`, `mesh/`, `wave/`, `lte/`, `wimax/`, ... | MAC state machines, block ack, RLC | candidates, after the above |
| Spectrum, propagation, antenna, mobility, energy, buildings | `spectrum/`, `propagation/`, ... | real-valued formulas | left out: nothing for a model checker |
| Time, int64x64, random variables | `core/model/` | 128-bit fixed point, generators | left out: numerical |
| Attributes, TypeId, Config, Names, Object | `core/model/` | reflection and set-up | left out: no behaviour over time |
| Applications, emulation devices, helpers, NetAnim, flow monitor, statistics | `applications/`, `tap-bridge/`, `fd-net-device/`, ... | traffic on timers, I/O | left out; the reader threads of emulation devices are the "other threads" of the models |
| Python bindings, waf | `*/bindings/`, `wscript`, `waf-tools/` | see below | left out |

The repository's Python is almost all generated: of its 768,000 lines, some
750,000 are the `bindings/modulegen__gcc_*.py` files, which PyBindGen writes from
the C++ headers, one call per class, method and parameter. They declare and do
not decide: they have no state, no order that matters and nothing a property
could be about, and they repeat each other (a file for ILP32 and one for LP64).
The rest is waf configuration, the binding generator's own scripts, examples, and
the two programs modelled here. So the share of the Python lines that these
models cover is bound to stay small, whatever is added.

The hazards these parts are exposed to, with the line where each bites and the
properties that would catch it, are listed in `PROJECT.json`.

## 2. Modules

| Module | Models | Composes |
|---|---|---|
| `Scheduler` | keys, their order, the earliest of a set | |
| `EventList` | the contract of a scheduler, and the map scheduler, which is a set ordered by key: Insert (never before the event returned last), RemoveNext, Remove | `Scheduler` |
| `ListScheduler` | the sorted list | contract: `EventList` |
| `HeapScheduler` | the binary heap: BottomUp, TopDown, removal from the middle | contract: `EventList` |
| `CalendarScheduler` | the calendar queue: hashing, the scan of the year, resizing, the sampling that estimates a new width | contract: `EventList` |
| `Schedulers` | all schedulers in lock step, and SetScheduler, which drains one into another | the five above |
| `DefaultSimulator` | the sequential simulator | uses `EventList` (refinement) |
| `GrantedTimeWindow`, `MCGrantedTimeWindow` | the window simulator; a topology | `Scheduler` |
| `NullMessage`, `MCNullMessage` | the null message simulator; a topology | `Scheduler` |
| `RealtimeSimulator` | the real-time simulator and the wall clock | `Scheduler` |
| `TrafficControl` | queue disc, device queues with flow control and byte queue limits, transmitters | refines `PacketFifo` |
| `PacketFifo` | what the sending half of a node promises: per transmission queue, a FIFO that may refuse a packet | |
| `TestRunner` | the threads of `test.py` | |
| `Visualizer` | the threads of PyViz | |
| `SchedulersProofs`, `DefaultSimulatorProofs`, `GrantedTimeWindowProofs`, `NullMessageProofs`, `RealtimeSimulatorProofs`, `TrafficControlProofs`, `TestRunnerProofs`, `VisualizerProofs` | theorems (section 5) | the module of the same name |

Variables keep the names of the code's members (`m_events`, `m_uid`,
`m_grantedTime`, ...); an action has the name of the method it models, or of the
step of it. A variable `pc` says where a thread or rank is; each module's header
lists its values. `PROJECT.json` maps every definition to its lines.

**Atomicity.** A step is what other threads or ranks cannot see the middle of.
In `DefaultSimulator` the unlocked read of `m_eventsWithContextEmpty`, the swap
under the mutex and the insertion of the collected events are three steps; user
code may do any number of calls in an event, each a step. In
`RealtimeSimulator` each critical section is a step, and Signal is one with the
insertion: it sets the flag before it takes the lock of the condition variable,
so a waiter that has seen the flag unset is inside `pthread_cond_timedwait` when
the signal comes. In the parallel simulators a rank's local code between two
MPI calls commutes with everything other ranks do and is merged into the steps
around it; a collective is one step of all ranks. In `TrafficControl` nothing is
concurrent: handlers are events of the sequential simulator. The run of a queue
disc is one step per packet, but no other handler begins while it is under way
(`Idle`), and wakes are counted per transmission queue because they are
scheduled, not called. In `TestRunner` the operations of a `Queue`, the read of
`thread_exit` and the run of a child are steps. In `Visualizer` a step ends
wherever a thread touches what the other one uses: `go`, `quit`, the lock; a
callback of GTK is entered only from the main loop, and `frames` is the stack of
`update_view_timeout` calls that wait inside each other.

**Abstractions.** The function of an event is the calls it makes, chosen freely.
Contexts (node ids) are left out, no code of the engine orders by them. Trace
sources, logs and reference counts are left out; the reference count of an
event matters only for memory. Time is a natural number of steps. In
`DefaultSimulator` an event has a number `n` in addition to its key: it stands
for the `EventImpl`, which also the list of the other threads holds, and is given
when a thread hands the event over, before it has a key; the histories `made`,
`ids`, `ran`, `removed` and `waiting` are there for the properties only. The member `m_events` is a set there, for
`Schedulers` shows that all schedulers are one (the heap up to finding 1); so the
two together say what a simulation with any of them does. In the parallel simulators MPI is external:
messages are not lost, those between two ranks stay in order (the window
simulator does not rely on the order, and its network is a set), and a channel
stands for all channels of its delay, for the device queues in front of them are
not modelled. In `TrafficControl` a packet is its number, size and transmission
queue; the limit that `DynamicQueueLimits::Completed` computes is any of `Limits`,
so what is shown does not depend on how it adapts; a device with several queues
is several point-to-point transmitters, for the device that has several, Wi-Fi,
lets each queue contend for itself. In `TestRunner` a job is its number, an exit
code is 0, 1, 2 or another, and a results file is absent, partial or complete. In
`Visualizer` what callbacks draw is left out; a callback is where it is, whether it
holds the lock, and whether it is one that uses the simulator without
(`UnlockedCallback`).

## 3. Runs

| Run | Bounds | States | Shows |
|---|---|---|---|
| `schedulers` | delays 0, 1, 5; times to 7; five events made, five pending at most | 34,040 | every scheduler implements `EventList`, they agree on every event, also when one is exchanged for another at any moment |
| `default_simulator` | delays 0, 1; three events; times to 3 | 245,552 | the properties of section 1, and liveness |
| `granted_time_window` | two ranks with a fast and a slow channel and a third rank without any; three calls; one Run | 95,040 | causality, exact end, liveness |
| `null_message` | the same topology; three calls; all stop at time 5 | 371,325 | guarantees, causality, liveness |
| `realtime_simulator` | delays 0, 2; three events; five values of the wall clock | 311,050 | pacing, wake-ups, liveness |
| `traffic_control` | four packets of sizes 1 and 3, MTU 3, header 1; one or two transmission queues of no or one packet, three or five bytes; byte queue limits off, or with limits 0 and 4; quota 4 | 233,900 | FIFO refinement, no stall but behind a queue too small for a frame, liveness |
| `test_runner` | two workers, two jobs of any kind | 62,848 | accounting of jobs, status, results, liveness |
| `visualizer` | three user actions, four timers, times to 3, periods 1 and 2 | 142,244 | who may be in the simulator, pacing, timers, liveness |
| `heap_remove` | seven pending events | violation | finding 1 |
| `granted_time_window_rerun` | two Runs | violation | finding 2 |
| `null_message_sends` | events that go on after transmitting | violation | finding 3 |
| `realtime_timedwait` | a second of four ticks | violation | finding 4 |

Why the bounds are enough for the cases that matter:

* `schedulers`: the calendar starts with two buckets, so five events make it
  grow and removals shrink it again; delay 5 is longer than a year of the small
  calendar, so that the direct search is used; delay 0 makes equal times. Five
  events give the heap two inner nodes. With six or more the heap is wrong
  (finding 1), which is why the bound is five. The theorems (section 5) have no
  bound: with more events all four properties hold until the first Remove of the
  kind finding 1 describes.
* `default_simulator`: three events suffice for one running, one pending and one
  with another thread, and for two of equal time. `UidMod` 7 is the least
  modulus at which three uids do not wrap.
* parallel runs: with a fast and a slow channel a later message overtakes an
  earlier one and windows differ in what they admit; the rank without channels
  has an infinite lookahead (or waits for nobody) and still takes part in every
  collective. Chains of three ranks were checked without a violation while the
  models were built; their state spaces are too large to keep as runs.
* `realtime_simulator`: the wall clock runs past the latest event by more than
  `HardLimit`, so late, early and fatal outcomes occur, as do sleeps, spins and
  time-outs of the idle wait. `Second` is large in that run so that no wait ends
  on a full second; `realtime_timedwait` is about those that do.
* `traffic_control`: four packets are one in transmission, one in the device
  queue, one requeued and one behind it; two are refused when the queue disc
  (two packets) is full. Sizes 1 and 3 make a queue of five bytes stop after one
  large packet or two small ones, and let a frame of MTU and header not fit
  where the MTU does. A queue of three bytes has room for the MTU and not for the
  header: small packets go through it, a large one is discarded even when it is
  empty. A queue of no packets takes none. The limit 0 stops the queue after every packet.
* `test_runner`: two workers and two jobs give every order of taking, throwing
  back and collecting; the module was also checked with three jobs (2.5 million
  states).
* `visualizer`: with three actions the user can pause, play and change the speed
  inside a waiting update, or close the window there; four timer ids are one more
  than can be started.

Deadlock checking is off where a simulation may simply be over (`schedulers`,
`default_simulator`, `realtime_simulator`, with their calls used up;
`traffic_control`, when all is sent; `test_runner` and `visualizer`, when the
process has ended), and in `null_message`, where AllReturn is the stronger
statement. The stronger statement is also there for the last three: AllSent,
ProcessEnds and QuitTerminates.

**Properties by hazard.** StructuresOrdered is the representation invariant of
heap and calendar (heap order, sorted buckets, position of the scan); SchedulersAgree,
ImplementEventList and InOrder are what they are for. UsesEventList says that
the simulator keeps its side of the contract, also for an event another thread
scheduled with a delay that becomes a time only when it is collected.
ExpiredIffGone relates IsExpired, which sees only the clock and the cancel bit,
to what is really pending. CollectedInTime bounds the hand-over in spite of the
unlocked flag. WindowMovesWhenQuiet says that equal counts mean an empty
network, although the counts of different ranks are taken at different moments.
GuaranteeKept and GuaranteeGrows are what a null message promises. NoLostWakeup
is about the gap between deciding on a wait and waiting. NoStall says who will
run a queue disc that has packets and is not running, ImplementsPacketFifo that
requeueing keeps the order, AllSent that it all comes to an end; NoStall and
AllSent name the one exception, a transmission queue that is too small for a frame
and was stopped while it was empty (`StoppedForEver`). NoEventLost follows every
event from the moment a thread gives it, through the list shared with other
threads, its local copy and the scheduler, to its end. OnlyUnlockedOverlap says
that the two threads of the visualizer meet in the simulator in the callbacks that
take no lock, and nowhere else. NoJobLost and
BreaksLast are the accounting that the waits of `test.py` rely on; ReturnedStatus
and ResultsMatchJobs relate what it reports to how the children really ended
(the history `exit_code`). PlayingHasTimer, NotAheadOfView, PauseDelivered and
QuitTerminates are about callbacks in the middle of a waiting callback and about
`go` being set, cleared and merged by two threads.

**Fairness.** `WF(Main)` of the sequential and the real-time simulator: the main
thread is scheduled by the operating system and the functions it calls return;
nothing is assumed of user code or other threads. `WF(Tick)`: time passes. In
the parallel simulators `WF(Loop(r))` says the same of every rank, and
`WF(Allgather)` that a collective that all ranks have entered completes. In
`GrantedTimeWindow`, `SF(ReceiveMessage(r))` is MPI's progress rule: a rank that
tests for messages again and again, and leaves the receive loop in between,
receives one that was sent; the code relies on it, for it repeats the round
until the counts agree. Liveness is checked with a bounded number of calls, so
user code cannot starve the loop by scheduling for ever. `TrafficControl`: every
event that is scheduled runs, which `default_simulator` shows of the simulator.
`TestRunner`: threads are scheduled and child processes end; Control-C may come
or not. `Visualizer`: both threads run, GTK calls an expired timer and an idle
callback; nothing is assumed of the user. Two strong fairness conditions: the
nested main loop of a waiting update again and again has no event pending, for
timers are a sample period apart, and then tries the lock (`Retry`); and the
simulation thread gets a lock that is again and again free (`SimAcquire`).

## 4. Findings

1. `heap_remove`: `HeapScheduler::Remove` moves the last event into the hole and
   only sifts it down (`heap-scheduler.cc:239`). If it is earlier than the parent
   of the hole, events come out of order.
2. `granted_time_window_rerun`: `Run` opens all windows from zero although ranks
   may have been stopped at different times (`distributed-simulator-impl.cc:233`);
   a message then reaches a rank in its past, against the assertion of
   `ProcessOneEvent`.
3. `null_message_sends`: the guarantee sent with a packet is computed in the
   middle of an event that may transmit or schedule more
   (`null-message-simulator-impl.cc:584`); the next packet can break it.
   In `null_message`, where an event ends with its transmission, all guarantees
   are kept.
4. `realtime_timedwait`: `TimedWait` does not carry a sum of exactly one second
   of nanoseconds (`unix-system-condition.cc:187`), gets EINVAL for ever and never
   times out.

Seen while modelling, without a run of their own.

In the engine: `m_uid` is 32 bits wide and wraps unchecked
(`default-simulator-impl.cc:243`), and events of one time then run out of order,
against the FIFO order `simulator.h:59` promises (a run of `DefaultSimulator` with
`UidMod` below `MaxEvents + 4` shows it); events of the stop time run if they were scheduled before `Stop(delay)`, which the text at `simulator.h:161`
can be read to exclude; a null message handler reaches the assertion of `Next`
on a rank with one bundle, no event and no stop event; a second `Run` of the
real-time simulator restarts real time at zero under a clock that goes on; an
event that another thread schedules between `m_running = true` and `SetOrigin`
gets the time of day as its time; `ScheduleRealtimeWithContext` leaves the
context of its key uninitialised; an attribute of a channel that lowers its delay
during a Run breaks the lookahead, which is computed when Run begins;
`Timer::Suspend` cancels the event only with two of the three destroy policies.

In the packet path: a run that uses up its quota schedules nothing
(`queue-disc.cc:967`), so that packets can wait for the next Send although the
device is idle - with a quota of 1 NoStall is violated, and so it is with a
quota of 2 if the queue disc holds 3 packets and a queue of 8 bytes with queue
limits takes two small ones at once; with the code's 64 it takes 64 packets that
fit in a device queue that was just woken. A device queue that is limited in bytes
can discard a packet (`net-device-queue-interface.h:391`, "This should not
happen"), for the MTU is looked for without the device's header. If the queue is
empty then, `PacketDiscarded` (line 399) stops it "until there is room in the
queue again", and that is for ever: only a packet that leaves wakes it, and there
is none. `MaxSize` is a free attribute, and 1500 bytes with an MTU of 1500 and the
2 bytes of the PPP header are enough; so is a queue of 0 packets. NoStall and
AllSent make an exception of just this state (`StoppedForEver`). There is no third
way to stall a queue disc (*TwoWaysToStall* in section 5).

In `test.py`: an exception of `Popen` leaves the main thread waiting for a result
that does not come, and an exception of `eval` before the breaks leaves the
workers waiting (`Stuck`); a child that crashes after printing bytes that do not
decode has its return code turned into 1 (`test.py:818`), so a missing results
file ends the run with an exception and a partial one is merged, against the
comment at `test.py:1825`; the return code of `--print-test-name-list` is not
looked at (`test.py:1347`), so no suites is a success.

In PyViz: "NS 3 is not thread safe, so it could cause serious problems", says
`core.py:1489`, and most callbacks take the lock of the simulator, but three use it
without, while the simulation thread may run events: `autoscale_view`
(`core.py:1507`, called by a timer 200 ms after the start, line 1547) asks every
node for its position (1231); the menu of a node (1638) asks the node for OLSR
(`plugins/olsr.py:121`); the tooltip of a Wi-Fi link (1716) asks the station for its
MAC (`plugins/wifi_intrastructure_link.py:100`). The model has them as
`UnlockedCallback`, and TLC shows both threads in the simulator then
(`~(GuiInSimulator /\ SimInSimulator)` as an invariant is violated); what comes of
it depends on when the generated bindings release Python's own lock, which is not
in the repository, but while an event written in Python runs the other thread can
get it in any case.
Pausing and then changing the speed inside a waiting update starts a
timer which the outer call then forgets (`core.py:1456`): it fires once and stops
itself, or, if the user plays first, goes on beside the new timer until the next
pause; `m_stop` of `pyviz.cc` is never read;
the IPython shell, whose commands would take the lock a second time, is
switched off by its import (`core.py:65`).

## 5. Proofs

TLAPS checks every theorem for all values of the constants that satisfy the
named assumptions of the modules: any number of ranks, workers, jobs, queues and
events, any topology, any delays, sizes and periods. Of the properties the
passing runs check, all are proved but the liveness properties. The assumptions say what the code gives: ranks are numbered from 0
(`RanksAssumption`), uids begin at 4 (`BoundsAssumption`), delays are natural
numbers (`CallsAssumption`), GLib has an id for
every timer that can be started (`TimerIdsAssumption`). The sizes of device queues
are any numbers (`DeviceMaxAssumption`). A hypothesis of a single
theorem is written in it; each is needed, for TLC finds a violation without it.

| Theorem with a hypothesis | Hypothesis | Without it |
|---|---|---|
| SimulatorUsesEventList, SimulatorFifo, IsExpiredExact, UnscheduledCountExact | `NoWrap`: `m_uid` does not wrap | events of one time run out of order (section 4) |
| WindowIsConservative, NeverInPast | `MaxRuns = 1` | finding 2; a second Run of the real-time simulator (section 4) |
| GrantedTimesInRange | the largest time plus a delay or a bound is a time | the sum overflows |
| GuaranteesKept, CausalityKept, GuaranteesGrow | `MoreAfterSend = FALSE` | finding 3 |
| NullEventKept | `StopTimes # {}`: every rank has a stop event | the assertion of `Next` (section 4) |
| OnlyNarrowQueuesStall | `Quota > MaxSize` | the quota stalls the queue disc (section 4) |
| WideQueuesDoNotStall | `Quota > MaxSize`; room for a packet, or for MTU plus header, in an empty device queue | the quota, or a queue stopped for ever (section 4) |
| StructuresStayOrdered, SchedulersAlwaysAgree, SchedulersImplementContract | `[][HeapSpared]_allVars`: no Remove puts the last event of the heap under a later parent | finding 1 |
| FiveEventsInOrder (the three together) | `MaxSize <= 5` | finding 1, which takes six events |

* `SchedulersProofs`. *ContractInvariant*: nothing pending is behind the event
  returned last and uids are unique; *RemovalInOrder* and *SchedulersInOrder*: keys
  are returned in strictly increasing order. *StructuresStayOrdered*,
  *SchedulersAlwaysAgree* and *SchedulersImplementContract* rest on `SchedulersInv`,
  which adds to the run's two invariants what they need to be inductive: the list is
  sorted strictly (`ListInv`), the heap holds no event twice (`HeapInv`), the
  calendar holds `m_qSize` events (`CalInv`; a resize samples as many), and the uids
  of all events are below `m_uid` (`UserInv`). Each operation has a lemma per scheduler.
  + List: insertion before the first later event keeps a sorted sequence sorted; an
    element found by uid is the event searched (`ListInsert`, `ListRemove`).
  + Heap: while BottomUp runs the order is broken at most between its element and
    the parent, while TopDown runs at most between its element and the children
    (`Climbing`, `Descending`). Each iteration ends the loop or moves the index
    towards the root or the bottom, so that as many iterations as there are
    elements suffice (`HeapPush`, `HeapExtract`).
  + Calendar: `Ready` says that every event is in the sorted bucket of its time
    stamp and none before the interval of `lastPrio`. Then the first bucket of the
    scan with an event inside its interval holds the earliest event of all (`CalHit`,
    where the arithmetic of `Hash` is), and so does the minimum of the buckets when
    there is none. Taking samples off and putting them back, and inserting everything
    into new buckets of whatever width, keep the events (`CalPutBack`, `CalDoResize`).
    This holds for both values of Reverse.

  `HeapSpared` is not only sufficient. *HeapOrderNeedsSpared*: the heap stays
  ordered in a behaviour if and only if no Remove puts the last event under a
  later parent, for TopDown then leaves that event where it is. So finding 1 is
  not a matter of its instance: every such call on an ordered heap breaks it, and
  no other call does. With at most five events there is no such place
  (*FiveEventsInOrder*): the parent is the root or the last event's own.
* `DefaultSimulatorProofs`. *TypeCorrect*: TypeOK, with the local list of events
  empty outside the loop that collects them (`LocalList`).
  *SimulatorUsesEventList*: the simulator refines `EventList`, and
  *SimulatorFifo*, from `KeyInv`: uids increase with the order of insertion
  and count the events inserted, which are those given less those still in the two
  lists (`UidsInOrder`), so keys are unique, and every pending event is after the
  current one (`PendingAfterCurrent`). *IsExpiredExact*: ExpiredIffGone, from
  `IdsTracked`: an id that is after the clock is pending or cancelled.
  *HandOverInTime*: CollectedInTime, from what the flag, the two lists and the
  place of the main thread say about events still waiting. *UnscheduledCountExact*:
  each step that changes the set changes the counter by one. `Remove` subtracts one
  without a look into the scheduler, which is right because IsExpired is exact. 
  *EventsAccounted*: NoEventLost, for events as they are given, by the main thread or
  another one. Its invariant (`LostInv`) adds that an event is in one place
  (`OnePlace`), no list has one twice and an id with uid 2 is that of a destroy
  event (`NoneTwice`); each step moves at most one event from one place to another
  (`MoveLost`), adds one (`PostLost`), or swaps the two lists (`SwapLost`). It needs no `NoWrap`: events are told apart by number, so it holds
  across the wrap, too.
* `GrantedTimeWindowProofs`. *TypeCorrect*. *WindowQuiet* and *EndIsGlobal*, in
  any number of Runs, from `Counting`: the messages sent exceed those received
  by exactly those under way. Sums over ranks are cardinalities of sets of
  pairs, so that adding one is adding an element. `Ended` adds that once a rank
  is finished globally all are and nothing is under way.
  *WindowIsConservative*: Causality, from `Conservative`: there is a time `s`
  at which the current windows begin (`WindowFrom`) such that every pending event
  of a running rank, and the clock of every rank in an event, is at or after `s`;
  granted times are at most `s` plus the delay of any channel of the rank; and a
  message under way is at or after the granted time of its receiver, whose clock
  is at or before it. Minima are treated through a lemma on least elements of sets
  of naturals. *GrantedTimesInRange*: GrantedTimeRepresentable, from `InRange`:
  lookaheads can be added to any time.
* `NullMessageProofs`. *TypeCorrect*. *NullEventKept*: OneNullEvent, with
  `StopPending`: the stop event is there when a null message handler calls `Next`.
  *GuaranteesKept*, *CausalityKept* and *GuaranteesGrow* come from one invariant,
  `Guarantees`. `RankInv`: the clock of a rank is at or before its safe time and all
  its pending events, and the safe time at or before each of its guarantees. `LinkInv`, of each pair of
  neighbours: what is under way is ordered, each message keeps the guarantees before
  it, and what the sender has promised last is a *floor* of the sender plus the
  delay, where a floor is a time nothing the sender still has to do is before.
  `Quiet`: nothing is under way between ranks that are not neighbours. The
  argument is that a floor stays a floor, whatever the rank runs or receives: what
  it receives is itself behind a guarantee.
* `RealtimeSimulatorProofs`. *TypeCorrect*; *PacingKept*: NeverEarly, from `Awaited`:
  while the main thread waits some event is due by the time waited for, and when it
  takes one some event is due by the wall clock; *WakeupsKept*:
  NoLostWakeup, which relates the time waited for to the events inserted since
  it was read; *NeverInPast*: NotInPast, from `ClockBehind`:
  `m_currentTs` is not ahead of the wall clock.
* `TrafficControlProofs`. Each action is first reduced to what it does to the
  parts that matter (`Move`: `Sending`, `Ending`, `Transmitting`, `Waking`,
  `Completing`). `TypeInv` includes `Working`, of each device queue: a queue that is
  stopped, for whichever reason, is not empty, unless it is too small for a frame
  (`Narrow`), its transmitter is busy while packets are queued, and the bytes in
  progress are those in the queue (`Ledger`: a sum as a function of prefixes).
  *TwoWaysToStall*, for any quota and any sizes: if packets are tended (`Tended`) they
  still are after every step, unless it has used up the quota or a queue is now
  stopped for ever. *EmptyStopIsForEver*: such a queue is never woken, so the
  exception of NoStall is a stall and not an excuse. *OnlyNarrowQueuesStall*: NoStall,
  for a run has quota for all that waits; *WideQueuesDoNotStall*: without a queue too
  small for a frame there is no exception. *SendingIsFifo*: the model
  implements `PacketFifo`. The lemmas on `For` (what remains for a queue when a
  packet joins at the end or leaves at the front) and on `Ids` make every move an
  `Accept`, `Refuse`, `Leave` or `Discard`, or no step; requeueing is none because
  the requeued packet and the queue together stay what they were.
* `TestRunnerProofs`. *TypeCorrect*. *JobsAccounted*: NoJobLost, as a count of the
  places a job is in. *BreaksBehindJobs*: BreaksLast, with what has been dispatched
  when, and that a worker has left its loop only by a break. *StatusJustified* and
  *ResultsTrue*: ReturnedStatus and ResultsMatchJobs, from what is known of a job by
  where it is - not run, run and in the output queue, collected and counted.
* `VisualizerProofs`. *OverlapOnlyUnlocked*: OnlyUnlockedOverlap, for the lock is
  held by exactly the thread that is where the code has it (`LockExact`). *ViewKeepsUp*: NotAheadOfView, with
  the target the simulation thread may still run to. *TimerAlive*: PlayingHasTimer is
  inductive as it stands: `update_view_timeout` ends its timer only when it finds
  the play button released, and whoever replaces the timer on record starts one.
  *TypeCorrect* counts timer ids to show that a
  fresh one exists.

Recursion and sums were the difficulty, for the library's induction theorems cannot
be applied. The loops of the heap and the calendar are recursive functions of the
number of iterations, as `For` is one of the queue: such a function exists, by a
least counterexample (`LoopExists`), and if each iteration stays in what the
invariant of the loop allows, all its values do (`Stays`). Counts are cardinalities
of sets to which one element is added at a time.

Only model-checked: the liveness properties (EventuallyRun, RunEnds, AllReturn,
ProcessEnds, QuitTerminates, PauseDelivered, TimeAdvances, AllSent), for fairness
is out of the prover's reach; and the four violations, each a behaviour TLC shows.

## 6. Not modelled, and plan

Done: the engine, in the order schedulers, sequential simulator, window
simulator, null messages, real time; the packet path; the test runner and the
visualizer; the proofs above.

Of the modelled parts, these operations are missing, because they repeat what
another module shows or do not interact with what is modelled: Cancel, Remove and
Destroy in the real-time and parallel simulators (those of `DefaultSimulator`);
the freeing of send buffers and the set-up of MPI; classes, filters and Peek of
queue discs; the path of a packet up; the choice of tests and the rewriting of
`results.xml` in `test.py`; everything of PyViz that draws.

The rest of section 1 is not modelled for the reasons given there. Next, if the
models grow:

1. `Timer` and `Watchdog` over an event list: a suspended timer does not fire,
   a watchdog fires once, after the last ping.
2. The ARP cache: entry states, pending packets, retries and time-outs; every
   waiting packet is sent or dropped.
3. TCP buffers against an abstract byte stream, then connection states of two
   sockets over a lossy network.
4. AODV route tables of several nodes: loop freedom from sequence numbers.
5. Candidates after that: CSMA back-off, block acknowledgement, LTE RLC AM,
   DHCP leases.
