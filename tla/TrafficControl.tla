--------------------------- MODULE TrafficControl ---------------------------
(***************************************************************************)
(* Flow control between the traffic control layer and a device: the layer  *)
(* enqueues a packet in the root queue disc (FifoQueueDisc) and lets it    *)
(* run; the queue disc hands packets to the device until the transmission  *)
(* queue is stopped; the device stops it when there is no room for another *)
(* packet, or when its queue limits (BQL, DynamicQueueLimits) are reached, *)
(* and wakes the queue disc again when it has taken a packet out.          *)
(*                                                                         *)
(* A device has one or more transmission queues.  Each is a drop-tail      *)
(* queue with a transmitter of its own, after PointToPointNetDevice (which *)
(* has one; Wi-Fi, the device with several, lets each of them contend for  *)
(* itself).  Handlers are events of a sequential simulator: none begins    *)
(* while the queue disc runs.                                              *)
(***************************************************************************)
EXTENDS Integers, Sequences, SequencesExt

CONSTANTS Sizes,       \* sizes of the packets of the layers above
          Mtu,
          HeaderSize,  \* of the header the device adds
          MaxSize,     \* of the queue disc, in packets
          DeviceMaxPackets, DeviceMaxBytes, \* values of MaxSize of the transmission
                       \* queues, by its unit
          TxCounts,    \* numbers of transmission queues
          Quota,
          Limits,      \* values DynamicQueueLimits can choose, in bytes
          MaxPackets   \* bound on the number of packets sent

ASSUME SizesAssumption == Mtu \in Nat /\ HeaderSize \in Nat /\ Sizes \subseteq 1..Mtu
ASSUME BoundsAssumption ==
  /\ {MaxSize, MaxPackets} \subseteq Nat /\ Limits \subseteq Nat
  /\ Quota \in Nat \ {0} /\ TxCounts \subseteq Nat \ {0}
ASSUME DeviceMaxAssumption == DeviceMaxPackets \cup DeviceMaxBytes \subseteq Nat

VARIABLES config,   \* how the device is set up
          sent,     \* number of packets the layers above have sent
          disc,     \* the internal queue of the queue disc
          requeued, \* m_requeued, a sequence of at most one packet
          quota,    \* what is left of the quota of a run, 0 when none is under way
          dev       \* by transmission queue, its state

vars == <<config, sent, disc, requeued, quota, dev>>

Queues == UNION {1..n : n \in TxCounts}

-----------------------------------------------------------------------------
(* DynamicQueueLimits.  numQueued and numCompleted only matter by their    *)
(* difference, the bytes in progress, and how a new limit is found from    *)
(* what was queued and completed before is left open.                      *)

\* The limits that Completed can choose, if there are queue limits at all.
NewLimits == IF config.bql THEN Limits ELSE {0}

Reset == [limit |-> 0, inprogress |-> 0]

Available(l) == l.limit - l.inprogress

Queued(l, count) == [l EXCEPT !.inprogress = @ + count]

Completed(l, count, limit) == [limit |-> limit, inprogress |-> l.inprogress - count]

-----------------------------------------------------------------------------
(* NetDeviceQueue: stops and wakes a transmission queue.                   *)

IsStopped(d) == d.stoppedByDevice \/ d.stoppedByQueueLimits

Stop(d) == [d EXCEPT !.stoppedByDevice = TRUE]

\* The callback that runs the queue disc is scheduled, not called.
Wake(d) == [d EXCEPT !.stoppedByDevice = FALSE,
                     !.wakes = IF d.stoppedByDevice THEN @ + 1 ELSE @]

NotifyQueuedBytes(d, bytes) ==
  IF ~config.bql THEN d
  ELSE LET l == Queued(d.limits, bytes)
       IN [d EXCEPT !.limits = l, !.stoppedByQueueLimits = @ \/ Available(l) < 0]

\* Mutant: the queue is started again and the queue disc is not told.
MutantNotifyTransmittedBytes(d, bytes, limit) ==
  IF ~config.bql THEN d
  ELSE LET l == Completed(d.limits, bytes, limit)
       IN [d EXCEPT !.limits = l, !.stoppedByQueueLimits = @ /\ Available(l) < 0]

NotifyTransmittedBytes(d, bytes, limit) ==
  IF ~config.bql THEN d
  ELSE LET l == Completed(d.limits, bytes, limit)
           room == Available(l) >= 0
       IN [d EXCEPT !.limits = l,
                    !.stoppedByQueueLimits = @ /\ ~room,
                    !.wakes = IF room /\ d.stoppedByQueueLimits THEN @ + 1 ELSE @]

\* Queue::GetCurrentSize () + item <= Queue::GetMaxSize ()
Fits(d, size) ==
  IF config.unit = "packets" THEN Len(d.queue) + 1 <= config.max
  ELSE d.nBytes + size <= config.max

PacketEnqueued(d, p) ==
  LET e == NotifyQueuedBytes(d, p.size) IN IF Fits(e, Mtu) THEN e ELSE Stop(e)

\* Mutant: the queue is started, not woken.
MutantPacketDequeued(d, p, limit) ==
  LET e == NotifyTransmittedBytes(d, p.size, limit)
  IN IF Fits(e, Mtu) THEN [e EXCEPT !.stoppedByDevice = FALSE] ELSE e

PacketDequeued(d, p, limit) ==
  LET e == NotifyTransmittedBytes(d, p.size, limit) IN IF Fits(e, Mtu) THEN Wake(e) ELSE e

PacketDiscarded(d) == Stop(d)

-----------------------------------------------------------------------------
(* A transmission queue (DropTailQueue) and its transmitter.               *)

Enqueue(d, p) ==
  IF Fits(d, p.size)
  THEN PacketEnqueued([d EXCEPT !.queue = Append(@, p), !.nBytes = @ + p.size], p)
  ELSE PacketDiscarded(d)

Dequeue(d, limit) ==
  LET p == Head(d.queue)
  IN PacketDequeued([d EXCEPT !.queue = Tail(@), !.nBytes = @ - p.size], p, limit)

\* The channel schedules the reception of the packet, after a delay that is the same
\* for all; the packet leaves the model when its transmission is complete.
TransmitStart(d, p) == [d EXCEPT !.current = <<p>>]

AddHeader(p) == [p EXCEPT !.size = @ + HeaderSize]

\* PointToPointNetDevice::Send: a packet goes through the queue even if it is idle.
DeviceSend(d, p, limit) ==
  LET e == Enqueue(d, AddHeader(p))
  IN IF d.current # <<>> \/ ~Fits(d, AddHeader(p).size) THEN e
     ELSE TransmitStart(Dequeue(e, limit), Head(e.queue))

-----------------------------------------------------------------------------

Init ==
  /\ config \in [ntx : TxCounts, unit : {"packets"}, max : DeviceMaxPackets, bql : BOOLEAN]
               \cup [ntx : TxCounts, unit : {"bytes"}, max : DeviceMaxBytes, bql : BOOLEAN]
  /\ sent = 0 /\ disc = <<>> /\ requeued = <<>> /\ quota = 0
  /\ dev = [q \in Queues |->
              [queue |-> <<>>, nBytes |-> 0, current |-> <<>>, wakes |-> 0,
               stoppedByDevice |-> FALSE, stoppedByQueueLimits |-> FALSE, limits |-> Reset]]

Idle == quota = 0 \* m_running is false

\* TrafficControlLayer::Send: enqueue the packet if there is room, then run.
Send(q, size) ==
  /\ Idle /\ sent < MaxPackets
  /\ sent' = sent + 1
  /\ disc' = IF Len(disc) + 1 > MaxSize THEN disc
             ELSE Append(disc, [id |-> sent + 1, size |-> size, txq |-> q])
  /\ quota' = Quota
  /\ UNCHANGED <<config, requeued, dev>>

\* QueueDisc::DequeuePacket: the requeued packet comes first, and waits for its queue.
\* The only queue is asked beforehand whether it is stopped, one of several is not.
DequeuePacket ==
  IF requeued # <<>>
  THEN IF IsStopped(dev[Head(requeued).txq]) THEN <<>> ELSE requeued
  ELSE IF disc # <<>> /\ (config.ntx > 1 \/ ~IsStopped(dev[1])) THEN <<Head(disc)>> ELSE <<>>

\* What is left of the queue when DequeuePacket has taken a packet.
Left == IF requeued # <<>> THEN disc ELSE Tail(disc)

RestartNoPacket ==
  /\ ~Idle /\ DequeuePacket = <<>>
  /\ quota' = 0
  /\ UNCHANGED <<config, sent, disc, requeued, dev>>

\* Mutant: the packet goes back to the end of the queue.
MutantRestartRequeue ==
  /\ ~Idle /\ DequeuePacket # <<>>
  /\ LET item == DequeuePacket[1]
     IN /\ IsStopped(dev[item.txq])
        /\ requeued' = <<>> /\ disc' = Append(Left, item)
  /\ quota' = 0
  /\ UNCHANGED <<config, sent, dev>>

RestartRequeue ==
  /\ ~Idle /\ DequeuePacket # <<>>
  /\ LET item == DequeuePacket[1]
     IN /\ IsStopped(dev[item.txq])
        /\ requeued' = <<item>> /\ disc' = Left
  /\ quota' = 0
  /\ UNCHANGED <<config, sent, dev>>

\* The run ends when the queue disc is empty, the queue is now stopped, or the quota
\* is used up (and then nobody will run it again but the next Send or wake).
RestartTransmit ==
  /\ ~Idle /\ DequeuePacket # <<>>
  /\ LET item == DequeuePacket[1]
     IN /\ ~IsStopped(dev[item.txq])
        /\ requeued' = <<>> /\ disc' = Left
        /\ \E limit \in NewLimits : dev' = [dev EXCEPT ![item.txq] = DeviceSend(@, item, limit)]
        /\ quota' = IF disc' = <<>> \/ IsStopped(dev'[item.txq]) THEN 0 ELSE quota - 1
  /\ UNCHANGED <<config, sent>>

Restart == RestartNoPacket \/ RestartRequeue \/ RestartTransmit

\* The callback of NetDeviceQueue::Wake, QueueDisc::Run of the root.
WakeCallback(q) ==
  /\ Idle /\ dev[q].wakes > 0
  /\ dev' = [dev EXCEPT ![q].wakes = @ - 1]
  /\ quota' = Quota
  /\ UNCHANGED <<config, sent, disc, requeued>>

TransmitComplete(q) ==
  /\ Idle /\ dev[q].current # <<>>
  /\ LET d == [dev[q] EXCEPT !.current = <<>>]
     IN IF d.queue = <<>> THEN dev' = [dev EXCEPT ![q] = d]
        ELSE \E limit \in NewLimits :
               dev' = [dev EXCEPT ![q] = TransmitStart(Dequeue(d, limit), Head(d.queue))]
  /\ UNCHANGED <<config, sent, disc, requeued, quota>>

Step == Restart \/ \E q \in Queues : WakeCallback(q) \/ TransmitComplete(q)

Next == Step \/ \E q \in 1..config.ntx, size \in Sizes : Send(q, size)

\* The simulator runs every event that is scheduled: each is of a finite time.
Fairness ==
  /\ WF_vars(Restart)
  /\ \A q \in Queues : WF_vars(WakeCallback(q)) /\ WF_vars(TransmitComplete(q))

Spec == Init /\ [][Next]_vars /\ Fairness

-----------------------------------------------------------------------------

Ids(packets) == [i \in DOMAIN packets |-> packets[i].id]

\* The packets for queue q, in order.
For(q, packets) ==
  LET F[i \in 0..Len(packets)] ==
        IF i = 0 THEN <<>>
        ELSE IF packets[i].txq = q THEN Append(F[i - 1], packets[i]) ELSE F[i - 1]
  IN F[Len(packets)]

\* The packets of a queue that are on their way, the oldest first.
InTransit(q) == Ids(dev[q].current \o dev[q].queue \o For(q, requeued \o disc))

\* Not even an empty transmission queue is sure to have room for a packet.
Narrow == IF config.unit = "packets" THEN config.max = 0 ELSE config.max < Mtu + HeaderSize

Lossy == config.unit = "bytes" \/ Narrow

P == INSTANCE PacketFifo WITH lossy <- Lossy,
                              last <- sent, fifo <- [q \in Queues |-> InTransit(q)]

\* The queue disc, the transmission queues and the transmitter together are a FIFO: requeued
\* packets are neither overtaken, nor sent twice, nor forgotten.  PacketDiscarded "should
\* not happen if the device correctly stops the queue", and it does not when the size of
\* the queue is in packets, and not 0.  In bytes it does: the room that is looked for is the MTU,
\* and the header of the device comes on top of it.
ImplementsPacketFifo == P!Spec

\* The queue was empty when it was stopped, by a packet that does not fit: only taking a
\* packet out wakes a queue, and there is none.
StoppedForEver(q) == Narrow /\ dev[q].stoppedByDevice /\ dev[q].queue = <<>>

\* Packets wait for somebody: for the run that is under way, for a wake that is scheduled,
\* or for a stopped queue that is being emptied.
Tended ==
  Idle /\ requeued \o disc # <<>> =>
    \E q \in Queues : \/ dev[q].wakes > 0
                      \/ IsStopped(dev[q]) /\ dev[q].current # <<>> /\ dev[q].queue # <<>>

\* No packet waits in the queue disc for nobody, but where a queue is stopped for ever:
\* PacketDiscarded stops it "until there is room in the queue again", and nobody looks
\* for room in an empty queue.  One of 1500 bytes, with an MTU of 1500 and the 2 bytes of
\* the PPP header, is stopped so by the first full packet that meets it empty.
NoStall == Tended \/ \E q \in Queues : StoppedForEver(q)

\* All packets that were accepted leave the node: after every burst of packets the queue
\* disc is run until it is empty, although nobody sends again - or a queue without room
\* for a full packet has been stopped for ever.
AllSent == \/ <>[](\A q \in Queues : InTransit(q) = <<>>)
           \/ <>[](\E q \in Queues : StoppedForEver(q))

=============================================================================
