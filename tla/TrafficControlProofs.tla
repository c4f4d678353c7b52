------------------------ MODULE TrafficControlProofs ------------------------
(***************************************************************************)
(* Proofs about TrafficControl, for any number of transmission queues and  *)
(* any sizes and limits.                                                   *)
(***************************************************************************)
EXTENDS TrafficControl, WellFoundedInduction, SequenceTheorems, TLAPS

Packet == [id : Nat, size : Nat, txq : Queues]

QueueLimits == [limit : Nat, inprogress : Int]

Device == [queue : Seq(Packet), nBytes : Int, current : Seq(Packet), wakes : Nat,
           stoppedByDevice : BOOLEAN, stoppedByQueueLimits : BOOLEAN, limits : QueueLimits]

Config == [ntx : TxCounts, unit : {"packets", "bytes"}, max : Nat, bql : BOOLEAN]

LEMMA Assumptions ==
    /\ Mtu \in Nat /\ HeaderSize \in Nat /\ Sizes \subseteq Nat /\ \A s \in Sizes : s <= Mtu
    /\ MaxSize \in Nat /\ MaxPackets \in Nat /\ Limits \subseteq Nat
    /\ Quota \in Nat /\ Quota # 0 /\ TxCounts \subseteq Nat
    /\ DeviceMaxPackets \subseteq Nat /\ DeviceMaxBytes \subseteq Nat
    BY SizesAssumption, BoundsAssumption, DeviceMaxAssumption

-----------------------------------------------------------------------------
(* NetDeviceQueue.                                                         *)

LEMMA QueuedBytes ==
    ASSUME config \in Config, NEW d \in Device, NEW bytes \in Nat
    PROVE  LET e == NotifyQueuedBytes(d, bytes) IN
           /\ e \in Device /\ e.queue = d.queue /\ e.nBytes = d.nBytes /\ e.current = d.current
           /\ e.wakes = d.wakes /\ e.stoppedByDevice = d.stoppedByDevice
           /\ config.bql = TRUE => e.limits.inprogress = d.limits.inprogress + bytes
           /\ config.bql = FALSE => e = d
<1>a. config.bql \in BOOLEAN
    BY DEF Config
<1>1. CASE config.bql = FALSE
    BY <1>1 DEF NotifyQueuedBytes
<1>2. CASE config.bql = TRUE
  <2> DEFINE l == Queued(d.limits, bytes)
             flag == d.stoppedByQueueLimits \/ Available(l) < 0
  <2>1. NotifyQueuedBytes(d, bytes) = [d EXCEPT !.limits = l, !.stoppedByQueueLimits = flag]
      BY <1>2 DEF NotifyQueuedBytes
  <2>2. l \in QueueLimits /\ l.inprogress = d.limits.inprogress + bytes
      BY DEF Queued, QueueLimits, Device
  <2>3. flag \in BOOLEAN
      BY Zenon
  <2> HIDE DEF l, flag
  <2> QED
      BY <1>2, <2>1, <2>2, <2>3 DEF Device
<1> QED
    BY <1>a, <1>1, <1>2

\* Bytes that leave start the queue again when they leave room, and the queue disc is
\* told; there is room when no bytes are left.
LEMMA TransmittedBytes ==
    ASSUME config \in Config, NEW d \in Device, NEW bytes \in Nat, NEW limit \in Nat
    PROVE  LET e == NotifyTransmittedBytes(d, bytes, limit) IN
           /\ e \in Device /\ e.queue = d.queue /\ e.nBytes = d.nBytes /\ e.current = d.current
           /\ e.stoppedByDevice = d.stoppedByDevice /\ d.wakes <= e.wakes
           /\ config.bql = TRUE =>
                /\ e.limits.inprogress = d.limits.inprogress - bytes
                /\ e.limits.inprogress = 0 => e.stoppedByQueueLimits = FALSE
           /\ config.bql = FALSE => e = d
           /\ e.stoppedByQueueLimits = TRUE => d.stoppedByQueueLimits = TRUE
           /\ d.stoppedByQueueLimits = TRUE => e.stoppedByQueueLimits = TRUE \/ e.wakes > 0
<1>a. config.bql \in BOOLEAN
    BY DEF Config
<1>b. d.wakes \in Nat /\ d.stoppedByQueueLimits \in BOOLEAN
    BY DEF Device
<1>1. CASE config.bql = FALSE
  <2>1. NotifyTransmittedBytes(d, bytes, limit) = d
      BY <1>1 DEF NotifyTransmittedBytes
  <2> QED
      BY <1>1, <1>b, <2>1
<1>2. CASE config.bql = TRUE
  <2> DEFINE l == Completed(d.limits, bytes, limit)
             room == Available(l) >= 0
             more == IF room /\ d.stoppedByQueueLimits THEN d.wakes + 1 ELSE d.wakes
             flag == d.stoppedByQueueLimits /\ ~room
  <2>1. NotifyTransmittedBytes(d, bytes, limit)
          = [d EXCEPT !.limits = l, !.stoppedByQueueLimits = flag, !.wakes = more]
      BY <1>2 DEF NotifyTransmittedBytes
  <2>2. /\ l \in QueueLimits /\ l.inprogress = d.limits.inprogress - bytes
        /\ l.inprogress = 0 => room
      BY DEF Completed, QueueLimits, Device, Available
  <2>3. more \in Nat /\ d.wakes <= more
      BY <1>b
  <2>4. flag \in BOOLEAN /\ (room => flag = FALSE) /\ (flag = TRUE => d.stoppedByQueueLimits = TRUE)
      BY <1>b, Zenon
  <2>5. d.stoppedByQueueLimits = TRUE => flag = TRUE \/ more > 0
      BY <1>b
  <2> HIDE DEF l, flag, more, room
  <2>6. [d EXCEPT !.limits = l, !.stoppedByQueueLimits = flag, !.wakes = more] \in Device
      BY <2>2, <2>3, <2>4 DEF Device
  <2> QED
      BY <1>2, <2>1, <2>2, <2>3, <2>4, <2>5, <2>6 DEF Device
<1> QED
    BY <1>a, <1>1, <1>2

LEMMA Woken ==
    ASSUME NEW d \in Device
    PROVE  LET e == Wake(d) IN
           /\ e \in Device /\ e.queue = d.queue /\ e.nBytes = d.nBytes /\ e.current = d.current
           /\ e.stoppedByDevice = FALSE /\ e.stoppedByQueueLimits = d.stoppedByQueueLimits
           /\ e.limits = d.limits /\ d.wakes <= e.wakes
           /\ d.stoppedByDevice = TRUE => e.wakes > 0
<1> DEFINE more == IF d.stoppedByDevice THEN d.wakes + 1 ELSE d.wakes
<1>1. more \in Nat /\ d.wakes <= more /\ (d.stoppedByDevice = TRUE => more > 0)
    BY DEF Device
<1>2. Wake(d) = [d EXCEPT !.stoppedByDevice = FALSE, !.wakes = more]
    BY DEF Wake
<1> HIDE DEF more
<1> QED
    BY <1>1, <1>2 DEF Device

LEMMA Stopped ==
    ASSUME NEW d \in Device
    PROVE  LET e == Stop(d) IN
           /\ e \in Device /\ e.queue = d.queue /\ e.nBytes = d.nBytes /\ e.current = d.current
           /\ e.stoppedByDevice = TRUE /\ e.stoppedByQueueLimits = d.stoppedByQueueLimits
           /\ e.limits = d.limits /\ d.wakes = e.wakes
    BY DEF Stop, Device

-----------------------------------------------------------------------------
(* A transmission queue and its transmitter.                               *)

\* total is the sum of the sizes of the packets: c[i] is that of the first i.
Ledger(packets, total) ==
    \E c \in [0..Len(packets) -> Int] :
        /\ c[0] = 0 /\ c[Len(packets)] = total
        /\ \A i \in 1..Len(packets) : c[i] = c[i - 1] + packets[i].size

\* The transmitter works while packets are queued; a queue that is stopped is not
\* empty, unless it is too small for a full packet; the limits know what is in the
\* queue; and a queue that is not stopped has room for another packet, unless it is
\* one that can discard.
Working(d) ==
    /\ d.queue # <<>> => d.current # <<>>
    /\ Len(d.current) <= 1
    /\ d.stoppedByDevice = TRUE => d.queue # <<>> \/ Narrow
    /\ d.stoppedByQueueLimits = TRUE => d.queue # <<>>
    /\ config.bql = TRUE => d.limits.inprogress = d.nBytes
    /\ config.bql = FALSE => d.stoppedByQueueLimits = FALSE
    /\ ~Lossy /\ d.stoppedByDevice = FALSE => Len(d.queue) + 1 <= config.max
    /\ Ledger(d.queue, d.nBytes)

LEMMA LedgerTail ==
    ASSUME NEW s \in Seq(Packet), s # <<>>, NEW total \in Int, Ledger(s, total)
    PROVE  Ledger(Tail(s), total - Head(s).size)
<1> DEFINE n == Len(s)
<1>1. n \in Nat /\ n > 0 /\ Head(s) = s[1]
    OBVIOUS
<1>2. PICK t : t = Tail(s)
    OBVIOUS
<1>3. /\ Len(t) = n - 1 /\ \A i \in 1..n - 1 : t[i] = s[i + 1]
    BY <1>2
<1>4. \A i \in 1..n : s[i].size \in Nat
  <2>1. \A i \in 1..n : s[i] \in Packet
      OBVIOUS
  <2> QED
      BY <2>1 DEF Packet
<1>5. PICK c \in [0..n -> Int] :
        /\ c[0] = 0 /\ c[n] = total
        /\ \A i \in 1..n : c[i] = c[i - 1] + s[i].size
    BY DEF Ledger
<1> DEFINE b == [i \in 0..n - 1 |-> c[i + 1] - c[1]]
<1> HIDE DEF n
<1>6. c[1] = s[1].size /\ c[1] \in Int /\ c[n] \in Int
    BY <1>1, <1>4, <1>5
<1>7. b \in [0..n - 1 -> Int]
    BY <1>1, <1>5
<1>8. b[0] = 0 /\ b[n - 1] = total - Head(s).size
  <2>1. 0 \in 0..n - 1 /\ n - 1 \in 0..n - 1 /\ (n - 1) + 1 = n
      BY <1>1
  <2>2. b[0] = c[0 + 1] - c[1] /\ b[n - 1] = c[(n - 1) + 1] - c[1]
      BY <2>1
  <2>3. b[n - 1] = c[n] - c[1] /\ b[0] = c[1] - c[1]
      BY <2>1, <2>2
  <2> HIDE DEF b
  <2> QED
      BY <1>1, <1>5, <1>6, <2>3
<1>9. ASSUME NEW i \in 1..n - 1
      PROVE  b[i] = b[i - 1] + t[i].size
  <2>1. i \in 0..n - 1 /\ i - 1 \in 0..n - 1 /\ i + 1 \in 1..n /\ i \in 0..n
        /\ (i + 1) - 1 = i /\ (i - 1) + 1 = i
      BY <1>1
  <2>2. b[i] = c[i + 1] - c[1] /\ b[i - 1] = c[i] - c[1]
      BY <2>1
  <2>3. c[i + 1] = c[i] + s[i + 1].size
      BY <1>5, <2>1
  <2>4. c[i] \in Int /\ s[i + 1].size \in Nat
      BY <1>4, <1>5, <2>1
  <2>5. t[i].size = s[i + 1].size
      BY <1>3
  <2> HIDE DEF b
  <2>6. b[i] = (c[i] + s[i + 1].size) - c[1]
      BY <2>2, <2>3
  <2>7. ASSUME NEW x \in Int, NEW y \in Int, NEW z \in Int
        PROVE  (x + y) - z = (x - z) + y
      OBVIOUS
  <2> QED
      BY <1>6, <2>2, <2>4, <2>5, <2>6, <2>7
<1> HIDE DEF b
<1>10. Ledger(t, total - Head(s).size)
    BY <1>3, <1>7, <1>8, <1>9 DEF Ledger
<1> QED
    BY <1>2, <1>10

LEMMA LedgerAppend ==
    ASSUME NEW s \in Seq(Packet), NEW total \in Int, Ledger(s, total), NEW p \in Packet
    PROVE  Ledger(Append(s, p), total + p.size)
<1> DEFINE n == Len(s)
<1>1. n \in Nat /\ p.size \in Nat
    BY DEF Packet
<1>2. PICK t : t = Append(s, p)
    OBVIOUS
<1>3. Len(t) = n + 1 /\ t[n + 1] = p /\ \A i \in 1..n : t[i] = s[i]
    BY <1>2
<1>4. PICK c \in [0..n -> Int] :
        /\ c[0] = 0 /\ c[n] = total
        /\ \A i \in 1..n : c[i] = c[i - 1] + s[i].size
    BY DEF Ledger
<1> DEFINE b == [i \in 0..n + 1 |-> IF i = n + 1 THEN total + p.size ELSE c[i]]
<1> HIDE DEF n
<1>5. b \in [0..n + 1 -> Int]
    BY <1>1, <1>4
<1>6. b[0] = 0 /\ b[n + 1] = total + p.size
    BY <1>1, <1>4
<1>7. ASSUME NEW i \in 1..n + 1
      PROVE  b[i] = b[i - 1] + t[i].size
  <2>1. CASE i = n + 1
    <3>1. i \in 0..n + 1 /\ n \in 0..n + 1 /\ i - 1 = n /\ n # n + 1
        BY <1>1, <2>1
    <3>2. b[i] = total + p.size /\ b[n] = c[n]
        BY <2>1, <3>1
    <3> HIDE DEF b
    <3> QED
        BY <1>3, <1>4, <2>1, <3>1, <3>2
  <2>2. CASE i # n + 1
    <3>1. i \in 1..n /\ i \in 0..n + 1 /\ i - 1 \in 0..n + 1 /\ i - 1 # n + 1
        BY <1>1, <2>2
    <3>2. b[i] = c[i] /\ b[i - 1] = c[i - 1]
        BY <2>2, <3>1
    <3> HIDE DEF b
    <3> QED
        BY <1>3, <1>4, <3>1, <3>2
  <2> QED
      BY <2>1, <2>2
<1> HIDE DEF b
<1>8. Ledger(t, total + p.size)
    BY <1>3, <1>5, <1>6, <1>7 DEF Ledger
<1> QED
    BY <1>2, <1>8

LEMMA LedgerEmpty == \A total \in Int : Ledger(<<>>, total) <=> total = 0
<1> SUFFICES ASSUME NEW total \in Int PROVE Ledger(<<>>, total) <=> total = 0
    OBVIOUS
<1>1. Len(<<>>) = 0
    OBVIOUS
<1>2. ASSUME total = 0 PROVE Ledger(<<>>, total)
  <2> DEFINE c == [i \in 0..0 |-> 0]
  <2>1. c \in [0..0 -> Int] /\ c[0] = 0
      OBVIOUS
  <2> HIDE DEF c
  <2> QED
      BY <1>1, <1>2, <2>1 DEF Ledger
<1> QED
    BY <1>1, <1>2 DEF Ledger

LEMMA LossyTyped ==
    ASSUME config \in Config
    PROVE  /\ Narrow \in BOOLEAN /\ Lossy \in BOOLEAN /\ config.max \in Nat
           /\ ~Lossy => config.unit = "packets" /\ ~Narrow
           /\ ~Narrow => \/ config.unit = "packets" /\ config.max \in Nat \ {0}
                         \/ config.unit = "bytes" /\ config.max >= Mtu + HeaderSize
<1>1. /\ config.unit = "packets" \/ config.unit = "bytes"
      /\ config.max \in Nat /\ Mtu + HeaderSize \in Nat
    BY Assumptions DEF Config
<1>2. Narrow \in BOOLEAN
  <2>1. CASE config.unit = "packets"
      BY <2>1, Zenon DEF Narrow
  <2>2. CASE config.unit # "packets"
    <3>1. \A m \in Nat, n \in Nat : (m < n) \in BOOLEAN
        OBVIOUS
    <3>2. (config.max < Mtu + HeaderSize) \in BOOLEAN
        BY <1>1, <3>1, Zenon
    <3> QED
        BY <2>2, <3>2, Zenon DEF Narrow
  <2> QED
      BY <2>1, <2>2
<1>3. Lossy \in BOOLEAN
    BY <1>2, Zenon DEF Lossy
<1>4. ~Lossy => config.unit = "packets" /\ ~Narrow
    BY <1>1, Zenon DEF Lossy
<1>5. ~Narrow => \/ config.unit = "packets" /\ config.max \in Nat \ {0}
                 \/ config.unit = "bytes" /\ config.max >= Mtu + HeaderSize
  <2>1. CASE config.unit = "packets"
      BY <1>1, <2>1 DEF Narrow
  <2>2. CASE config.unit = "bytes"
    <3>1. Narrow <=> config.max < Mtu + HeaderSize
        BY <2>2 DEF Narrow
    <3> QED
        BY <1>1, <2>2, <3>1
  <2> QED
      BY <1>1, <2>1, <2>2
<1> QED
    BY <1>1, <1>2, <1>3, <1>4, <1>5, Zenon

\* An empty queue has room, unless it is too small for a full packet.
LEMMA FitsEmpty ==
    ASSUME config \in Config, ~Narrow, NEW d \in Device, d.queue = <<>>, d.nBytes = 0,
           NEW size \in Nat, size <= Mtu + HeaderSize
    PROVE  Fits(d, size)
<1>1. Len(d.queue) = 0
    OBVIOUS
<1>2. CASE config.unit = "packets" /\ config.max \in Nat \ {0}
    BY <1>1, <1>2 DEF Fits
<1>3. CASE config.unit = "bytes" /\ config.max >= Mtu + HeaderSize
  <2>1. config.max \in Nat /\ Mtu + HeaderSize \in Nat
      BY Assumptions, LossyTyped
  <2>2. d.nBytes + size <= config.max
      BY <1>3, <2>1
  <2> QED
      BY <1>3, <2>2 DEF Fits
<1> QED
    BY <1>2, <1>3, LossyTyped

\* A packet is taken out; a queue that is no longer stopped wakes the queue disc.
LEMMA Dequeued ==
    ASSUME config \in Config, NEW d \in Device, NEW limit \in Nat, d.queue # <<>>,
           Ledger(d.queue, d.nBytes), config.bql = TRUE => d.limits.inprogress = d.nBytes,
           config.bql = FALSE => d.stoppedByQueueLimits = FALSE,
           ~Lossy /\ d.stoppedByDevice = FALSE
              => Len(d.queue) <= config.max
    PROVE  LET e == Dequeue(d, limit) IN
           /\ e \in Device /\ e.queue = Tail(d.queue) /\ e.current = d.current
           /\ e.stoppedByDevice = TRUE => e.queue # <<>> \/ Narrow
           /\ e.stoppedByQueueLimits = TRUE => e.queue # <<>>
           /\ config.bql = TRUE => e.limits.inprogress = e.nBytes
           /\ config.bql = FALSE => e.stoppedByQueueLimits = FALSE
           /\ ~Lossy /\ e.stoppedByDevice = FALSE
                => Len(e.queue) + 1 <= config.max
           /\ Ledger(e.queue, e.nBytes) /\ d.wakes <= e.wakes
           /\ d.stoppedByDevice = TRUE \/ d.stoppedByQueueLimits = TRUE
                => \/ e.stoppedByDevice = TRUE \/ e.stoppedByQueueLimits = TRUE
                   \/ e.wakes > 0
<1> DEFINE p == Head(d.queue)
           a == [d EXCEPT !.queue = Tail(@), !.nBytes = @ - p.size]
           b == NotifyTransmittedBytes(a, p.size, limit)
           e == Dequeue(d, limit)
<1>a. config.bql \in BOOLEAN
    BY DEF Config
<1>1. /\ d.queue \in Seq(Packet) /\ p \in Packet /\ Tail(d.queue) \in Seq(Packet)
      /\ Len(Tail(d.queue)) = Len(d.queue) - 1 /\ Len(d.queue) \in Nat
    BY DEF Device
<1>2. p.size \in Nat /\ d.nBytes - p.size \in Int
    BY <1>1 DEF Device, Packet
<1> HIDE DEF p
<1>3. /\ a \in Device /\ a.queue = Tail(d.queue) /\ a.nBytes = d.nBytes - p.size
      /\ a.current = d.current /\ a.wakes = d.wakes /\ a.limits = d.limits
      /\ a.stoppedByDevice = d.stoppedByDevice
      /\ a.stoppedByQueueLimits = d.stoppedByQueueLimits
    BY <1>1, <1>2 DEF Device
<1>4. e = IF Fits(b, Mtu) THEN Wake(b) ELSE b
    BY DEF Dequeue, PacketDequeued, p
<1> HIDE DEF a
<1>5. /\ b \in Device /\ b.queue = a.queue /\ b.nBytes = a.nBytes /\ b.current = a.current
      /\ b.stoppedByDevice = a.stoppedByDevice /\ a.wakes <= b.wakes
      /\ config.bql = TRUE =>
           /\ b.limits.inprogress = a.limits.inprogress - p.size
           /\ b.limits.inprogress = 0 => b.stoppedByQueueLimits = FALSE
      /\ config.bql = FALSE => b = a
      /\ b.stoppedByQueueLimits = TRUE => a.stoppedByQueueLimits = TRUE
      /\ a.stoppedByQueueLimits = TRUE => b.stoppedByQueueLimits = TRUE \/ b.wakes > 0
    BY <1>2, <1>3, TransmittedBytes
<1> HIDE DEF b, e
<1>6. Ledger(b.queue, b.nBytes) /\ (b.queue = <<>> => b.nBytes = 0)
  <2>1. Ledger(b.queue, b.nBytes)
      BY <1>1, <1>3, <1>5, LedgerTail DEF p, Device
  <2>2. b.nBytes \in Int
      BY <1>5 DEF Device
  <2> QED
      BY <2>1, <2>2, LedgerEmpty
<1>7. b.queue = <<>> => b.stoppedByQueueLimits = FALSE
    BY <1>a, <1>3, <1>5, <1>6
<1>8. b.stoppedByQueueLimits \in BOOLEAN /\ b.stoppedByDevice \in BOOLEAN
    BY <1>5 DEF Device
<1>9. config.bql = TRUE => b.limits.inprogress = b.nBytes
    BY <1>3, <1>5
<1>10. config.bql = FALSE => b.stoppedByQueueLimits = FALSE
    BY <1>3, <1>5
<1>11. CASE Fits(b, Mtu)
  <2>1. /\ e \in Device /\ e.queue = b.queue /\ e.nBytes = b.nBytes /\ e.current = b.current
        /\ e.stoppedByDevice = FALSE /\ e.stoppedByQueueLimits = b.stoppedByQueueLimits
        /\ e.limits = b.limits /\ b.wakes <= e.wakes
        /\ b.stoppedByDevice = TRUE => e.wakes > 0
      BY <1>4, <1>5, <1>11, Woken
  <2>2. Ledger(e.queue, e.nBytes)
    <3>1. e.queue = b.queue /\ e.nBytes = b.nBytes
        BY <2>1
    <3> QED
        BY <1>6, <3>1, Zenon
  <2>3. ~Lossy => Len(e.queue) + 1 <= config.max
    <3>1. ~Lossy => config.unit = "packets"
        BY LossyTyped
    <3>2. config.unit = "packets" => Len(b.queue) + 1 <= config.max
        BY <1>11 DEF Fits
    <3> QED
        BY <2>1, <3>1, <3>2
  <2>4. a.wakes \in Nat /\ b.wakes \in Nat /\ e.wakes \in Nat
      BY <1>3, <1>5, <2>1 DEF Device
  <2> QED
      BY <1>3, <1>5, <1>7, <1>8, <1>9, <1>10, <2>1, <2>2, <2>3, <2>4 DEF e
<1>12. CASE ~Fits(b, Mtu)
  <2>1. e = b
      BY <1>4, <1>12
  <2>2. b.queue # <<>> \/ Narrow
      BY <1>5, <1>6, <1>12, FitsEmpty, Assumptions
  <2>3. ~Lossy => b.stoppedByDevice = TRUE
    <3>1. ~Lossy => ~(Len(b.queue) + 1 <= config.max)
        BY <1>12, LossyTyped DEF Fits
    <3>2. Len(b.queue) + 1 = Len(d.queue)
        BY <1>1, <1>3, <1>5
    <3>3. d.stoppedByDevice \in BOOLEAN
        BY DEF Device
    <3> QED
        BY <1>3, <1>5, <3>1, <3>2, <3>3
  <2>4. a.wakes \in Nat /\ b.wakes \in Nat
      BY <1>3, <1>5 DEF Device
  <2> QED
      BY <1>3, <1>5, <1>6, <1>7, <1>9, <1>10, <2>1, <2>2, <2>3, <2>4 DEF e
<1> QED
    BY <1>11, <1>12

\* A packet that does not fit is discarded and stops the queue; one that fits is
\* queued, and stops it when another might not fit.
LEMMA Enqueued ==
    ASSUME config \in Config, NEW d \in Device, NEW p \in Packet, Fits(d, p.size),
           Ledger(d.queue, d.nBytes), config.bql = TRUE => d.limits.inprogress = d.nBytes,
           config.bql = FALSE => d.stoppedByQueueLimits = FALSE
    PROVE  LET e == Enqueue(d, p) IN
           /\ e \in Device /\ e.queue = Append(d.queue, p) /\ e.current = d.current
           /\ e.wakes = d.wakes
           /\ config.bql = TRUE => e.limits.inprogress = e.nBytes
           /\ config.bql = FALSE => e.stoppedByQueueLimits = FALSE
           /\ ~Lossy /\ e.stoppedByDevice = FALSE
                => Len(e.queue) + 1 <= config.max
           /\ Ledger(e.queue, e.nBytes)
<1> DEFINE a == [d EXCEPT !.queue = Append(@, p), !.nBytes = @ + p.size]
           b == NotifyQueuedBytes(a, p.size)
           e == Enqueue(d, p)
<1>1. /\ d.queue \in Seq(Packet) /\ Append(d.queue, p) \in Seq(Packet)
      /\ p.size \in Nat /\ d.nBytes \in Int /\ d.nBytes + p.size \in Int
    BY DEF Device, Packet
<1>2. /\ a \in Device /\ a.queue = Append(d.queue, p) /\ a.nBytes = d.nBytes + p.size
      /\ a.current = d.current /\ a.wakes = d.wakes /\ a.limits = d.limits
      /\ a.stoppedByDevice = d.stoppedByDevice
      /\ a.stoppedByQueueLimits = d.stoppedByQueueLimits
    BY <1>1 DEF Device
<1>3. e = IF Fits(b, Mtu) THEN b ELSE Stop(b)
    BY DEF Enqueue, PacketEnqueued
<1> HIDE DEF a
<1>4. /\ b \in Device /\ b.queue = a.queue /\ b.nBytes = a.nBytes /\ b.current = a.current
      /\ b.wakes = a.wakes /\ b.stoppedByDevice = a.stoppedByDevice
      /\ config.bql = TRUE => b.limits.inprogress = a.limits.inprogress + p.size
      /\ config.bql = FALSE => b = a
    BY <1>1, <1>2, QueuedBytes
<1> HIDE DEF b, e
<1>5. Ledger(b.queue, b.nBytes)
    BY <1>1, <1>2, <1>4, LedgerAppend
<1>6. config.bql = TRUE => b.limits.inprogress = b.nBytes
    BY <1>2, <1>4
<1>7. config.bql = FALSE => b.stoppedByQueueLimits = FALSE
    BY <1>2, <1>4
<1>8. CASE Fits(b, Mtu)
  <2>1. ~Lossy => Len(b.queue) + 1 <= config.max
      BY <1>8, LossyTyped DEF Fits
  <2> QED
      BY <1>2, <1>3, <1>4, <1>5, <1>6, <1>7, <1>8, <2>1 DEF e
<1>9. CASE ~Fits(b, Mtu)
  <2>1. /\ e \in Device /\ e.queue = b.queue /\ e.nBytes = b.nBytes /\ e.current = b.current
        /\ e.stoppedByDevice = TRUE /\ e.stoppedByQueueLimits = b.stoppedByQueueLimits
        /\ e.limits = b.limits /\ b.wakes = e.wakes
      BY <1>3, <1>4, <1>9, Stopped
  <2> QED
      BY <1>2, <1>4, <1>5, <1>6, <1>7, <2>1 DEF e
<1> QED
    BY <1>8, <1>9

Item == [id : Nat, size : 0..Mtu, txq : Queues]

LEMMA HeaderAdded ==
    ASSUME NEW p \in Item
    PROVE  /\ AddHeader(p) \in Packet /\ AddHeader(p).id = p.id
           /\ AddHeader(p).size \in Nat /\ AddHeader(p).size <= Mtu + HeaderSize
    BY Assumptions DEF AddHeader, Item, Packet

LEMMA WorkingEmpty ==
    ASSUME NEW d \in Device, Working(d), d.queue = <<>>
    PROVE  d.nBytes = 0
    BY LedgerEmpty DEF Working, Device

\* What becomes of a packet the queue disc hands to the device: it is queued, or it goes
\* straight to the transmitter, or it is discarded, which only happens when the size of
\* the queue is in bytes, or 0.
LEMMA DeviceSendStep ==
    ASSUME config \in Config, NEW d \in Device, Working(d), NEW p \in Item, NEW limit \in Nat,
           d.stoppedByDevice = FALSE
    PROVE  LET e == DeviceSend(d, p, limit) IN
           /\ e \in Device /\ Working(e) /\ d.wakes <= e.wakes
           /\ \/ e.queue = Append(d.queue, AddHeader(p)) /\ e.current = d.current
              \/ /\ d.current = <<>> /\ d.queue = <<>>
                 /\ e.current = <<AddHeader(p)>> /\ e.queue = <<>>
              \/ Lossy /\ e.queue = d.queue /\ e.current = d.current
<1> DEFINE h == AddHeader(p)
           q == Enqueue(d, h)
           e == DeviceSend(d, p, limit)
<1>a. h \in Packet /\ h.size \in Nat /\ h.size <= Mtu + HeaderSize
    BY HeaderAdded
<1>b. e = IF d.current # <<>> \/ ~Fits(d, h.size) THEN q
          ELSE TransmitStart(Dequeue(q, limit), Head(q.queue))
    BY DEF DeviceSend
<1>c. d.wakes \in Nat /\ d.queue \in Seq(Packet) /\ d.nBytes \in Int
    BY DEF Device
<1> HIDE DEF h
<1>1. CASE ~Fits(d, h.size)
  <2>1. e = Stop(d)
      BY <1>b, <1>1 DEF Enqueue, PacketDiscarded
  <2>2. d.queue # <<>> \/ Narrow
      BY <1>a, <1>1, WorkingEmpty, FitsEmpty
  <2>3. Lossy
      BY <1>1, LossyTyped DEF Fits, Working
  <2> HIDE DEF e
  <2>4. /\ e \in Device /\ e.queue = d.queue /\ e.nBytes = d.nBytes /\ e.current = d.current
        /\ e.stoppedByDevice = TRUE /\ e.stoppedByQueueLimits = d.stoppedByQueueLimits
        /\ e.limits = d.limits /\ d.wakes = e.wakes
      BY <2>1, Stopped
  <2>5. Working(e)
      BY <2>2, <2>4 DEF Working
  <2> QED
      BY <1>c, <2>3, <2>4, <2>5 DEF e
<1>2. CASE Fits(d, h.size)
  <2>1. /\ q \in Device /\ q.queue = Append(d.queue, h) /\ q.current = d.current
        /\ q.wakes = d.wakes
        /\ config.bql = TRUE => q.limits.inprogress = q.nBytes
        /\ config.bql = FALSE => q.stoppedByQueueLimits = FALSE
        /\ ~Lossy /\ q.stoppedByDevice = FALSE
             => Len(q.queue) + 1 <= config.max
        /\ Ledger(q.queue, q.nBytes)
      BY <1>a, <1>2, Enqueued DEF Working
  <2>2. q.queue # <<>> /\ q.queue \in Seq(Packet) /\ Len(q.queue) \in Nat
      BY <1>a, <1>c, <2>1
  <2>3. CASE d.current # <<>>
    <3>1. e = q
        BY <1>b, <2>3
    <3> HIDE DEF e, q
    <3>2. Working(q)
        BY <2>1, <2>2, <2>3 DEF Working
    <3> QED
        BY <1>c, <2>1, <3>1, <3>2 DEF e, h
  <2>4. CASE d.current = <<>>
    <3> DEFINE f == Dequeue(q, limit)
    <3>1. d.queue = <<>>
        BY <2>4 DEF Working
    <3>2. e = TransmitStart(f, Head(q.queue))
        BY <1>b, <1>2, <2>4
    <3> HIDE DEF e, q
    <3>3. ~Lossy /\ q.stoppedByDevice = FALSE => Len(q.queue) <= config.max
        BY <2>1, <2>2, LossyTyped
    <3>4. /\ f \in Device /\ f.queue = Tail(q.queue) /\ f.current = q.current
          /\ f.stoppedByDevice = TRUE => f.queue # <<>> \/ Narrow
          /\ f.stoppedByQueueLimits = TRUE => f.queue # <<>>
          /\ config.bql = TRUE => f.limits.inprogress = f.nBytes
          /\ config.bql = FALSE => f.stoppedByQueueLimits = FALSE
          /\ ~Lossy /\ f.stoppedByDevice = FALSE
                => Len(f.queue) + 1 <= config.max
          /\ Ledger(f.queue, f.nBytes) /\ q.wakes <= f.wakes
        BY <2>1, <2>2, <3>3, Dequeued
    <3>5. Head(q.queue) = h /\ Tail(q.queue) = <<>>
      <4>1. q.queue = Append(<<>>, h)
          BY <2>1, <3>1
      <4>2. Append(<<>>, h) = <<h>>
          OBVIOUS
      <4>3. Head(<<h>>) = h /\ Tail(<<h>>) = <<>>
          OBVIOUS
      <4> QED
          BY <4>1, <4>2, <4>3
    <3> HIDE DEF f
    <3>6. e = [f EXCEPT !.current = <<h>>]
        BY <3>2, <3>5 DEF TransmitStart
    <3>7. <<h>> \in Seq(Packet) /\ Len(<<h>>) = 1 /\ <<h>> # <<>>
        BY <1>a
    <3>8. /\ e \in Device /\ e.current = <<h>> /\ e.queue = f.queue /\ e.nBytes = f.nBytes
          /\ e.wakes = f.wakes /\ e.limits = f.limits /\ e.stoppedByDevice = f.stoppedByDevice
          /\ e.stoppedByQueueLimits = f.stoppedByQueueLimits
        BY <3>4, <3>6, <3>7 DEF Device
    <3>9. Working(e)
        BY <3>4, <3>7, <3>8 DEF Working
    <3> QED
        BY <1>c, <2>1, <2>4, <3>1, <3>4, <3>5, <3>8, <3>9 DEF e, h
  <2> QED
      BY <2>3, <2>4
<1> QED
    BY <1>1, <1>2

LEMMA CurrentSet ==
    ASSUME NEW d \in Device
    PROVE  LET c == [d EXCEPT !.current = <<>>] IN
           /\ c \in Device /\ c.queue = d.queue /\ c.nBytes = d.nBytes /\ c.wakes = d.wakes
           /\ c.limits = d.limits /\ c.stoppedByDevice = d.stoppedByDevice
           /\ c.stoppedByQueueLimits = d.stoppedByQueueLimits /\ c.current = <<>>
<1>1. PICK none \in Seq(Packet) : none = <<>>
    BY EmptySeq
<1> DEFINE c == [d EXCEPT !.current = none]
<1>2. /\ c \in Device /\ c.queue = d.queue /\ c.nBytes = d.nBytes /\ c.wakes = d.wakes
      /\ c.limits = d.limits /\ c.stoppedByDevice = d.stoppedByDevice
      /\ c.stoppedByQueueLimits = d.stoppedByQueueLimits /\ c.current = none
    BY DEF Device
<1>3. c = [d EXCEPT !.current = <<>>]
    BY <1>1
<1> HIDE DEF c
<1> QED
    BY <1>1, <1>2, <1>3

\* The next packet of the queue is transmitted; if the queue was stopped it still is, or
\* the queue disc is woken.
LEMMA TransmitNext ==
    ASSUME config \in Config, NEW d \in Device, Working(d), NEW limit \in Nat, d.queue # <<>>
    PROVE  LET c == [d EXCEPT !.current = <<>>]
               e == TransmitStart(Dequeue(c, limit), Head(c.queue)) IN
           /\ e \in Device /\ Working(e) /\ d.wakes <= e.wakes
           /\ e.current = <<Head(d.queue)>> /\ e.queue = Tail(d.queue)
           /\ d.stoppedByDevice = TRUE \/ d.stoppedByQueueLimits = TRUE
                => \/ e.stoppedByDevice = TRUE \/ e.stoppedByQueueLimits = TRUE
                   \/ e.wakes > 0
<1> DEFINE c == [d EXCEPT !.current = <<>>]
           f == Dequeue(c, limit)
           e == TransmitStart(f, Head(c.queue))
<1>1. /\ c \in Device /\ c.queue = d.queue /\ c.nBytes = d.nBytes /\ c.wakes = d.wakes
      /\ c.limits = d.limits /\ c.stoppedByDevice = d.stoppedByDevice
      /\ c.stoppedByQueueLimits = d.stoppedByQueueLimits
    BY CurrentSet
<1>2. d.queue \in Seq(Packet) /\ Len(d.queue) \in Nat /\ Head(d.queue) \in Packet
    BY DEF Device
<1> HIDE DEF c
<1>3. ~Lossy /\ c.stoppedByDevice = FALSE => Len(c.queue) <= config.max
    BY <1>1, <1>2, LossyTyped DEF Working
<1>4. /\ f \in Device /\ f.queue = Tail(c.queue)
      /\ f.stoppedByDevice = TRUE => f.queue # <<>> \/ Narrow
      /\ f.stoppedByQueueLimits = TRUE => f.queue # <<>>
      /\ config.bql = TRUE => f.limits.inprogress = f.nBytes
      /\ config.bql = FALSE => f.stoppedByQueueLimits = FALSE
      /\ ~Lossy /\ f.stoppedByDevice = FALSE
            => Len(f.queue) + 1 <= config.max
      /\ Ledger(f.queue, f.nBytes) /\ c.wakes <= f.wakes
      /\ c.stoppedByDevice = TRUE \/ c.stoppedByQueueLimits = TRUE
           => \/ f.stoppedByDevice = TRUE \/ f.stoppedByQueueLimits = TRUE
              \/ f.wakes > 0
  <2>1. Ledger(c.queue, c.nBytes) /\ c.queue # <<>>
      BY <1>1 DEF Working
  <2>2. config.bql = TRUE => c.limits.inprogress = c.nBytes
      BY <1>1 DEF Working
  <2>3. config.bql = FALSE => c.stoppedByQueueLimits = FALSE
      BY <1>1 DEF Working
  <2> QED
      BY <1>1, <1>3, <2>1, <2>2, <2>3, Dequeued
<1> HIDE DEF f
<1> DEFINE h == Head(d.queue)
<1>5. e = [f EXCEPT !.current = <<h>>]
    BY <1>1 DEF TransmitStart
<1>6. h \in Packet
    BY <1>2
<1> HIDE DEF e, h
<1>7. <<h>> \in Seq(Packet) /\ Len(<<h>>) = 1 /\ <<h>> # <<>>
    BY <1>6
<1>8. /\ e \in Device /\ e.current = <<h>> /\ e.queue = f.queue /\ e.nBytes = f.nBytes
      /\ e.wakes = f.wakes /\ e.limits = f.limits /\ e.stoppedByDevice = f.stoppedByDevice
      /\ e.stoppedByQueueLimits = f.stoppedByQueueLimits
    BY <1>4, <1>5, <1>7 DEF Device
<1>9. Working(e)
    BY <1>4, <1>7, <1>8 DEF Working
<1> QED
    BY <1>1, <1>4, <1>8, <1>9 DEF e, h, f, c

-----------------------------------------------------------------------------
(* What each action does.                                                  *)

TypeInv ==
    /\ config \in Config /\ sent \in Nat /\ quota \in 0..Quota
    /\ disc \in Seq(Item) /\ requeued \in Seq(Item) /\ Len(requeued) <= 1
    /\ dev \in [Queues -> Device]
    /\ \A q \in Queues : Working(dev[q])

Halted(d) == d.stoppedByDevice = TRUE \/ d.stoppedByQueueLimits = TRUE

LEMMA HaltedIsStopped == ASSUME NEW d \in Device PROVE IsStopped(d) <=> Halted(d)
<1>1. d.stoppedByDevice \in BOOLEAN /\ d.stoppedByQueueLimits \in BOOLEAN
    BY DEF Device
<1> QED
    BY <1>1, Zenon DEF IsStopped, Halted

\* The packet that is taken from the queue disc first, and what is left then.
First(item, left) ==
    \/ requeued = <<item>> /\ left = disc
    \/ requeued = <<>> /\ disc # <<>> /\ item = Head(disc) /\ left = Tail(disc)

Sending ==
    /\ quota = 0 /\ quota' = Quota /\ sent' = sent + 1
    /\ \/ disc' = disc
       \/ \E x \in Item : x.id = sent + 1 /\ disc' = Append(disc, x) /\ Len(disc) + 1 <= MaxSize
    /\ UNCHANGED <<config, requeued, dev>>

Ending ==
    /\ quota # 0 /\ quota' = 0 /\ UNCHANGED <<config, sent, dev>>
    /\ \/ disc' = disc /\ requeued' = requeued /\ requeued = <<>> /\ disc = <<>>
       \/ /\ \E q \in Queues : Halted(dev[q])
          /\ \/ disc' = disc /\ requeued' = requeued
             \/ /\ requeued = <<>> /\ disc # <<>>
                /\ requeued' = <<Head(disc)>> /\ disc' = Tail(disc)

Handed(d, p, e) ==
    /\ Working(e) /\ d.wakes <= e.wakes
    /\ \/ e.queue = Append(d.queue, AddHeader(p)) /\ e.current = d.current
       \/ /\ d.current = <<>> /\ d.queue = <<>>
          /\ e.current = <<AddHeader(p)>> /\ e.queue = <<>>
       \/ Lossy /\ e.queue = d.queue /\ e.current = d.current

Transmitting ==
    /\ quota # 0 /\ requeued' = <<>> /\ UNCHANGED <<config, sent>>
    /\ \E item \in Item, e \in Device :
         /\ First(item, disc')
         /\ dev' = [dev EXCEPT ![item.txq] = e] /\ Handed(dev[item.txq], item, e)
         /\ \/ quota' = 0 /\ (disc' = <<>> \/ Halted(e))
            \/ quota' = quota - 1

Waking ==
    /\ quota = 0 /\ quota' = Quota /\ UNCHANGED <<config, sent, disc, requeued>>
    /\ \E q \in Queues, e \in Device :
         /\ dev' = [dev EXCEPT ![q] = e] /\ Working(e)
         /\ e.queue = dev[q].queue /\ e.current = dev[q].current

Advanced(d, e) ==
    /\ Working(e) /\ d.current # <<>> /\ d.wakes <= e.wakes
    /\ Halted(d) => Halted(e) \/ e.wakes > 0
    /\ \/ d.queue = <<>> /\ e.queue = <<>> /\ e.current = <<>>
       \/ d.queue # <<>> /\ e.current = <<Head(d.queue)>> /\ e.queue = Tail(d.queue)

Completing ==
    /\ quota = 0 /\ UNCHANGED <<config, sent, disc, requeued, quota>>
    /\ \E q \in Queues, e \in Device : dev' = [dev EXCEPT ![q] = e] /\ Advanced(dev[q], e)

Move == Sending \/ Ending \/ Transmitting \/ Waking \/ Completing

LEMMA QueueNumbers ==
    ASSUME TypeInv PROVE 1..config.ntx \subseteq Queues /\ 1 \in Queues
<1>1. PICK n \in TxCounts : n = config.ntx
    BY DEF TypeInv, Config
<1>2. n \in Nat /\ n > 0
    BY BoundsAssumption
<1>3. 1..n \subseteq Queues
    BY DEF Queues
<1> QED
    BY <1>1, <1>2, <1>3

LEMMA SendMove ==
    ASSUME TypeInv, NEW q \in 1..config.ntx, NEW size \in Sizes, Send(q, size)
    PROVE  Sending
<1> DEFINE x == [id |-> sent + 1, size |-> size, txq |-> q]
<1>1. x \in Item /\ x.id = sent + 1
    BY QueueNumbers, SizesAssumption DEF TypeInv, Item
<1>2. /\ quota = 0 /\ quota' = Quota /\ sent' = sent + 1
      /\ disc' = IF Len(disc) + 1 > MaxSize THEN disc ELSE Append(disc, x)
      /\ UNCHANGED <<config, requeued, dev>>
    BY DEF Send, Idle
<1> HIDE DEF x
<1>3. Len(disc) \in Nat /\ MaxSize \in Nat
    BY Assumptions DEF TypeInv
<1> QED
    BY <1>1, <1>2, <1>3 DEF Sending

LEMMA OneElement ==
    ASSUME NEW S, NEW s \in Seq(S), Len(s) <= 1, s # <<>>
    PROVE  \E x \in S : s = <<x>>
<1>1. Len(s) \in Nat \ {0}
    BY EmptySeq
<1>2. Len(s) = 1
  <2>1. \A n \in Nat \ {0} : n <= 1 => n = 1
      OBVIOUS
  <2> QED
      BY <1>1, <2>1, Zenon
<1>3. s[1] \in S /\ s = <<s[1]>>
    BY <1>2
<1> QED
    BY <1>3

LEMMA DequeuedFirst ==
    ASSUME TypeInv, DequeuePacket # <<>>
    PROVE  /\ DequeuePacket[1] \in Item /\ First(DequeuePacket[1], Left)
           /\ requeued # <<>> => ~IsStopped(dev[DequeuePacket[1].txq])
<1>1. CASE requeued # <<>>
  <2>1. PICK item \in Item : requeued = <<item>>
    <3>1. requeued \in Seq(Item) /\ Len(requeued) <= 1
        BY DEF TypeInv
    <3> QED
        BY <1>1, <3>1, OneElement
  <2>2. DequeuePacket = requeued /\ ~IsStopped(dev[Head(requeued).txq])
      BY <1>1 DEF DequeuePacket
  <2>3. DequeuePacket[1] = item /\ Head(requeued) = item
      BY <2>1, <2>2
  <2> QED
      BY <1>1, <2>1, <2>2, <2>3 DEF First, Left
<1>2. CASE requeued = <<>>
  <2>1. disc # <<>> /\ DequeuePacket = <<Head(disc)>>
      BY <1>2 DEF DequeuePacket
  <2>2. DequeuePacket[1] = Head(disc)
      BY <2>1
  <2>3. Head(disc) \in Item
      BY <2>1 DEF TypeInv
  <2> QED
      BY <1>2, <2>1, <2>2, <2>3 DEF First, Left
<1> QED
    BY <1>1, <1>2

LEMMA NoPacketMove ==
    ASSUME TypeInv, RestartNoPacket PROVE Ending
<1>1. /\ quota # 0 /\ quota' = 0 /\ UNCHANGED <<config, sent, disc, requeued, dev>>
      /\ DequeuePacket = <<>>
    BY DEF RestartNoPacket, Idle
<1>2. ASSUME NEW q \in Queues, IsStopped(dev[q]) PROVE Ending
  <2>1. Halted(dev[q])
      BY <1>2, HaltedIsStopped DEF TypeInv
  <2> QED
      BY <1>1, <2>1 DEF Ending
<1>3. CASE requeued # <<>>
  <2>1. IsStopped(dev[Head(requeued).txq])
      BY <1>1, <1>3 DEF DequeuePacket
  <2>2. Head(requeued) \in Item
      BY <1>3 DEF TypeInv
  <2>3. Head(requeued).txq \in Queues
      BY <2>2 DEF Item
  <2> QED
      BY <1>2, <2>1, <2>3
<1>4. CASE requeued = <<>> /\ disc # <<>>
  <2>1. IsStopped(dev[1])
      BY <1>1, <1>4 DEF DequeuePacket
  <2> QED
      BY <1>2, <2>1, QueueNumbers
<1>5. CASE requeued = <<>> /\ disc = <<>>
    BY <1>1, <1>5 DEF Ending
<1> QED
    BY <1>3, <1>4, <1>5

LEMMA RequeueMove ==
    ASSUME TypeInv, RestartRequeue PROVE Ending
<1> DEFINE item == DequeuePacket[1]
<1>1. /\ quota # 0 /\ quota' = 0 /\ UNCHANGED <<config, sent, dev>> /\ DequeuePacket # <<>>
      /\ IsStopped(dev[item.txq]) /\ requeued' = <<item>> /\ disc' = Left
    BY DEF RestartRequeue, Idle
<1>2. item \in Item /\ First(item, Left) /\ (requeued # <<>> => ~IsStopped(dev[item.txq]))
    BY <1>1, DequeuedFirst
<1> HIDE DEF item
<1>3. item.txq \in Queues
    BY <1>2 DEF Item
<1>4. Halted(dev[item.txq])
    BY <1>1, <1>3, HaltedIsStopped DEF TypeInv
<1>5. requeued = <<>>
    BY <1>1, <1>2
<1>6. disc # <<>> /\ item = Head(disc) /\ Left = Tail(disc)
    BY <1>2, <1>5 DEF First
<1> QED
    BY <1>1, <1>3, <1>4, <1>5, <1>6 DEF Ending

LEMMA LimitTyped == ASSUME TypeInv PROVE NewLimits \subseteq Nat
    BY Assumptions DEF NewLimits

LEMMA TransmitMove ==
    ASSUME TypeInv, RestartTransmit PROVE Transmitting
<1> DEFINE item == DequeuePacket[1]
<1>1. PICK limit \in NewLimits :
        /\ quota # 0 /\ UNCHANGED <<config, sent>> /\ DequeuePacket # <<>>
        /\ ~IsStopped(dev[item.txq]) /\ requeued' = <<>> /\ disc' = Left
        /\ dev' = [dev EXCEPT ![item.txq] = DeviceSend(@, item, limit)]
        /\ quota' = IF disc' = <<>> \/ IsStopped(dev'[item.txq]) THEN 0 ELSE quota - 1
    BY DEF RestartTransmit, Idle
<1>2. item \in Item /\ First(item, Left)
    BY <1>1, DequeuedFirst
<1> HIDE DEF item
<1> DEFINE q == item.txq
           d == dev[q]
           e == DeviceSend(d, item, limit)
<1>3. q \in Queues /\ d \in Device /\ Working(d) /\ config \in Config /\ limit \in Nat
    BY <1>2, LimitTyped DEF Item, TypeInv
<1>4. dev' = [dev EXCEPT ![q] = e] /\ dev'[q] = e
    BY <1>1, <1>3 DEF TypeInv
<1>5. d.stoppedByDevice = FALSE
  <2>1. ~Halted(d)
      BY <1>1, <1>3, HaltedIsStopped
  <2>2. d.stoppedByDevice \in BOOLEAN
      BY <1>3 DEF Device
  <2> QED
      BY <2>1, <2>2 DEF Halted
<1>6. e \in Device /\ Handed(d, item, e)
  <2> HIDE DEF d
  <2> QED
      BY <1>2, <1>3, <1>5, DeviceSendStep DEF Handed
<1>7. IsStopped(dev'[q]) => Halted(e)
  <2> HIDE DEF e
  <2> QED
      BY <1>4, <1>6, HaltedIsStopped
<1> HIDE DEF e
<1> QED
    BY <1>1, <1>2, <1>4, <1>6, <1>7 DEF Transmitting

LEMMA WakeMove ==
    ASSUME TypeInv, NEW q \in Queues, WakeCallback(q) PROVE Waking
<1> DEFINE d == dev[q]
           e == [d EXCEPT !.wakes = @ - 1]
<1>1. /\ quota = 0 /\ quota' = Quota /\ UNCHANGED <<config, sent, disc, requeued>>
      /\ d.wakes > 0 /\ dev' = [dev EXCEPT ![q] = e]
    BY DEF WakeCallback, Idle
<1>2. d \in Device /\ Working(d)
    BY DEF TypeInv
<1> HIDE DEF d
<1>3. d.wakes - 1 \in Nat
    BY <1>1, <1>2 DEF Device
<1>4. /\ e \in Device /\ e.queue = d.queue /\ e.nBytes = d.nBytes /\ e.current = d.current
      /\ e.stoppedByDevice = d.stoppedByDevice
      /\ e.stoppedByQueueLimits = d.stoppedByQueueLimits /\ e.limits = d.limits
    BY <1>2, <1>3 DEF Device
<1> HIDE DEF e
<1>5. Working(e)
    BY <1>2, <1>4 DEF Working
<1> QED
    BY <1>1, <1>4, <1>5 DEF Waking, d

LEMMA CompleteMove ==
    ASSUME TypeInv, NEW q \in Queues, TransmitComplete(q) PROVE Completing
<1> DEFINE d == dev[q]
           c == [d EXCEPT !.current = <<>>]
<1>1. /\ quota = 0 /\ UNCHANGED <<config, sent, disc, requeued, quota>> /\ d.current # <<>>
      /\ IF c.queue = <<>> THEN dev' = [dev EXCEPT ![q] = c]
         ELSE \E limit \in NewLimits :
                dev' = [dev EXCEPT ![q] = TransmitStart(Dequeue(c, limit), Head(c.queue))]
    BY DEF TransmitComplete, Idle
<1>2. d \in Device /\ Working(d) /\ config \in Config
    BY DEF TypeInv
<1> HIDE DEF d
<1>3. /\ c \in Device /\ c.queue = d.queue /\ c.nBytes = d.nBytes /\ c.wakes = d.wakes
      /\ c.limits = d.limits /\ c.stoppedByDevice = d.stoppedByDevice
      /\ c.stoppedByQueueLimits = d.stoppedByQueueLimits /\ c.current = <<>>
    BY <1>2, CurrentSet
<1>4. CASE d.queue = <<>>
  <2> HIDE DEF c
  <2>1. Len(c.current) = 0 /\ d.wakes \in Nat
      BY <1>2, <1>3 DEF Device
  <2>2. Working(c)
      BY <1>2, <1>3, <1>4, <2>1 DEF Working
  <2>3. Advanced(d, c)
      BY <1>1, <1>2, <1>3, <1>4, <2>1, <2>2 DEF Advanced, Halted
  <2> QED
      BY <1>1, <1>3, <1>4, <2>3 DEF Completing, d
<1>5. CASE d.queue # <<>>
  <2>1. PICK limit \in NewLimits :
          dev' = [dev EXCEPT ![q] = TransmitStart(Dequeue(c, limit), Head(c.queue))]
      BY <1>1, <1>3, <1>5
  <2> DEFINE e == TransmitStart(Dequeue(c, limit), Head(c.queue))
  <2>2. limit \in Nat
      BY <2>1, LimitTyped
  <2>3. e \in Device /\ Advanced(d, e)
      BY <1>1, <1>2, <1>5, <2>2, TransmitNext DEF Advanced, Halted
  <2> HIDE DEF e
  <2> QED
      BY <1>1, <2>1, <2>3 DEF Completing, d, e
<1> QED
    BY <1>4, <1>5

LEMMA StepMoves ==
    ASSUME TypeInv, [Next]_vars
    PROVE  Move \/ UNCHANGED vars
    BY SendMove, NoPacketMove, RequeueMove, TransmitMove, WakeMove, CompleteMove
    DEF Next, Step, Restart, Move

LEMMA FirstTyped ==
    ASSUME TypeInv, NEW item, NEW left, First(item, left)
    PROVE  left \in Seq(Item) /\ Len(requeued) + Len(disc) = Len(left) + 1
<1>1. disc \in Seq(Item) /\ Len(disc) \in Nat
    BY DEF TypeInv
<1>2. CASE requeued = <<item>> /\ left = disc
  <2>1. Len(requeued) = 1
      BY <1>2
  <2> QED
      BY <1>1, <1>2, <2>1
<1>3. CASE requeued = <<>> /\ disc # <<>> /\ left = Tail(disc)
  <2>1. Len(requeued) = 0 /\ Tail(disc) \in Seq(Item) /\ Len(Tail(disc)) = Len(disc) - 1
      BY <1>1, <1>3
  <2> QED
      BY <1>1, <1>3, <2>1
<1> QED
    BY <1>2, <1>3 DEF First

LEMMA DeviceReplaced ==
    ASSUME TypeInv, NEW q \in Queues, NEW e \in Device, Working(e), UNCHANGED config,
           dev' = [dev EXCEPT ![q] = e]
    PROVE  dev' \in [Queues -> Device] /\ \A k \in Queues : Working(dev[k])'
<1>1. dev \in [Queues -> Device] /\ \A k \in Queues : Working(dev[k])
    BY DEF TypeInv
<1>2. dev' \in [Queues -> Device] /\ \A k \in Queues : dev'[k] = IF k = q THEN e ELSE dev[k]
    BY <1>1
<1>3. ASSUME NEW k \in Queues PROVE Working(dev[k])'
  <2>1. PICK d : d = dev'[k] /\ Working(d)
      BY <1>1, <1>2
  <2>2. Lossy' = Lossy /\ Narrow' = Narrow
      BY DEF Lossy, Narrow
  <2> QED
      BY <2>1, <2>2 DEF Working
<1> QED
    BY <1>2, <1>3

LEMMA TypeStep ==
    ASSUME TypeInv, [Next]_vars
    PROVE  TypeInv'
<1>a. /\ config \in Config /\ sent \in Nat /\ quota \in 0..Quota
      /\ disc \in Seq(Item) /\ requeued \in Seq(Item) /\ Len(requeued) <= 1
      /\ dev \in [Queues -> Device] /\ \A q \in Queues : Working(dev[q])
    BY DEF TypeInv
<1>b. Quota \in Nat /\ Quota # 0 /\ <<>> \in Seq(Item) /\ Len(<<>>) = 0
    BY Assumptions, EmptySeq
<1>c. ASSUME UNCHANGED <<config, dev>>
      PROVE  dev' \in [Queues -> Device] /\ \A q \in Queues : Working(dev[q])'
  <2>1. Lossy' = Lossy /\ Narrow' = Narrow
      BY <1>c DEF Lossy, Narrow
  <2> QED
      BY <1>a, <1>c, <2>1 DEF Working
<1>1. CASE UNCHANGED vars
    BY <1>1, <1>a, <1>c DEF vars, TypeInv
<1>2. CASE Sending
  <2>1. disc' \in Seq(Item)
      BY <1>2, <1>a, SMTT(30) DEF Sending
  <2>2. UNCHANGED <<config, requeued, dev>> /\ quota' = Quota /\ sent' = sent + 1
      BY <1>2 DEF Sending
  <2>3. quota' \in 0..Quota /\ sent' \in Nat
      BY <1>a, <1>b, <2>2
  <2> QED
      BY <1>a, <1>c, <2>1, <2>2, <2>3 DEF TypeInv
<1>3. CASE Ending
  <2>1. UNCHANGED <<config, sent, dev>> /\ quota' = 0
      BY <1>3 DEF Ending
  <2>2. disc' \in Seq(Item) /\ requeued' \in Seq(Item) /\ Len(requeued') <= 1
    <3>1. CASE disc' = disc /\ requeued' = requeued
        BY <1>a, <3>1
    <3>2. CASE disc # <<>> /\ requeued' = <<Head(disc)>> /\ disc' = Tail(disc)
      <4>1. Head(disc) \in Item /\ Tail(disc) \in Seq(Item)
          BY <1>a, <3>2
      <4>2. PICK x \in Item : x = Head(disc)
          BY <4>1
      <4>3. <<x>> \in Seq(Item) /\ Len(<<x>>) = 1
          OBVIOUS
      <4> QED
          BY <3>2, <4>1, <4>2, <4>3
    <3> QED
        BY <1>3, <3>1, <3>2 DEF Ending
  <2>3. quota' \in 0..Quota
      BY <1>b, <2>1
  <2> QED
      BY <1>a, <1>c, <2>1, <2>2, <2>3 DEF TypeInv
<1>4. CASE Transmitting
  <2>1. PICK item \in Item, e \in Device :
          /\ First(item, disc') /\ dev' = [dev EXCEPT ![item.txq] = e] /\ Working(e)
          /\ quota' = 0 \/ quota' = quota - 1
      BY <1>4 DEF Transmitting, Handed
  <2>2. quota # 0 /\ requeued' = <<>> /\ UNCHANGED <<config, sent>>
      BY <1>4 DEF Transmitting
  <2>3. item.txq \in Queues
      BY DEF Item
  <2>4. dev' \in [Queues -> Device] /\ \A q \in Queues : Working(dev[q])'
      BY <2>1, <2>2, <2>3, DeviceReplaced
  <2>5. disc' \in Seq(Item)
      BY <2>1, FirstTyped
  <2>6. quota' \in 0..Quota
      BY <1>a, <1>b, <2>1, <2>2
  <2>7. requeued' \in Seq(Item) /\ Len(requeued') <= 1
      BY <1>b, <2>2
  <2> QED
      BY <1>a, <2>2, <2>4, <2>5, <2>6, <2>7 DEF TypeInv
<1>5. CASE Waking
  <2>1. PICK q \in Queues, e \in Device : dev' = [dev EXCEPT ![q] = e] /\ Working(e)
      BY <1>5 DEF Waking
  <2>2. quota' = Quota /\ UNCHANGED <<config, sent, disc, requeued>>
      BY <1>5 DEF Waking
  <2>3. dev' \in [Queues -> Device] /\ \A k \in Queues : Working(dev[k])'
      BY <2>1, <2>2, DeviceReplaced
  <2>4. quota' \in 0..Quota
      BY <1>b, <2>2
  <2> QED
      BY <1>a, <2>2, <2>3, <2>4 DEF TypeInv
<1>6. CASE Completing
  <2>1. PICK q \in Queues, e \in Device : dev' = [dev EXCEPT ![q] = e] /\ Working(e)
      BY <1>6 DEF Completing, Advanced
  <2>2. UNCHANGED <<config, sent, disc, requeued, quota>>
      BY <1>6 DEF Completing
  <2>3. dev' \in [Queues -> Device] /\ \A k \in Queues : Working(dev[k])'
      BY <2>1, <2>2, DeviceReplaced
  <2> QED
      BY <1>a, <2>2, <2>3 DEF TypeInv
<1> QED
    BY <1>1, <1>2, <1>3, <1>4, <1>5, <1>6, StepMoves DEF Move

LEMMA TypeInit == Init => TypeInv
<1> SUFFICES ASSUME Init PROVE TypeInv
    OBVIOUS
<1>1. PICK none \in Seq(Packet) : none = <<>> /\ Len(none) = 0
    BY EmptySeq
<1> DEFINE d == [queue |-> none, nBytes |-> 0, current |-> none, wakes |-> 0,
                 stoppedByDevice |-> FALSE, stoppedByQueueLimits |-> FALSE, limits |-> Reset]
<1>2. Reset \in QueueLimits /\ Reset.inprogress = 0
    BY DEF Reset, QueueLimits
<1>3. /\ d \in Device /\ d.queue = none /\ d.nBytes = 0 /\ d.current = none
      /\ d.stoppedByDevice = FALSE /\ d.stoppedByQueueLimits = FALSE /\ d.limits = Reset
    BY <1>2 DEF Device
<1>4. dev = [q \in Queues |-> d]
    BY <1>1 DEF Init
<1> HIDE DEF d
<1>5. Ledger(d.queue, d.nBytes)
    BY <1>1, <1>3, LedgerEmpty
<1>8. config \in Config /\ sent = 0 /\ disc = <<>> /\ requeued = <<>> /\ quota = 0
    BY Assumptions DEF Init, Config
<1>6. Working(d)
  <2>1. ~Lossy => Len(d.queue) + 1 <= config.max
      BY <1>1, <1>3, <1>8, LossyTyped
  <2> QED
      BY <1>1, <1>2, <1>3, <1>5, <2>1 DEF Working
<1>7. dev \in [Queues -> Device] /\ \A q \in Queues : Working(dev[q])
    BY <1>3, <1>4, <1>6
<1>9. <<>> \in Seq(Item) /\ Len(<<>>) = 0 /\ Quota \in Nat
    BY EmptySeq, Assumptions
<1> QED
    BY <1>7, <1>8, <1>9 DEF TypeInv

-----------------------------------------------------------------------------
(* Nothing waits for nobody.                                               *)

\* Packets that wait while no run is under way wait for a wake or for a stopped queue.
Attended ==
    quota = 0 /\ ~(requeued = <<>> /\ disc = <<>>) =>
      \E q \in Queues : dev[q].wakes > 0 \/ Halted(dev[q])

LEMMA AttendedIsNoStall == TypeInv => (Attended <=> NoStall)
<1> SUFFICES ASSUME TypeInv PROVE Attended <=> NoStall
    OBVIOUS
<1>a. requeued \o disc = <<>> <=> requeued = <<>> /\ disc = <<>>
  <2>1. requeued \in Seq(Item) /\ disc \in Seq(Item)
      BY DEF TypeInv
  <2> QED
      BY <2>1, ConcatEmptySeq, ConcatProperties, EmptySeq
<1>b. ASSUME NEW q \in Queues
      PROVE  Halted(dev[q]) <=>
               \/ IsStopped(dev[q]) /\ dev[q].current # <<>> /\ dev[q].queue # <<>>
               \/ StoppedForEver(q)
  <2>1. dev[q] \in Device /\ Working(dev[q])
      BY DEF TypeInv
  <2>2. dev[q].stoppedByDevice \in BOOLEAN
      BY <2>1 DEF Device
  <2>3. dev[q].queue # <<>> => dev[q].current # <<>>
      BY <2>1 DEF Working
  <2>4. Halted(dev[q]) => dev[q].queue # <<>> \/ StoppedForEver(q)
      BY <2>1, <2>2 DEF Working, Halted, StoppedForEver
  <2>5. StoppedForEver(q) => Halted(dev[q])
      BY <2>2 DEF StoppedForEver, Halted
  <2> QED
      BY <2>1, <2>3, <2>4, <2>5, HaltedIsStopped
<1> QED
    BY <1>a, <1>b DEF Attended, NoStall, Tended, Idle

\* A run that ends leaves no packet unattended, unless it has just used up its quota.
LEMMA AttendedStep ==
    ASSUME TypeInv, TypeInv', Attended, [Next]_vars
    PROVE  Attended' \/ (quota = 1 /\ Transmitting /\ disc' # <<>>)
<1>a. /\ quota \in 0..Quota /\ dev \in [Queues -> Device]
      /\ Quota \in Nat /\ Quota # 0
    BY Assumptions DEF TypeInv
<1>1. CASE UNCHANGED vars
    BY <1>1 DEF vars, Attended, Halted
<1>2. CASE Sending \/ Waking
    BY <1>2, <1>a DEF Sending, Waking, Attended
<1>3. CASE Ending
    BY <1>3 DEF Ending, Attended, Halted
<1>4. CASE Transmitting
  <2>1. PICK item \in Item, e \in Device :
          /\ First(item, disc') /\ dev' = [dev EXCEPT ![item.txq] = e]
          /\ \/ quota' = 0 /\ (disc' = <<>> \/ Halted(e))
             \/ quota' = quota - 1
      BY <1>4 DEF Transmitting
  <2>2. quota # 0 /\ requeued' = <<>>
      BY <1>4 DEF Transmitting
  <2>3. item.txq \in Queues /\ dev'[item.txq] = e
      BY <1>a, <2>1 DEF Item
  <2>4. CASE disc' = <<>>
      BY <2>2, <2>4 DEF Attended
  <2>5. CASE quota' = 0 /\ Halted(e)
      BY <2>3, <2>5 DEF Attended, Halted
  <2>6. CASE quota' = quota - 1 /\ disc' # <<>>
      BY <1>4, <1>a, <2>2, <2>6 DEF Attended
  <2> QED
      BY <2>1, <2>4, <2>5, <2>6
<1>5. CASE Completing
  <2>1. PICK q \in Queues, e \in Device : dev' = [dev EXCEPT ![q] = e] /\ Advanced(dev[q], e)
      BY <1>5 DEF Completing
  <2>2. quota = 0 /\ UNCHANGED <<disc, requeued, quota>>
      BY <1>5 DEF Completing
  <2>3. dev'[q] = e /\ \A k \in Queues : k # q => dev'[k] = dev[k]
      BY <1>a, <2>1
  <2>4. ASSUME ~(requeued = <<>> /\ disc = <<>>)
        PROVE  \E k \in Queues : dev'[k].wakes > 0 \/ Halted(dev'[k])
    <3>1. PICK k \in Queues : dev[k].wakes > 0 \/ Halted(dev[k])
        BY <2>2, <2>4 DEF Attended
    <3>2. CASE k # q
        BY <2>3, <3>1, <3>2
    <3>3. CASE k = q
      <4>1. dev[q].wakes \in Nat /\ e.wakes \in Nat
          BY <1>a DEF Device
      <4>2. e.wakes > 0 \/ Halted(e)
          BY <2>1, <3>1, <3>3, <4>1 DEF Advanced
      <4> QED
          BY <2>3, <4>2
    <3> QED
        BY <3>2, <3>3
  <2> QED
      BY <2>2, <2>4 DEF Attended, Halted
<1> QED
    BY <1>1, <1>2, <1>3, <1>4, <1>5, StepMoves DEF Move

\* What can leave packets waiting for nobody, whatever the sizes, the limits and the
\* quota are.
StallsAreKnown ==
    [][Tended => \/ Tended'
                 \/ quota = 1 /\ quota' = 0
                 \/ \E q \in Queues : StoppedForEver(q)']_vars

\* There are two ways to stall a queue disc and no third: a quota that is used up
\* (QueueDisc::Run leaves its loop then and, unlike the code it follows, does not schedule
\* another run), and a transmission queue without room for a full packet, which
\* PacketDiscarded or PacketDequeued leaves stopped and empty.
THEOREM TwoWaysToStall == Spec => StallsAreKnown
<1>a. TypeInv' => (Attended' <=> NoStall')
    BY AttendedIsNoStall, PTL
<1>1. TypeInv /\ TypeInv' /\ [Next]_vars =>
        [Tended => \/ Tended'
                   \/ quota = 1 /\ quota' = 0
                   \/ \E q \in Queues : StoppedForEver(q)']_vars
  <2> SUFFICES ASSUME TypeInv, TypeInv', [Next]_vars, Tended, ~Tended',
                      ~\E q \in Queues : StoppedForEver(q)'
               PROVE  quota = 1 /\ quota' = 0
      OBVIOUS
  <2>1. NoStall /\ ~NoStall'
      BY DEF NoStall
  <2>2. Attended /\ ~Attended'
      BY <1>a, <2>1, AttendedIsNoStall
  <2>3. quota = 1
      BY <2>2, AttendedStep
  <2>4. quota' = 0
      BY <2>2 DEF Attended
  <2> QED
      BY <2>3, <2>4
<1> QED
    BY <1>1, TypeInit, TypeStep, PTL DEF Spec, StallsAreKnown

\* A queue that was empty when it was stopped stays so.
StopsForEver == \A q \in Queues : [][StoppedForEver(q) => StoppedForEver(q)']_vars

LEMMA StopStep ==
    ASSUME TypeInv, [Next]_vars, NEW q \in Queues, StoppedForEver(q)
    PROVE  StoppedForEver(q)'
<1>a. /\ dev \in [Queues -> Device] /\ config \in Config
      /\ dev[q].stoppedByDevice = TRUE /\ dev[q].queue = <<>>
  <2>1. dev \in [Queues -> Device] /\ config \in Config
      BY DEF TypeInv
  <2>2. dev[q].stoppedByDevice \in BOOLEAN
      BY <2>1 DEF Device
  <2> QED
      BY <2>1, <2>2 DEF StoppedForEver
<1>b. Narrow
    BY DEF StoppedForEver
<1>c. ASSUME config' = config, dev'[q].stoppedByDevice = TRUE, dev'[q].queue = <<>>
      PROVE  StoppedForEver(q)'
    BY <1>b, <1>c DEF StoppedForEver, Narrow
<1>1. CASE UNCHANGED <<config, dev>>
    BY <1>1, <1>a, <1>c
<1>2. CASE RestartTransmit
  <2>1. UNCHANGED config /\ DequeuePacket # <<>> /\ ~IsStopped(dev[DequeuePacket[1].txq])
      BY <1>2 DEF RestartTransmit
  <2>2. DequeuePacket[1].txq # q
      BY <1>a, <2>1 DEF IsStopped
  <2>3. dev'[q] = dev[q]
      BY <1>2, <1>a, <2>2 DEF RestartTransmit
  <2> QED
      BY <1>a, <1>c, <2>1, <2>3
<1>3. ASSUME NEW k \in Queues, WakeCallback(k) PROVE StoppedForEver(q)'
  <2>1. UNCHANGED config /\ dev' = [dev EXCEPT ![k].wakes = @ - 1]
      BY <1>3 DEF WakeCallback
  <2>2. dev'[q].stoppedByDevice = dev[q].stoppedByDevice /\ dev'[q].queue = dev[q].queue
      BY <1>a, <2>1 DEF Device
  <2> QED
      BY <1>a, <1>c, <2>1, <2>2
<1>4. ASSUME NEW k \in Queues, TransmitComplete(k) PROVE StoppedForEver(q)'
  <2>1. UNCHANGED config
      BY <1>4 DEF TransmitComplete
  <2>2. CASE k # q
    <3>1. dev'[q] = dev[q]
        BY <1>4, <1>a, <2>2 DEF TransmitComplete
    <3> QED
        BY <1>a, <1>c, <2>1, <3>1
  <2>3. CASE k = q
    <3> DEFINE d == [dev[q] EXCEPT !.current = <<>>]
    <3>1. dev[q] \in Device
        BY <1>a
    <3>2. d.queue = dev[q].queue /\ d.stoppedByDevice = dev[q].stoppedByDevice
        BY <3>1, CurrentSet
    <3>3. IF d.queue = <<>> THEN dev' = [dev EXCEPT ![q] = d]
          ELSE \E limit \in NewLimits :
                 dev' = [dev EXCEPT ![q] = TransmitStart(Dequeue(d, limit), Head(d.queue))]
        BY <1>4, <2>3 DEF TransmitComplete
    <3> HIDE DEF d
    <3>4. dev'[q] = d
        BY <1>a, <3>2, <3>3
    <3> QED
        BY <1>a, <1>c, <2>1, <3>2, <3>4
  <2> QED
      BY <2>2, <2>3
<1>5. ASSUME NEW k \in 1..config.ntx, NEW size \in Sizes, Send(k, size)
      PROVE  UNCHANGED <<config, dev>>
    BY <1>5 DEF Send
<1>6. RestartNoPacket \/ RestartRequeue \/ UNCHANGED vars => UNCHANGED <<config, dev>>
    BY DEF RestartNoPacket, RestartRequeue, vars
<1> QED
    BY <1>1, <1>2, <1>3, <1>4, <1>5, <1>6 DEF Next, Step, Restart

\* A transmission queue that is stopped while it is empty and has no room for a full
\* packet is stopped for ever (StoppedForEver): a queue is only woken by a packet that
\* leaves it, and none enters it.
THEOREM EmptyStopIsForEver == Spec => StopsForEver
<1>1. ASSUME NEW q \in Queues
      PROVE  Spec => [][StoppedForEver(q) => StoppedForEver(q)']_vars
  <2>1. TypeInv /\ [Next]_vars => [StoppedForEver(q) => StoppedForEver(q)']_vars
      BY StopStep
  <2> QED
      BY <2>1, TypeInit, TypeStep, PTL DEF Spec
<1>2. \A q \in Queues : (Spec => [][StoppedForEver(q) => StoppedForEver(q)']_vars)
    BY <1>1
<1> QED
    BY <1>2 DEF StopsForEver

\* With room for all packets in a quota, a run ends before its quota does.
Waiting ==
    /\ Len(disc) <= MaxSize
    /\ quota # 0 => Len(requeued) + Len(disc) <= quota
    /\ Attended

LEMMA WaitingStep ==
    ASSUME Quota > MaxSize, TypeInv, TypeInv', Waiting, [Next]_vars
    PROVE  Waiting'
<1>a. /\ quota \in 0..Quota /\ disc \in Seq(Item) /\ Len(disc) \in Nat
      /\ requeued \in Seq(Item) /\ Len(requeued) \in Nat /\ Len(requeued) <= 1
      /\ dev \in [Queues -> Device]
    BY DEF TypeInv
<1>b. Quota \in Nat /\ Quota # 0 /\ MaxSize \in Nat
    BY Assumptions
<1>c. disc' \in Seq(Item) /\ Len(disc') \in Nat
    BY DEF TypeInv
<1>d. /\ Len(disc) <= MaxSize
      /\ quota # 0 => Len(requeued) + Len(disc) <= quota
    BY DEF Waiting
<1>e. Attended' \/ (quota = 1 /\ Transmitting /\ disc' # <<>>)
    BY AttendedStep DEF Waiting
<1>1. CASE UNCHANGED vars
    BY <1>1 DEF vars, Waiting, Attended, Halted
<1>2. CASE Sending
  <2>1. Len(disc') <= MaxSize
      BY <1>2, <1>a, <1>d DEF Sending
  <2>2. quota' = Quota /\ requeued' = requeued
      BY <1>2 DEF Sending
  <2> QED
      BY <1>a, <1>b, <1>c, <2>1, <2>2 DEF Waiting, Attended
<1>3. CASE Ending
  <2>1. Len(disc') <= MaxSize
    <3>1. disc' = disc \/ (disc # <<>> /\ disc' = Tail(disc))
        BY <1>3 DEF Ending
    <3>2. disc # <<>> => Len(Tail(disc)) = Len(disc) - 1
        BY <1>a
    <3> QED
        BY <1>a, <1>b, <1>d, <3>1, <3>2
  <2>2. quota' = 0
      BY <1>3 DEF Ending
  <2>3. Attended'
      BY <1>3 DEF Ending, Attended, Halted
  <2> QED
      BY <2>1, <2>2, <2>3 DEF Waiting
<1>4. CASE Transmitting
  <2>1. PICK item \in Item : First(item, disc')
      BY <1>4 DEF Transmitting
  <2>2. quota # 0 /\ requeued' = <<>> /\ (disc' # <<>> => quota' \in {0, quota - 1})
      BY <1>4 DEF Transmitting
  <2>3. Len(requeued) + Len(disc) = Len(disc') + 1
      BY <2>1, FirstTyped
  <2>4. Len(requeued') = 0
      BY <2>2
  <2>5. Len(disc') <= MaxSize
      BY <1>a, <1>b, <1>c, <1>d, <2>3
  <2>6. Len(disc') + 1 <= quota
      BY <1>d, <2>2, <2>3
  <2>7. disc' # <<>> => Len(disc') \in Nat \ {0}
      BY <1>c, EmptySeq
  <2>8. Attended'
      BY <1>c, <1>e, <2>6, <2>7
  <2>9. CASE disc' # <<>>
      BY <1>a, <1>c, <2>2, <2>4, <2>5, <2>6, <2>8, <2>9 DEF Waiting
  <2>10. CASE disc' = <<>>
    <3>1. Len(disc') = 0
        BY <2>10
    <3>2. quota' \in Nat
        BY <1>b DEF TypeInv
    <3> QED
        BY <2>4, <2>5, <2>8, <3>1, <3>2 DEF Waiting
  <2> QED
      BY <2>9, <2>10
<1>5. CASE Waking
  <2>1. quota' = Quota /\ UNCHANGED <<disc, requeued>>
      BY <1>5 DEF Waking
  <2> QED
      BY <1>a, <1>b, <1>d, <2>1 DEF Waiting, Attended
<1>6. CASE Completing
  <2>1. quota = 0 /\ UNCHANGED <<disc, requeued, quota>>
      BY <1>6 DEF Completing
  <2> QED
      BY <1>d, <1>e, <2>1 DEF Waiting
<1> QED
    BY <1>1, <1>2, <1>3, <1>4, <1>5, <1>6, StepMoves DEF Move

\* No packet waits in the queue disc for nobody, but behind a queue that is stopped for
\* ever (NoStall), whatever the sizes and the queue limits are, if the queue disc holds
\* fewer packets than the quota of a run.
THEOREM OnlyNarrowQueuesStall == ASSUME Quota > MaxSize PROVE Spec => []NoStall
<1>1. Init => Waiting
  <2> SUFFICES ASSUME Init PROVE Waiting
      OBVIOUS
  <2>1. disc = <<>> /\ requeued = <<>> /\ quota = 0 /\ MaxSize \in Nat
      BY Assumptions DEF Init
  <2>2. Len(disc) = 0
      BY <2>1
  <2> QED
      BY <2>1, <2>2 DEF Waiting, Attended
<1>2. TypeInv /\ Waiting => NoStall
    BY AttendedIsNoStall DEF Waiting
<1> QED
    BY <1>1, <1>2, TypeInit, TypeStep, WaitingStep, PTL DEF Spec

\* No packet waits in the queue disc for nobody, whatever the queue limits do, if every
\* transmission queue has room for a full packet when it is empty and the queue disc
\* holds fewer packets than the quota of a run.  The code enforces neither.
THEOREM WideQueuesDoNotStall ==
    ASSUME Quota > MaxSize, 0 \notin DeviceMaxPackets,
           \A m \in DeviceMaxBytes : m >= Mtu + HeaderSize
    PROVE  Spec => []Tended
<1> DEFINE Wide == ~Narrow
<1>1. Init => Wide
  <2> SUFFICES ASSUME Init PROVE ~Narrow
      OBVIOUS
  <2>1. CASE config.unit = "packets" /\ config.max \in DeviceMaxPackets
      BY <2>1 DEF Narrow
  <2>2. CASE config.unit = "bytes" /\ config.max \in DeviceMaxBytes
    <3>1. config.max >= Mtu + HeaderSize
        BY <2>2, Zenon
    <3>2. ~(config.max < Mtu + HeaderSize)
      <4>1. Mtu + HeaderSize \in Nat
          BY Assumptions
      <4>2. config.max \in Nat
          BY <2>2, DeviceMaxAssumption, Zenon
      <4> QED
          BY <3>1, <4>1, <4>2
    <3>3. config.unit # "packets"
        BY <2>2
    <3> QED
        BY <3>2, <3>3, Zenon DEF Narrow
  <2> QED
      BY <2>1, <2>2 DEF Init
<1>2. Wide /\ TypeInv /\ [Next]_vars => Wide'
  <2> SUFFICES ASSUME ~Narrow, TypeInv, [Next]_vars PROVE ~Narrow'
      OBVIOUS
  <2>1. config' = config
      BY StepMoves DEF Move, vars, Sending, Ending, Transmitting, Waking, Completing
  <2> QED
      BY <2>1 DEF Narrow
<1>3. Wide /\ NoStall => Tended
    BY DEF NoStall, StoppedForEver
<1> QED
    BY <1>1, <1>2, <1>3, OnlyNarrowQueuesStall, TypeInit, TypeStep, PTL DEF Spec

-----------------------------------------------------------------------------
(* The packets of a sequence for one queue.                                *)

\* f[i] is what the first i packets of s have for queue q.
Sifted(q, s, f, n) ==
    /\ f \in [0..n -> Seq(Packet)]
    /\ f[0] = <<>>
    /\ \A i \in 1..n : f[i] = IF s[i].txq = q THEN Append(f[i - 1], s[i]) ELSE f[i - 1]

\* A nonempty set of natural numbers has a least element.
LEMMA LeastNumber ==
    ASSUME NEW S \in SUBSET Nat, S # {}
    PROVE  \E x \in S : \A y \in S : x <= y
<1> DEFINE R == {p \in Nat \X Nat : p[1] < p[2]}
<1>1. IsWellFoundedOn(R, Nat)
    BY NatLessThanWellFounded DEF OpToRel
<1> HIDE DEF R
<1>2. PICK x \in S : \A y \in S : ~(<<y, x>> \in R)
    BY <1>1, WFMin
<1>3. ASSUME NEW y \in S PROVE x <= y
  <2>1. x \in Nat /\ y \in Nat
      OBVIOUS
  <2>2. ~(y < x)
      BY <1>2, <2>1 DEF R
  <2> QED
      BY <2>1, <2>2
<1> QED
    BY <1>3

LEMMA SiftedExists ==
    ASSUME NEW q, NEW s \in Seq(Packet)
    PROVE  \A n \in 0..Len(s) : \E f : Sifted(q, s, f, n)
<1> DEFINE Bad == {n \in 0..Len(s) : ~\E f : Sifted(q, s, f, n)}
<1>a. Len(s) \in Nat /\ \A i \in 1..Len(s) : s[i] \in Packet
    OBVIOUS
<1>b. PICK none : none = <<>> /\ none \in Seq(Packet)
    BY EmptySeq
<1>1. SUFFICES ASSUME Bad # {} PROVE FALSE
    OBVIOUS
<1>2. PICK n \in Bad : \A m \in Bad : n <= m
  <2>1. Bad \in SUBSET Nat
      BY <1>a
  <2> HIDE DEF Bad
  <2> QED
      BY <1>1, <2>1, LeastNumber
<1>3. n \in 0..Len(s) /\ ~\E f : Sifted(q, s, f, n)
    OBVIOUS
<1>4. CASE n = 0
  <2> DEFINE f == [i \in 0..0 |-> none]
  <2>1. f \in [0..0 -> Seq(Packet)] /\ f[0] = <<>>
      BY <1>b
  <2> HIDE DEF f
  <2>2. Sifted(q, s, f, 0)
      BY <2>1 DEF Sifted
  <2> QED
      BY <1>3, <1>4, <2>2
<1>5. CASE n # 0
  <2>1. n - 1 \in 0..Len(s) /\ n \in 1..Len(s) /\ ~(n <= n - 1)
      BY <1>a, <1>3, <1>5
  <2>2. PICK g : Sifted(q, s, g, n - 1)
      BY <1>2, <2>1
  <2>3. g \in [0..n - 1 -> Seq(Packet)] /\ g[0] = <<>>
        /\ \A i \in 1..n - 1 : g[i] = IF s[i].txq = q THEN Append(g[i - 1], s[i]) ELSE g[i - 1]
      BY <2>2 DEF Sifted
  <2>4. PICK t \in Seq(Packet) :
          t = IF s[n].txq = q THEN Append(g[n - 1], s[n]) ELSE g[n - 1]
    <3>1. g[n - 1] \in Seq(Packet)
        BY <2>1, <2>3
    <3>2. s[n] \in Packet
        BY <1>a, <2>1
    <3>3. Append(g[n - 1], s[n]) \in Seq(Packet)
        BY <3>1, <3>2, AppendProperties
    <3> QED
        BY <3>1, <3>3, Zenon
  <2> DEFINE f == [i \in 0..n |-> IF i = n THEN t ELSE g[i]]
  <2>5. ASSUME NEW i \in 0..n - 1 PROVE i \in 0..n /\ f[i] = g[i]
      BY <2>1
  <2>6. n \in 0..n /\ f[n] = t
      BY <2>1
  <2>7. f \in [0..n -> Seq(Packet)]
    <3>1. ASSUME NEW i \in 0..n PROVE (IF i = n THEN t ELSE g[i]) \in Seq(Packet)
      <4>1. i # n => i \in 0..n - 1
          BY <2>1
      <4> QED
          BY <2>3, <2>4, <4>1
    <3> QED
        BY <3>1
  <2> HIDE DEF f
  <2>8. f[0] = <<>>
      BY <2>1, <2>3, <2>5
  <2>9. ASSUME NEW i \in 1..n
        PROVE  f[i] = IF s[i].txq = q THEN Append(f[i - 1], s[i]) ELSE f[i - 1]
    <3>1. i - 1 \in 0..n - 1 /\ (i # n => i \in 1..n - 1 /\ i \in 0..n - 1)
        BY <2>1
    <3>2. f[i - 1] = g[i - 1]
        BY <2>5, <3>1
    <3>3. CASE i = n
        BY <2>4, <2>6, <3>2, <3>3
    <3>4. CASE i # n
        BY <2>3, <2>5, <3>1, <3>2, <3>4
    <3> QED
        BY <3>3, <3>4
  <2>10. Sifted(q, s, f, n)
      BY <2>7, <2>8, <2>9 DEF Sifted
  <2> QED
      BY <1>3, <2>10
<1> QED
    BY <1>4, <1>5

\* For is computed by a function that sifts.
LEMMA ForIsSifted ==
    ASSUME NEW q, NEW s \in Seq(Packet)
    PROVE  \E f : Sifted(q, s, f, Len(s)) /\ For(q, s) = f[Len(s)]
<1> DEFINE E(g) == [i \in 0..Len(s) |->
                      IF i = 0 THEN <<>>
                      ELSE IF s[i].txq = q THEN Append(g[i - 1], s[i]) ELSE g[i - 1]]
           F == CHOOSE g : g = E(g)
<1>a. Len(s) \in Nat /\ \A i \in 1..Len(s) : s[i] \in Packet
    OBVIOUS
<1>1. For(q, s) = F[Len(s)]
    BY DEF For
<1>2. PICK f : Sifted(q, s, f, Len(s))
  <2>1. Len(s) \in 0..Len(s)
      BY <1>a
  <2> QED
      BY <2>1, SiftedExists, Zenon
<1>3. f = E(f)
  <2>1. ASSUME NEW i \in 0..Len(s) PROVE f[i] = E(f)[i]
    <3>1. i # 0 => i \in 1..Len(s)
        BY <1>a
    <3> QED
        BY <1>2, <3>1 DEF Sifted
  <2>2. f \in [0..Len(s) -> Seq(Packet)]
      BY <1>2 DEF Sifted
  <2> QED
      BY <2>1, <2>2
<1>4. F = E(F)
    BY <1>3
<1> HIDE DEF F
<1>5. \A i \in 0..Len(s) : F[i] = IF i = 0 THEN <<>>
                      ELSE IF s[i].txq = q THEN Append(F[i - 1], s[i]) ELSE F[i - 1]
    BY <1>4
<1>6. F = f
  <2> DEFINE Bad == {i \in 0..Len(s) : F[i] # f[i]}
  <2>1. CASE Bad = {}
    <3>1. \A i \in 0..Len(s) : E(F)[i] = f[i]
        BY <1>4, <2>1
    <3>2. f = [i \in 0..Len(s) |-> f[i]]
        BY <1>3
    <3> QED
        BY <1>4, <3>1, <3>2
  <2>2. CASE Bad # {}
    <3>1. PICK i \in Bad : \A k \in Bad : i <= k
      <4>1. Bad \in SUBSET Nat
          BY <1>a
      <4> HIDE DEF Bad
      <4> QED
          BY <2>2, <4>1, LeastNumber
    <3>2. i \in 0..Len(s) /\ F[i] # f[i]
        OBVIOUS
    <3>3. i # 0
        BY <1>2, <1>5, <3>2 DEF Sifted
    <3>4. i \in 1..Len(s) /\ i - 1 \in 0..Len(s) /\ ~(i <= i - 1)
        BY <1>a, <3>2, <3>3
    <3>5. F[i - 1] = f[i - 1]
        BY <3>1, <3>4
    <3>6. F[i] = IF s[i].txq = q THEN Append(F[i - 1], s[i]) ELSE F[i - 1]
        BY <1>5, <3>2, <3>3
    <3>7. f[i] = IF s[i].txq = q THEN Append(f[i - 1], s[i]) ELSE f[i - 1]
        BY <1>2, <3>4 DEF Sifted
    <3> QED
        BY <3>2, <3>5, <3>6, <3>7
  <2> QED
      BY <2>1, <2>2
<1> QED
    BY <1>1, <1>2, <1>6

Alike(s, t, n) == \A i \in 1..n : s[i] = t[i]

\* Two sequences that begin alike are sifted alike.
LEMMA SiftedUnique ==
    ASSUME NEW q, NEW s, NEW t, NEW f, NEW g, NEW n \in Nat, NEW m \in Nat, n <= m,
           Sifted(q, s, f, n), Sifted(q, t, g, m), Alike(s, t, n)
    PROVE  f[n] = g[n]
<1> DEFINE Bad == {i \in 0..n : f[i] # g[i]}
<1>1. SUFFICES ASSUME Bad # {} PROVE FALSE
    OBVIOUS
<1>2. PICK i \in Bad : \A k \in Bad : i <= k
  <2>1. Bad \in SUBSET Nat
      OBVIOUS
  <2> HIDE DEF Bad
  <2> QED
      BY <1>1, <2>1, LeastNumber
<1>3. i \in 0..n /\ f[i] # g[i]
    OBVIOUS
<1>4. i # 0
    BY <1>3 DEF Sifted
<1>5. i \in 1..n /\ i \in 1..m /\ i - 1 \in 0..n /\ ~(i <= i - 1)
    BY <1>3, <1>4
<1>6. f[i - 1] = g[i - 1] /\ s[i] = t[i]
    BY <1>2, <1>5 DEF Alike
<1>7. f[i] = IF s[i].txq = q THEN Append(f[i - 1], s[i]) ELSE f[i - 1]
    BY <1>5 DEF Sifted
<1>8. g[i] = IF t[i].txq = q THEN Append(g[i - 1], t[i]) ELSE g[i - 1]
    BY <1>5 DEF Sifted
<1> QED
    BY <1>3, <1>6, <1>7, <1>8

LEMMA ForTyped ==
    ASSUME NEW q, NEW s \in Seq(Packet)
    PROVE  For(q, s) \in Seq(Packet)
<1>1. PICK f : Sifted(q, s, f, Len(s)) /\ For(q, s) = f[Len(s)]
    BY ForIsSifted
<1>2. Len(s) \in 0..Len(s) /\ f \in [0..Len(s) -> Seq(Packet)]
  <2>1. Len(s) \in Nat
      OBVIOUS
  <2> QED
      BY <1>1, <2>1 DEF Sifted
<1> QED
    BY <1>1, <1>2

LEMMA ForEmpty == \A q : For(q, <<>>) = <<>>
<1> SUFFICES ASSUME NEW q PROVE For(q, <<>>) = <<>>
    OBVIOUS
<1>1. PICK none \in Seq(Packet) : none = <<>> /\ Len(none) = 0
    BY EmptySeq
<1>2. PICK f : Sifted(q, none, f, Len(none)) /\ For(q, none) = f[Len(none)]
    BY ForIsSifted
<1> QED
    BY <1>1, <1>2 DEF Sifted

\* A packet that joins the queue comes last.
LEMMA ForAppend ==
    ASSUME NEW q, NEW s \in Seq(Packet), NEW x \in Packet
    PROVE  For(q, Append(s, x)) = IF x.txq = q THEN Append(For(q, s), x) ELSE For(q, s)
<1> DEFINE n == Len(s)
<1>1. PICK t \in Seq(Packet) : /\ t = Append(s, x) /\ Len(t) = n + 1 /\ t[n + 1] = x
                               /\ \A i \in 1..n : s[i] = t[i]
  <2>1. /\ Append(s, x) \in Seq(Packet) /\ Len(Append(s, x)) = n + 1
        /\ \A i \in 1..n : Append(s, x)[i] = s[i]
        /\ Append(s, x)[n + 1] = x
      BY AppendProperties
  <2> QED
      BY <2>1, Zenon
<1>2. n \in Nat
    OBVIOUS
<1>3. PICK f : Sifted(q, s, f, n) /\ For(q, s) = f[n]
    BY ForIsSifted
<1>4. PICK g : Sifted(q, t, g, n + 1) /\ For(q, t) = g[n + 1]
  <2>1. PICK g : Sifted(q, t, g, Len(t)) /\ For(q, t) = g[Len(t)]
      BY ForIsSifted
  <2> QED
      BY <1>1, <2>1
<1> HIDE DEF n
<1>5. n + 1 \in Nat /\ n <= n + 1 /\ n + 1 \in 1..n + 1 /\ (n + 1) - 1 = n
    BY <1>2
<1>6. f[n] = g[n]
  <2>1. PICK m \in Nat : m = n + 1
      BY <1>5
  <2>2. Sifted(q, t, g, m) /\ n <= m
      BY <1>4, <1>5, <2>1
  <2>3. Sifted(q, s, f, n) /\ n \in Nat /\ Alike(s, t, n)
      BY <1>1, <1>2, <1>3 DEF Alike
  <2> QED
      BY <2>2, <2>3, SiftedUnique
<1>7. g[n + 1] = IF t[n + 1].txq = q THEN Append(g[n], t[n + 1]) ELSE g[n]
    BY <1>4, <1>5 DEF Sifted
<1> QED
    BY <1>1, <1>3, <1>4, <1>6, <1>7

LEMMA ConcatAppend ==
    ASSUME NEW a \in Seq(Packet), NEW b \in Seq(Packet), NEW x \in Packet
    PROVE  Append(a \o b, x) = a \o Append(b, x)
OBVIOUS

\* The packet in front comes first.
LEMMA ForHead ==
    ASSUME NEW q, NEW s \in Seq(Packet), NEW x \in Packet
    PROVE  For(q, <<x>> \o s) = IF x.txq = q THEN <<x>> \o For(q, s) ELSE For(q, s)
<1> DEFINE n == Len(s)
<1>a. n \in Nat
    OBVIOUS
<1>1. PICK t \in Seq(Packet) : /\ t = <<x>> \o s /\ Len(t) = n + 1 /\ t[1] = x
                               /\ \A i \in 1..n : t[i + 1] = s[i]
  <2>1. <<x>> \in Seq(Packet) /\ Len(<<x>>) = 1 /\ <<x>>[1] = x
      OBVIOUS
  <2>2. (<<x>> \o s) \in Seq(Packet) /\ Len(<<x>> \o s) = 1 + n
      BY <2>1, ConcatProperties
  <2>3. \A i \in 1..(1 + n) : (<<x>> \o s)[i] = IF i <= 1 THEN <<x>>[i] ELSE s[i - 1]
      BY <2>1, ConcatProperties
  <2> HIDE DEF n
  <2>4. 1 \in 1..(1 + n) /\ (<<x>> \o s)[1] = x
      BY <1>a, <2>1, <2>3
  <2>5. ASSUME NEW i \in 1..n PROVE (<<x>> \o s)[i + 1] = s[i]
    <3>1. i + 1 \in 1..(1 + n) /\ ~(i + 1 <= 1) /\ (i + 1) - 1 = i
        BY <1>a
    <3> QED
        BY <2>3, <3>1
  <2>6. 1 + n = n + 1
      BY <1>a
  <2> QED
      BY <2>2, <2>4, <2>5, <2>6
<1>2. PICK g : Sifted(q, s, g, n) /\ For(q, s) = g[n]
    BY ForIsSifted
<1>3. PICK f : Sifted(q, t, f, n + 1) /\ For(q, t) = f[n + 1]
  <2>1. PICK f : Sifted(q, t, f, Len(t)) /\ For(q, t) = f[Len(t)]
      BY ForIsSifted
  <2> QED
      BY <1>1, <2>1
<1>4. PICK h \in Seq(Packet) : h = IF x.txq = q THEN <<x>> ELSE <<>>
  <2>1. <<x>> \in Seq(Packet) /\ <<>> \in Seq(Packet)
      BY EmptySeq
  <2> QED
      BY <2>1, Zenon
<1> HIDE DEF n
<1>5. \A i \in 0..n : g[i] \in Seq(Packet)
    BY <1>2 DEF Sifted
<1>6. \A i \in 0..n : f[i + 1] = h \o g[i]
  <2> DEFINE Bad == {i \in 0..n : f[i + 1] # h \o g[i]}
  <2>1. SUFFICES ASSUME Bad # {} PROVE FALSE
      OBVIOUS
  <2>2. PICK i \in Bad : \A k \in Bad : i <= k
    <3>1. Bad \in SUBSET Nat
        BY <1>a
    <3> HIDE DEF Bad
    <3> QED
        BY <2>1, <3>1, LeastNumber
  <2>3. i \in 0..n /\ f[i + 1] # h \o g[i]
      OBVIOUS
  <2>4. i + 1 \in 1..n + 1 /\ (i + 1) - 1 = i
      BY <1>a, <2>3
  <2>5. f[i + 1] = IF t[i + 1].txq = q THEN Append(f[i], t[i + 1]) ELSE f[i]
      BY <1>3, <2>4 DEF Sifted
  <2>6. CASE i = 0
    <3>1. f[0] = <<>> /\ g[0] = <<>> /\ t[0 + 1] = x
        BY <1>1, <1>2, <1>3 DEF Sifted
    <3>2. h \o <<>> = h /\ Append(<<>>, x) = <<x>>
        BY ConcatEmptySeq
    <3> QED
        BY <1>4, <2>3, <2>5, <2>6, <3>1, <3>2
  <2>7. CASE i # 0
    <3>1. i \in 1..n /\ i - 1 \in 0..n /\ ~(i <= i - 1) /\ (i - 1) + 1 = i
        BY <1>a, <2>3, <2>7
    <3>2. f[i] = h \o g[i - 1]
        BY <2>2, <3>1
    <3>3. t[i + 1] = s[i] /\ s[i] \in Packet
        BY <1>1, <3>1 DEF n
    <3>4. g[i] = IF s[i].txq = q THEN Append(g[i - 1], s[i]) ELSE g[i - 1]
        BY <1>2, <3>1 DEF Sifted
    <3>6. Append(h \o g[i - 1], s[i]) = h \o Append(g[i - 1], s[i])
      <4>1. g[i - 1] \in Seq(Packet)
          BY <1>5, <3>1
      <4>2. PICK u \in Seq(Packet), y \in Packet : u = g[i - 1] /\ y = s[i]
          BY <3>3, <4>1
      <4>4. Append(h \o u, y) = h \o Append(u, y)
          BY ConcatAppend
      <4> QED
          BY <4>2, <4>4
    <3> QED
        BY <2>3, <2>5, <3>2, <3>3, <3>4, <3>6
  <2> QED
      BY <2>6, <2>7
<1>7. f[n + 1] = h \o g[n]
    BY <1>a, <1>6
<1>8. <<>> \o g[n] = g[n]
    BY <1>a, <1>5, ConcatEmptySeq
<1> QED
    BY <1>1, <1>2, <1>3, <1>4, <1>7, <1>8

-----------------------------------------------------------------------------
(* The numbers of packets.                                                 *)

LEMMA IdsTyped ==
    ASSUME NEW s \in Seq(Packet)
    PROVE  Ids(s) \in Seq(Nat) /\ Len(Ids(s)) = Len(s) /\ \A i \in 1..Len(s) : Ids(s)[i] = s[i].id
<1>1. Len(s) \in Nat /\ DOMAIN s = 1..Len(s) /\ \A i \in 1..Len(s) : s[i] \in Packet
    OBVIOUS
<1>2. \A i \in 1..Len(s) : s[i].id \in Nat
    BY <1>1 DEF Packet
<1>3. Ids(s) = [i \in 1..Len(s) |-> s[i].id]
    BY <1>1 DEF Ids
<1> QED
    BY <1>1, <1>2, <1>3, IsASeq

Join(a, b, c) ==
    /\ c = a \o b /\ Len(c) = Len(a) + Len(b)
    /\ \A i \in 1..Len(a) : c[i] = a[i]
    /\ \A i \in 1..Len(b) : c[Len(a) + i] = b[i]

LEMMA Joined ==
    ASSUME NEW S, NEW a \in Seq(S), NEW b \in Seq(S)
    PROVE  \E c \in Seq(S) : Join(a, b, c)
<1>1. Len(a) \in Nat /\ Len(b) \in Nat
    OBVIOUS
<1>2. a \o b \in Seq(S) /\ Len(a \o b) = Len(a) + Len(b)
    BY ConcatProperties
<1>3. \A i \in 1..Len(a) : (a \o b)[i] = a[i]
    BY <1>1, ConcatProperties
<1>4. \A i \in 1..Len(b) : (a \o b)[Len(a) + i] = b[i]
    BY <1>1, ConcatProperties
<1> QED
    BY <1>2, <1>3, <1>4, Zenon DEF Join

LEMMA IdsConcat ==
    ASSUME NEW a \in Seq(Packet), NEW b \in Seq(Packet)
    PROVE  Ids(a \o b) = Ids(a) \o Ids(b)
<1>1. PICK m \in Nat, n \in Nat : m = Len(a) /\ n = Len(b)
    OBVIOUS
<1>2. PICK ab \in Seq(Packet) : /\ ab = a \o b /\ Len(ab) = m + n
                                /\ \A i \in 1..m : ab[i] = a[i]
                                /\ \A i \in 1..n : ab[m + i] = b[i]
  <2>1. PICK ab \in Seq(Packet) : Join(a, b, ab)
      BY Joined
  <2> QED
      BY <1>1, <2>1 DEF Join
<1>3. PICK u \in Seq(Nat) : u = Ids(a) /\ Len(u) = m /\ \A i \in 1..m : u[i] = a[i].id
    BY <1>1, IdsTyped
<1>4. PICK v \in Seq(Nat) : v = Ids(b) /\ Len(v) = n /\ \A i \in 1..n : v[i] = b[i].id
    BY <1>1, IdsTyped
<1>5. PICK w \in Seq(Nat) : w = Ids(ab) /\ Len(w) = m + n /\ \A i \in 1..m + n : w[i] = ab[i].id
    BY <1>2, IdsTyped, ZenonT(60)
<1>6. PICK uv \in Seq(Nat) : /\ uv = u \o v /\ Len(uv) = m + n
                             /\ \A i \in 1..m : uv[i] = u[i]
                             /\ \A i \in 1..n : uv[m + i] = v[i]
  <2>1. PICK uv \in Seq(Nat) : Join(u, v, uv)
      BY Joined
  <2> QED
      BY <1>3, <1>4, <2>1 DEF Join
<1>7. ASSUME NEW i \in 1..m + n PROVE w[i] = uv[i]
  <2>1. CASE i <= m
    <3>1. i \in 1..m
        BY <2>1
    <3>2. w[i] = a[i].id
        BY <1>2, <1>5, <3>1
    <3>3. uv[i] = a[i].id
        BY <1>3, <1>6, <3>1
    <3> QED
        BY <3>2, <3>3
  <2>2. CASE ~(i <= m)
    <3>1. PICK k \in 1..n : i = m + k
      <4>1. i - m \in 1..n /\ i = m + (i - m)
          BY <2>2
      <4> QED
          BY <4>1
    <3>2. w[i] = b[k].id
        BY <1>2, <1>5, <3>1
    <3>3. uv[i] = b[k].id
        BY <1>4, <1>6, <3>1
    <3> QED
        BY <3>2, <3>3
  <2> QED
      BY <2>1, <2>2
<1>8. w = uv
    BY <1>5, <1>6, <1>7, SeqEqual
<1> QED
    BY <1>2, <1>3, <1>4, <1>5, <1>6, <1>8

LEMMA IdsOne ==
    ASSUME NEW x \in Packet
    PROVE  x.id \in Nat /\ Ids(<<x>>) = <<x.id>> /\ Ids(<<>>) = <<>>
<1>1. x.id \in Nat
    BY DEF Packet
<1>2. Ids(<<x>>) = <<x.id>>
    BY <1>1 DEF Ids
<1>3. Ids(<<>>) = <<>>
    BY DEF Ids
<1> QED
    BY <1>1, <1>2, <1>3

LEMMA IdsAppend ==
    ASSUME NEW s \in Seq(Packet), NEW x \in Packet
    PROVE  Ids(Append(s, x)) = Append(Ids(s), x.id)
<1>1. PICK one \in Seq(Packet) : one = <<x>>
  <2>1. <<x>> \in Seq(Packet)
      OBVIOUS
  <2> QED
      BY <2>1, Zenon
<1>2. Append(s, x) = s \o one
    BY <1>1
<1>3. Ids(s \o one) = Ids(s) \o Ids(one)
    BY IdsConcat
<1>4. PICK u \in Seq(Nat), n \in Nat : u = Ids(s) /\ n = x.id /\ Ids(one) = <<n>>
    BY <1>1, IdsTyped, IdsOne
<1>5. Append(u, n) = u \o <<n>>
    OBVIOUS
<1> QED
    BY <1>2, <1>3, <1>4, <1>5

LEMMA Rejoin ==
    ASSUME NEW u \in Seq(Nat), NEW v \in Seq(Nat), NEW n \in Nat
    PROVE  Append(u, n) \o v = u \o (<<n>> \o v)
OBVIOUS

LEMMA FirstOut ==
    ASSUME NEW u \in Seq(Nat), NEW v \in Seq(Nat), NEW n \in Nat
    PROVE  (<<n>> \o u) \o v # <<>> /\ Tail((<<n>> \o u) \o v) = u \o v
<1>1. PICK s \in Seq(Nat) : s = u \o v
  <2>1. u \o v \in Seq(Nat)
      BY ConcatProperties
  <2> QED
      BY <2>1, Zenon
<1>2. (<<n>> \o u) \o v = <<n>> \o (u \o v)
    OBVIOUS
<1>3. <<n>> \o s # <<>> /\ Tail(<<n>> \o s) = s
    OBVIOUS
<1> QED
    BY <1>1, <1>2, <1>3

LEMMA TakenOut ==
    ASSUME NEW u \in Seq(Nat), NEW v \in Seq(Nat), NEW n \in Nat
    PROVE  /\ Len(u) + 1 \in DOMAIN (u \o (<<n>> \o v))
           /\ RemoveAt(u \o (<<n>> \o v), Len(u) + 1) = u \o v
<1>1. PICK k \in Nat, m \in Nat : k = Len(u) /\ m = Len(v)
    OBVIOUS
<1>2. PICK w \in Seq(Nat) : /\ w = <<n>> \o v /\ Len(w) = 1 + m
                            /\ \A i \in 1..m : w[1 + i] = v[i]
  <2>1. PICK one \in Seq(Nat) : one = <<n>> /\ Len(one) = 1
    <3>1. <<n>> \in Seq(Nat) /\ Len(<<n>>) = 1
        OBVIOUS
    <3> QED
        BY <3>1, Zenon
  <2>2. PICK w \in Seq(Nat) : Join(one, v, w)
      BY Joined
  <2> QED
      BY <1>1, <2>1, <2>2 DEF Join
<1>3. PICK s \in Seq(Nat) :
        /\ s = u \o w /\ Len(s) = k + (1 + m)
        /\ \A i \in 1..k : s[i] = u[i]
        /\ \A i \in 1..1 + m : s[k + i] = w[i]
  <2>1. PICK s \in Seq(Nat) : Join(u, w, s)
      BY Joined
  <2> QED
      BY <1>1, <1>2, <2>1 DEF Join
<1>4. \A i \in 1..k + (1 + m) : s[i] \in Nat
    BY <1>3
<1>5. SubSeq(s, 1, k) = u
  <2>1. /\ SubSeq(s, 1, k) \in Seq(Nat) /\ Len(SubSeq(s, 1, k)) = k
        /\ \A i \in 1..k : SubSeq(s, 1, k)[i] = s[i]
      BY <1>4, SubSeqProperties
  <2>2. PICK a \in Seq(Nat) : a = SubSeq(s, 1, k) /\ Len(a) = k /\ \A i \in 1..k : a[i] = s[i]
      BY <2>1, Zenon
  <2> QED
      BY <1>1, <1>3, <2>2, SeqEqual
<1>6. SubSeq(s, k + 2, Len(s)) = v
  <2>1. PICK l \in Int, h \in Int : l = k + 2 /\ h = Len(s) /\ (l <= h => h - l + 1 = m)
                                  /\ (~(l <= h) => m = 0) /\ \A i \in l..h : s[i] \in Nat
    <3>1. k + 2 \in Int /\ Len(s) \in Int /\ \A i \in k + 2..Len(s) : s[i] \in Nat
        BY <1>3, <1>4
    <3>2. (k + 2 <= Len(s) => Len(s) - (k + 2) + 1 = m) /\ (~(k + 2 <= Len(s)) => m = 0)
        BY <1>3
    <3> QED
        BY <3>1, <3>2, Zenon
  <2>2. /\ SubSeq(s, l, h) \in Seq(Nat)
        /\ Len(SubSeq(s, l, h)) = IF l <= h THEN h - l + 1 ELSE 0
        /\ \A i \in 1..h - l + 1 : SubSeq(s, l, h)[i] = s[l + i - 1]
      BY <2>1, SubSeqProperties
  <2>3. PICK b \in Seq(Nat) :
          b = SubSeq(s, l, h) /\ Len(b) = m /\ \A i \in 1..h - l + 1 : b[i] = s[l + i - 1]
      BY <2>1, <2>2, ZenonT(60)
  <2>4. ASSUME NEW i \in 1..m PROVE b[i] = v[i]
    <3>1. i \in 1..h - l + 1 /\ l + i - 1 = k + (1 + i) /\ 1 + i \in 1..1 + m
        BY <2>1
    <3>2. b[i] = s[k + (1 + i)]
        BY <2>3, <3>1
    <3> QED
        BY <1>2, <1>3, <3>1, <3>2
  <2> QED
      BY <1>1, <2>1, <2>3, <2>4, SeqEqual
<1>7. RemoveAt(s, k + 1) = u \o v
  <2>1. (k + 1) - 1 = k /\ (k + 1) + 1 = k + 2
      OBVIOUS
  <2> QED
      BY <1>5, <1>6, <2>1 DEF RemoveAt
<1>8. k + 1 \in DOMAIN s
    BY <1>3
<1> QED
    BY <1>1, <1>2, <1>3, <1>7, <1>8

-----------------------------------------------------------------------------
(* The packets of a queue that are on their way: c is in transmission, w   *)
(* waits in the transmission queue, and v in the queue disc.               *)

Trail(c, w, v) == Ids(c \o w \o v)

LEMMA TrailParts ==
    ASSUME NEW c \in Seq(Packet), NEW w \in Seq(Packet), NEW v \in Seq(Packet)
    PROVE  /\ c \o w \in Seq(Packet) /\ Trail(c, w, v) = Ids(c \o w) \o Ids(v)
           /\ Trail(c, w, v) \in Seq(Nat)
<1>1. PICK cw \in Seq(Packet) : cw = c \o w
  <2>1. c \o w \in Seq(Packet)
      BY ConcatProperties
  <2> QED
      BY <2>1, Zenon
<1>2. cw \o v \in Seq(Packet)
    BY ConcatProperties
<1>3. Ids(cw \o v) = Ids(cw) \o Ids(v)
    BY IdsConcat
<1>4. Ids(cw \o v) \in Seq(Nat)
    BY <1>2, IdsTyped
<1> QED
    BY <1>1, <1>3, <1>4 DEF Trail

LEMMA OnePacket == \A x \in Packet : <<x>> \in Seq(Packet) /\ <<>> \in Seq(Packet)
<1> SUFFICES ASSUME NEW x \in Packet PROVE <<x>> \in Seq(Packet)
    BY EmptySeq
<1> QED
    OBVIOUS

\* A packet that is accepted comes last.
LEMMA TrailGrows ==
    ASSUME NEW c \in Seq(Packet), NEW w \in Seq(Packet), NEW v \in Seq(Packet), NEW x \in Packet
    PROVE  Trail(c, w, Append(v, x)) = Append(Trail(c, w, v), x.id)
<1>1. PICK cw \in Seq(Packet) : cw = c \o w
    BY TrailParts
<1>2. PICK s \in Seq(Packet) : s = cw \o v
  <2>1. cw \o v \in Seq(Packet)
      BY ConcatProperties
  <2> QED
      BY <2>1, Zenon
<1>3. cw \o Append(v, x) = Append(s, x)
    BY <1>2, ConcatAppend
<1>4. Ids(Append(s, x)) = Append(Ids(s), x.id)
    BY IdsAppend
<1> QED
    BY <1>1, <1>2, <1>3, <1>4 DEF Trail

\* The first packet that waits in the queue disc comes behind those of the device.
LEMMA TrailSplit ==
    ASSUME NEW c \in Seq(Packet), NEW w \in Seq(Packet), NEW v \in Seq(Packet), NEW x \in Packet
    PROVE  Trail(c, w, <<x>> \o v) = Ids(c \o w) \o (<<x.id>> \o Ids(v))
<1>1. PICK one \in Seq(Packet) : one = <<x>>
  <2> QED
      BY OnePacket, Zenon
<1>2. PICK s \in Seq(Packet) : s = one \o v
  <2>1. one \o v \in Seq(Packet)
      BY ConcatProperties
  <2> QED
      BY <2>1, Zenon
<1>3. Ids(s) = Ids(one) \o Ids(v)
    BY <1>2, IdsConcat
<1>4. Ids(one) = <<x.id>>
    BY <1>1, IdsOne
<1>5. Trail(c, w, s) = Ids(c \o w) \o Ids(s)
    BY TrailParts
<1> QED
    BY <1>1, <1>2, <1>3, <1>4, <1>5

\* It keeps its place when the device queues it,
LEMMA TrailQueued ==
    ASSUME NEW c \in Seq(Packet), NEW w \in Seq(Packet), NEW v \in Seq(Packet),
           NEW x \in Packet, NEW h \in Packet, h.id = x.id
    PROVE  Trail(c, Append(w, h), v) = Trail(c, w, <<x>> \o v)
<1>a. \A y \in Packet : Trail(c, w, <<y>> \o v) = Ids(c \o w) \o (<<y.id>> \o Ids(v))
    BY TrailSplit, ZenonT(60)
<1>1. PICK cw \in Seq(Packet) : cw = c \o w
    BY TrailParts
<1>2. c \o Append(w, h) = Append(cw, h)
    BY <1>1, ConcatAppend
<1>3. PICK wh \in Seq(Packet) : wh = Append(w, h)
  <2>1. Append(w, h) \in Seq(Packet)
      BY AppendProperties
  <2> QED
      BY <2>1, Zenon
<1>4. Trail(c, Append(w, h), v) = Ids(Append(cw, h)) \o Ids(v)
  <2>1. Trail(c, wh, v) = Ids(c \o wh) \o Ids(v)
      BY TrailParts
  <2> QED
      BY <1>2, <1>3, <2>1
<1>5. PICK u \in Seq(Nat), t \in Seq(Nat), n \in Nat : u = Ids(cw) /\ t = Ids(v) /\ n = x.id
    BY IdsTyped, IdsOne
<1>6. Ids(Append(cw, h)) = Append(u, n)
    BY <1>5, IdsAppend
<1>7. Append(u, n) \o t = u \o (<<n>> \o t)
    BY Rejoin
<1>8. Trail(c, w, <<x>> \o v) = u \o (<<n>> \o t)
    BY <1>a, <1>1, <1>5
<1> QED
    BY <1>4, <1>5, <1>6, <1>7, <1>8

\* or transmits it at once,
LEMMA TrailStarted ==
    ASSUME NEW v \in Seq(Packet), NEW x \in Packet, NEW h \in Packet, h.id = x.id
    PROVE  Trail(<<h>>, <<>>, v) = Trail(<<>>, <<>>, <<x>> \o v)
<1>1. PICK none \in Seq(Packet), one \in Seq(Packet) : none = <<>> /\ one = <<h>>
    BY OnePacket, Zenon
<1>2. none \o none = none /\ one \o none = one
    BY <1>1, ConcatEmptySeq
<1>3. Trail(one, none, v) = Ids(one) \o Ids(v)
  <2>1. Trail(one, none, v) = Ids(one \o none) \o Ids(v)
      BY TrailParts
  <2> QED
      BY <1>2, <2>1
<1>4. Ids(one) = <<x.id>> /\ Ids(none) = <<>>
    BY <1>1, IdsOne
<1>5. Trail(none, none, <<x>> \o v) = Ids(none) \o (<<x.id>> \o Ids(v))
  <2>1. Trail(none, none, <<x>> \o v) = Ids(none \o none) \o (<<x.id>> \o Ids(v))
      BY TrailSplit, ZenonT(60)
  <2> QED
      BY <1>2, <2>1
<1>6. PICK t \in Seq(Nat), n \in Nat : t = Ids(v) /\ n = x.id
    BY IdsTyped, IdsOne
<1>7. <<>> \o (<<n>> \o t) = <<n>> \o t
    OBVIOUS
<1> QED
    BY <1>1, <1>3, <1>4, <1>5, <1>6, <1>7

\* and it is the only one that is missing when the device discards it.
LEMMA TrailLoses ==
    ASSUME NEW c \in Seq(Packet), NEW w \in Seq(Packet), NEW v \in Seq(Packet), NEW x \in Packet
    PROVE  \E i \in DOMAIN Trail(c, w, <<x>> \o v) :
             Trail(c, w, v) = RemoveAt(Trail(c, w, <<x>> \o v), i)
<1>1. PICK u \in Seq(Nat), t \in Seq(Nat), n \in Nat :
        u = Ids(c \o w) /\ t = Ids(v) /\ n = x.id
    BY IdsTyped, IdsOne, TrailParts
<1>2. Trail(c, w, <<x>> \o v) = u \o (<<n>> \o t) /\ Trail(c, w, v) = u \o t
  <2>1. Trail(c, w, <<x>> \o v) = Ids(c \o w) \o (<<x.id>> \o Ids(v))
      BY TrailSplit, ZenonT(60)
  <2>2. Trail(c, w, v) = Ids(c \o w) \o Ids(v)
      BY TrailParts
  <2> QED
      BY <1>1, <2>1, <2>2
<1>3. /\ Len(u) + 1 \in DOMAIN (u \o (<<n>> \o t))
      /\ RemoveAt(u \o (<<n>> \o t), Len(u) + 1) = u \o t
    BY TakenOut
<1> QED
    BY <1>2, <1>3, Zenon

\* The packet whose transmission is complete was the first.
LEMMA TrailLeaves ==
    ASSUME NEW y \in Packet, NEW w \in Seq(Packet), NEW v \in Seq(Packet)
    PROVE  /\ Trail(<<y>>, w, v) # <<>>
           /\ w = <<>> => Trail(<<>>, <<>>, v) = Tail(Trail(<<y>>, w, v))
           /\ w # <<>> => Trail(<<Head(w)>>, Tail(w), v) = Tail(Trail(<<y>>, w, v))
<1>1. PICK none \in Seq(Packet), one \in Seq(Packet) : none = <<>> /\ one = <<y>>
    BY OnePacket, Zenon
<1>2. PICK t \in Seq(Nat), s \in Seq(Nat), n \in Nat : t = Ids(v) /\ s = Ids(w) /\ n = y.id
    BY IdsTyped, IdsOne
<1>3. Ids(one) = <<n>> /\ Ids(one \o w) = Ids(one) \o Ids(w)
    BY <1>1, <1>2, IdsOne, IdsConcat
<1>4. Trail(one, w, v) = (<<n>> \o s) \o t
  <2>1. Trail(one, w, v) = Ids(one \o w) \o Ids(v)
      BY TrailParts
  <2> QED
      BY <1>2, <1>3, <2>1
<1>5. (<<n>> \o s) \o t # <<>> /\ Tail((<<n>> \o s) \o t) = s \o t
    BY FirstOut
<1>6. ASSUME NEW a \in Seq(Packet), NEW b \in Seq(Packet), a \o b = w
      PROVE  Trail(a, b, v) = s \o t
  <2>1. Trail(a, b, v) = Ids(a \o b) \o Ids(v)
      BY <1>6, TrailParts, ZenonT(60)
  <2> QED
      BY <1>2, <1>6, <2>1
<1>7. w = <<>> => none \o none = w
    BY <1>1, ConcatEmptySeq
<1>8. w # <<>> => <<Head(w)>> \in Seq(Packet) /\ Tail(w) \in Seq(Packet) /\ <<Head(w)>> \o Tail(w) = w
    OBVIOUS
<1>9. w = <<>> => Trail(<<>>, <<>>, v) = s \o t
    BY <1>1, <1>6, <1>7
<1>10. w # <<>> => Trail(<<Head(w)>>, Tail(w), v) = s \o t
    BY <1>6, <1>8
<1> QED
    BY <1>1, <1>4, <1>5, <1>9, <1>10

-----------------------------------------------------------------------------
(* The refinement of PacketFifo.                                           *)

LEMMA ItemIsPacket == Item \subseteq Packet /\ Seq(Item) \subseteq Seq(Packet)
<1>1. Item \subseteq Packet
    BY Assumptions DEF Item, Packet
<1> QED
    BY <1>1, SeqMonotonic

LEMMA WaitTyped ==
    ASSUME TypeInv
    PROVE  /\ requeued \in Seq(Packet) /\ disc \in Seq(Packet) /\ requeued \o disc \in Seq(Packet)
           /\ \A k \in Queues : dev[k].current \in Seq(Packet) /\ dev[k].queue \in Seq(Packet)
           /\ \A k : For(k, requeued \o disc) \in Seq(Packet)
<1>1. requeued \in Seq(Packet) /\ disc \in Seq(Packet)
    BY ItemIsPacket DEF TypeInv
<1>2. requeued \o disc \in Seq(Packet)
    BY <1>1, ConcatProperties
<1>3. \A k \in Queues : dev[k].current \in Seq(Packet) /\ dev[k].queue \in Seq(Packet)
    BY DEF TypeInv, Device
<1> QED
    BY <1>1, <1>2, <1>3, ForTyped

LEMMA TransitIs ==
    ASSUME NEW k
    PROVE  /\ InTransit(k) = Trail(dev[k].current, dev[k].queue, For(k, requeued \o disc))
           /\ InTransit(k)' = Trail(dev'[k].current, dev'[k].queue, For(k, requeued' \o disc'))
BY DEF InTransit, Trail

\* The packet that is taken comes first, wherever it was kept.
LEMMA FirstInFront ==
    ASSUME TypeInv, NEW item \in Packet, NEW left, First(item, left)
    PROVE  left \in Seq(Packet) /\ requeued \o disc = <<item>> \o left
<1>1. disc \in Seq(Packet)
    BY WaitTyped
<1>2. CASE requeued = <<item>> /\ left = disc
    BY <1>1, <1>2
<1>3. CASE requeued = <<>> /\ disc # <<>> /\ item = Head(disc) /\ left = Tail(disc)
  <2>1. Tail(disc) \in Seq(Packet) /\ <<Head(disc)>> \o Tail(disc) = disc
      BY <1>1, <1>3
  <2>2. <<>> \o disc = disc
      BY <1>1, ConcatEmptySeq
  <2> QED
      BY <1>3, <2>1, <2>2
<1> QED
    BY <1>2, <1>3 DEF First

\* Requeueing keeps what waits, and its order.
LEMMA RequeuedInFront ==
    ASSUME TypeInv, Ending
    PROVE  requeued' \o disc' = requeued \o disc
<1>1. disc \in Seq(Packet)
    BY WaitTyped
<1>2. CASE disc' = disc /\ requeued' = requeued
    BY <1>2
<1>3. CASE requeued = <<>> /\ disc # <<>> /\ requeued' = <<Head(disc)>> /\ disc' = Tail(disc)
  <2>1. <<Head(disc)>> \o Tail(disc) = disc
      BY <1>1, <1>3
  <2>2. <<>> \o disc = disc
      BY <1>1, ConcatEmptySeq
  <2> QED
      BY <1>3, <2>1, <2>2
<1> QED
    BY <1>2, <1>3 DEF Ending

\* Only the packets of queue q change.
OnlyAt(q) == \A k \in Queues : k # q => InTransit(k)' = InTransit(k)

LEMMA SendTransit ==
    ASSUME TypeInv, Sending
    PROVE  \/ \A k \in Queues : InTransit(k)' = InTransit(k)
           \/ \E q \in Queues : InTransit(q)' = Append(InTransit(q), sent') /\ OnlyAt(q)
<1>a. UNCHANGED <<requeued, dev>> /\ sent' = sent + 1
    BY DEF Sending
<1>1. CASE disc' = disc
    BY <1>a, <1>1, TransitIs
<1>2. CASE disc' # disc
  <2>1. PICK x \in Packet : x.txq \in Queues /\ x.id = sent + 1 /\ disc' = Append(disc, x)
      BY <1>2, ItemIsPacket DEF Sending, Item
  <2>2. PICK r \in Seq(Packet), d \in Seq(Packet), w \in Seq(Packet) :
          r = requeued /\ d = disc /\ w = requeued \o disc
      BY WaitTyped, Zenon
  <2>3. requeued' \o disc' = Append(w, x)
    <3>1. Append(r \o d, x) = r \o Append(d, x)
        BY ConcatAppend
    <3> QED
        BY <1>a, <2>1, <2>2, <3>1
  <2>4. ASSUME NEW k \in Queues
        PROVE  IF k = x.txq THEN InTransit(k)' = Append(InTransit(k), x.id)
                            ELSE InTransit(k)' = InTransit(k)
    <3>1. PICK c \in Seq(Packet), t \in Seq(Packet), v \in Seq(Packet) :
            c = dev[k].current /\ t = dev[k].queue /\ v = For(k, w)
        BY <2>2, <2>4, WaitTyped, Zenon
    <3>2. For(k, Append(w, x)) = IF x.txq = k THEN Append(For(k, w), x) ELSE For(k, w)
        BY ForAppend
    <3>3. \A y \in Packet : Trail(c, t, Append(v, y)) = Append(Trail(c, t, v), y.id)
        BY TrailGrows, ZenonT(60)
    <3>4. InTransit(k) = Trail(c, t, v)
        BY <2>2, <3>1, TransitIs
    <3>5. InTransit(k)' = Trail(c, t, For(k, Append(w, x)))
        BY <1>a, <2>3, <3>1, TransitIs
    <3> QED
        BY <3>1, <3>2, <3>3, <3>4, <3>5
  <2> QED
      BY <1>a, <2>1, <2>4 DEF OnlyAt
<1> QED
    BY <1>1, <1>2

LEMMA QuietTransit ==
    ASSUME TypeInv, Ending \/ Waking
    PROVE  \A k \in Queues : InTransit(k)' = InTransit(k)
<1> SUFFICES ASSUME NEW k \in Queues PROVE InTransit(k)' = InTransit(k)
    OBVIOUS
<1>1. CASE Ending
  <2>1. requeued' \o disc' = requeued \o disc /\ dev' = dev
      BY <1>1, RequeuedInFront DEF Ending
  <2> QED
      BY <2>1, TransitIs
<1>2. CASE Waking
  <2>1. dev \in [Queues -> Device]
      BY DEF TypeInv
  <2>2. dev'[k].current = dev[k].current /\ dev'[k].queue = dev[k].queue
      BY <1>2, <2>1 DEF Waking
  <2>3. requeued' = requeued /\ disc' = disc
      BY <1>2 DEF Waking
  <2> QED
      BY <2>2, <2>3, TransitIs
<1> QED
    BY <1>1, <1>2

LEMMA TransmitTransit ==
    ASSUME TypeInv, Transmitting
    PROVE  \/ \A k \in Queues : InTransit(k)' = InTransit(k)
           \/ /\ Lossy
              /\ \E q \in Queues :
                   /\ \E i \in DOMAIN InTransit(q) : InTransit(q)' = RemoveAt(InTransit(q), i)
                   /\ OnlyAt(q)
<1>1. PICK item \in Item, e \in Device :
        /\ First(item, disc') /\ dev' = [dev EXCEPT ![item.txq] = e]
        /\ Handed(dev[item.txq], item, e)
    BY DEF Transmitting
<1>2. requeued' = <<>>
    BY DEF Transmitting
<1>3. item \in Packet /\ item.txq \in Queues
    BY ItemIsPacket DEF Item
<1>4. PICK q \in Queues, left \in Seq(Packet) :
        q = item.txq /\ left = disc' /\ requeued \o disc = <<item>> \o left
  <2>1. disc' \in Seq(Packet) /\ requeued \o disc = <<item>> \o disc'
      BY <1>1, <1>3, FirstInFront
  <2> QED
      BY <1>3, <2>1, Zenon
<1>5. requeued' \o disc' = left
    BY <1>2, <1>4, ConcatEmptySeq
<1>6. dev \in [Queues -> Device] /\ dev'[q] = e /\ \A k \in Queues : k # q => dev'[k] = dev[k]
    BY <1>1, <1>4 DEF TypeInv
<1>7. OnlyAt(q)
  <2> SUFFICES ASSUME NEW k \in Queues, k # q PROVE InTransit(k)' = InTransit(k)
      BY DEF OnlyAt
  <2>1. For(k, <<item>> \o left) =
          IF item.txq = k THEN <<item>> \o For(k, left) ELSE For(k, left)
      BY <1>3, ForHead
  <2>2. For(k, requeued \o disc) = For(k, requeued' \o disc')
      BY <1>4, <1>5, <2>1
  <2>3. dev'[k] = dev[k]
      BY <1>6
  <2> QED
      BY <2>2, <2>3, TransitIs
<1>8. PICK c \in Seq(Packet), t \in Seq(Packet), v \in Seq(Packet) :
        c = dev[q].current /\ t = dev[q].queue /\ v = For(q, left)
    BY WaitTyped, ForTyped, Zenon
<1>9. InTransit(q) = Trail(c, t, <<item>> \o v)
  <2>1. For(q, <<item>> \o left) =
          IF item.txq = q THEN <<item>> \o For(q, left) ELSE For(q, left)
      BY <1>3, ForHead
  <2>2. For(q, requeued \o disc) = <<item>> \o v
      BY <1>4, <1>8, <2>1
  <2> QED
      BY <1>8, <2>2, TransitIs
<1>10. InTransit(q)' = Trail(e.current, e.queue, v)
    BY <1>5, <1>6, <1>8, TransitIs
<1>11. PICK h \in Packet : h = AddHeader(item) /\ h.id = item.id
    BY <1>3, HeaderAdded
<1>12. CASE e.queue = Append(t, h) /\ e.current = c
  <2>1. Trail(c, Append(t, h), v) = Trail(c, t, <<item>> \o v)
      BY <1>3, <1>11, TrailQueued
  <2> QED
      BY <1>7, <1>9, <1>10, <1>12, <2>1 DEF OnlyAt
<1>13. CASE c = <<>> /\ t = <<>> /\ e.current = <<h>> /\ e.queue = <<>>
  <2>1. Trail(<<h>>, <<>>, v) = Trail(<<>>, <<>>, <<item>> \o v)
      BY <1>3, <1>11, TrailStarted
  <2> QED
      BY <1>7, <1>9, <1>10, <1>13, <2>1 DEF OnlyAt
<1>14. CASE Lossy /\ e.queue = t /\ e.current = c
  <2>1. \E i \in DOMAIN Trail(c, t, <<item>> \o v) :
          Trail(c, t, v) = RemoveAt(Trail(c, t, <<item>> \o v), i)
      BY <1>3, TrailLoses
  <2>2. Lossy
      BY <1>14
  <2> QED
      BY <1>7, <1>9, <1>10, <1>14, <2>1, <2>2
<1> QED
    BY <1>1, <1>4, <1>8, <1>11, <1>12, <1>13, <1>14 DEF Handed

LEMMA CompleteTransit ==
    ASSUME TypeInv, Completing
    PROVE  \E q \in Queues :
             InTransit(q) # <<>> /\ InTransit(q)' = Tail(InTransit(q)) /\ OnlyAt(q)
<1>1. PICK q \in Queues, e \in Device : dev' = [dev EXCEPT ![q] = e] /\ Advanced(dev[q], e)
    BY DEF Completing
<1>2. requeued' = requeued /\ disc' = disc
    BY DEF Completing
<1>3. dev \in [Queues -> Device] /\ dev'[q] = e /\ \A k \in Queues : k # q => dev'[k] = dev[k]
    BY <1>1 DEF TypeInv
<1>4. OnlyAt(q)
    BY <1>2, <1>3, TransitIs DEF OnlyAt
<1>5. PICK c \in Seq(Packet), t \in Seq(Packet), v \in Seq(Packet) :
        c = dev[q].current /\ t = dev[q].queue /\ v = For(q, requeued \o disc)
    BY WaitTyped, Zenon
<1>6. PICK y \in Packet : c = <<y>>
  <2>1. c # <<>> /\ Len(c) <= 1
      BY <1>1, <1>5 DEF Advanced, TypeInv, Working
  <2>2. Len(c) = 1
    <3>1. PICK n \in Nat : n = Len(c)
        OBVIOUS
    <3>2. n # 0 /\ n <= 1
        BY <2>1, <3>1, EmptySeq
    <3>3. n = 1
        BY <3>2
    <3> QED
        BY <3>1, <3>3
  <2>3. c[1] \in Packet /\ c = <<c[1]>>
      BY <2>2
  <2> QED
      BY <2>3, Zenon
<1>7. InTransit(q) = Trail(<<y>>, t, v) /\ InTransit(q)' = Trail(e.current, e.queue, v)
    BY <1>2, <1>3, <1>5, <1>6, TransitIs
<1>8. /\ Trail(<<y>>, t, v) # <<>>
      /\ t = <<>> => Trail(<<>>, <<>>, v) = Tail(Trail(<<y>>, t, v))
      /\ t # <<>> => Trail(<<Head(t)>>, Tail(t), v) = Tail(Trail(<<y>>, t, v))
    BY TrailLeaves
<1>9. \/ t = <<>> /\ e.queue = <<>> /\ e.current = <<>>
      \/ t # <<>> /\ e.current = <<Head(t)>> /\ e.queue = Tail(t)
    BY <1>1, <1>5 DEF Advanced
<1> QED
    BY <1>4, <1>7, <1>8, <1>9

\* The fifo of PacketFifo.
Transit == [q \in Queues |-> InTransit(q)]

LEMMA TransitKept ==
    ASSUME \A k \in Queues : InTransit(k)' = InTransit(k)
    PROVE  Transit' = Transit
BY DEF Transit

LEMMA TransitChanged ==
    ASSUME NEW q \in Queues, NEW s, InTransit(q)' = s, OnlyAt(q)
    PROVE  Transit' = [Transit EXCEPT ![q] = s]
<1>1. Transit' = [k \in Queues |-> InTransit(k)']
    BY DEF Transit
<1>2. [Transit EXCEPT ![q] = s] = [k \in Queues |-> IF k = q THEN s ELSE InTransit(k)]
    BY DEF Transit
<1>3. \A k \in Queues : InTransit(k)' = IF k = q THEN s ELSE InTransit(k)
    BY DEF OnlyAt
<1> QED
    BY <1>1, <1>2, <1>3

LEMMA FifoInit == Init => P!Init
<1> SUFFICES ASSUME Init PROVE P!Init
    OBVIOUS
<1>1. sent = 0 /\ disc = <<>> /\ requeued = <<>>
    BY DEF Init
<1>2. ASSUME NEW q \in Queues PROVE InTransit(q) = <<>>
  <2>1. dev[q].current = <<>> /\ dev[q].queue = <<>>
      BY <1>2 DEF Init
  <2>2. <<>> \o <<>> = <<>>
      OBVIOUS
  <2>3. For(q, requeued \o disc) = <<>>
      BY <1>1, <2>2, ForEmpty
  <2>4. Ids(<<>>) = <<>>
      BY DEF Ids
  <2> QED
      BY <2>1, <2>2, <2>3, <2>4 DEF InTransit
<1>3. [q \in Queues |-> InTransit(q)] = [q \in Queues |-> <<>>]
    BY <1>2
<1>4. Lossy \in BOOLEAN
    BY TypeInit, LossyTyped DEF TypeInv
<1> QED
    BY <1>1, <1>3, <1>4, Zenon DEF P!Init

LEMMA FifoStep ==
    ASSUME TypeInv, [Next]_vars
    PROVE  [P!Next]_(P!vars)
<1>a. config' = config => Lossy' = Lossy
    BY DEF Lossy, Narrow
<1>b. \/ UNCHANGED vars \/ Sending \/ Ending \/ Transmitting \/ Waking \/ Completing
    BY StepMoves DEF Move
<1>c. config' = config
    BY <1>b DEF vars, Sending, Ending, Transmitting, Waking, Completing
<1>d. Transit' = Transit /\ sent' = sent => UNCHANGED P!vars
    BY <1>a, <1>c DEF P!vars, Transit
<1>1. CASE UNCHANGED vars
  <2>1. \A k \in Queues : InTransit(k)' = InTransit(k)
      BY <1>1 DEF vars, InTransit
  <2> QED
      BY <1>1, <1>d, <2>1, TransitKept DEF vars
<1>2. CASE Sending
  <2>1. sent' = sent + 1
      BY <1>2 DEF Sending
  <2>2. CASE \A k \in Queues : InTransit(k)' = InTransit(k)
    <3>1. Transit' = Transit
        BY <2>2, TransitKept
    <3>2. P!Refuse
        BY <1>a, <1>c, <2>1, <3>1 DEF P!Refuse, Transit
    <3> QED
        BY <3>2 DEF P!Next
  <2>3. CASE \E q \in Queues : InTransit(q)' = Append(InTransit(q), sent') /\ OnlyAt(q)
    <3>1. PICK q \in Queues : InTransit(q)' = Append(InTransit(q), sent') /\ OnlyAt(q)
        BY <2>3
    <3>2. Transit' = [Transit EXCEPT ![q] = Append(InTransit(q), sent')]
        BY <3>1, TransitChanged
    <3>3. Transit[q] = InTransit(q)
        BY DEF Transit
    <3>4. P!Accept(q)
        BY <1>a, <1>c, <2>1, <3>2, <3>3 DEF P!Accept, Transit
    <3> QED
        BY <3>4 DEF P!Next
  <2> QED
      BY <1>2, <2>2, <2>3, SendTransit
<1>3. CASE Ending \/ Waking
  <2>1. Transit' = Transit
      BY <1>3, QuietTransit, TransitKept
  <2>2. sent' = sent
      BY <1>3 DEF Ending, Waking
  <2> QED
      BY <1>d, <2>1, <2>2
<1>4. CASE Transmitting
  <2>1. sent' = sent
      BY <1>4 DEF Transmitting
  <2>2. CASE \A k \in Queues : InTransit(k)' = InTransit(k)
      BY <1>d, <2>1, <2>2, TransitKept
  <2>3. CASE /\ Lossy
             /\ \E q \in Queues :
                  /\ \E i \in DOMAIN InTransit(q) : InTransit(q)' = RemoveAt(InTransit(q), i)
                  /\ OnlyAt(q)
    <3>0. PICK q \in Queues :
            /\ \E i \in DOMAIN InTransit(q) : InTransit(q)' = RemoveAt(InTransit(q), i)
            /\ OnlyAt(q)
        BY <2>3
    <3>1. PICK i \in DOMAIN InTransit(q) : InTransit(q)' = RemoveAt(InTransit(q), i)
        BY <3>0
    <3>2. Transit' = [Transit EXCEPT ![q] = RemoveAt(InTransit(q), i)]
        BY <3>0, <3>1, TransitChanged
    <3>3. Transit[q] = InTransit(q)
        BY DEF Transit
    <3>4. P!RemoveAt(InTransit(q), i) = RemoveAt(InTransit(q), i)
        BY DEF P!RemoveAt, RemoveAt
    <3>5. P!Discard(q)
        BY <1>a, <1>c, <2>1, <2>3, <3>0, <3>1, <3>2, <3>3, <3>4 DEF P!Discard, Transit
    <3> QED
        BY <3>5 DEF P!Next
  <2> QED
      BY <1>4, <2>2, <2>3, TransmitTransit
<1>5. CASE Completing
  <2>1. sent' = sent
      BY <1>5 DEF Completing
  <2>2. PICK q \in Queues :
          InTransit(q) # <<>> /\ InTransit(q)' = Tail(InTransit(q)) /\ OnlyAt(q)
      BY <1>5, CompleteTransit
  <2>3. Transit' = [Transit EXCEPT ![q] = Tail(InTransit(q))]
      BY <2>2, TransitChanged
  <2>4. Transit[q] = InTransit(q)
      BY DEF Transit
  <2>5. P!Leave(q)
      BY <1>a, <1>c, <2>1, <2>2, <2>3, <2>4 DEF P!Leave, Transit
  <2> QED
      BY <2>5 DEF P!Next
<1> QED
    BY <1>1, <1>2, <1>3, <1>4, <1>5, <1>b

\* The way of a packet through queue disc, transmission queue and transmitter is a FIFO
\* for each transmission queue (ImplementsPacketFifo), for any number of queues, any
\* sizes and limits: every action is an action of PacketFifo or none, requeueing,
\* stopping and waking are none, and a queue of one packet or more discards none.
THEOREM SendingIsFifo == Spec => ImplementsPacketFifo
BY FifoInit, FifoStep, TypeInit, TypeStep, PTL DEF Spec, ImplementsPacketFifo, P!Spec
=============================================================================
