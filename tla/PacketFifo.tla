----------------------------- MODULE PacketFifo -----------------------------
(***************************************************************************)
(* What the sending half of a node promises for each transmission queue of *)
(* a device: packets leave in the order in which they were sent, each at   *)
(* most once.  A packet can be refused when it is sent, and the device can *)
(* discard one.  Packets are numbered in the order in which they are sent. *)
(***************************************************************************)
EXTENDS Naturals, Sequences, SequencesExt

CONSTANT Queues

VARIABLES lossy, \* the device can discard packets
          last, \* the number of the last packet that was sent
          fifo  \* by queue, the packets that are on their way

vars == <<lossy, last, fifo>>

Init ==
  /\ lossy \in BOOLEAN
  /\ last = 0
  /\ fifo = [q \in Queues |-> <<>>]

Accept(q) ==
  /\ last' = last + 1
  /\ fifo' = [fifo EXCEPT ![q] = Append(@, last')]
  /\ UNCHANGED lossy

Refuse == last' = last + 1 /\ UNCHANGED <<lossy, fifo>>

Leave(q) ==
  /\ fifo[q] # <<>>
  /\ fifo' = [fifo EXCEPT ![q] = Tail(@)]
  /\ UNCHANGED <<lossy, last>>

Discard(q) ==
  /\ lossy
  /\ \E i \in DOMAIN fifo[q] : fifo' = [fifo EXCEPT ![q] = RemoveAt(@, i)]
  /\ UNCHANGED <<lossy, last>>

Next == Refuse \/ \E q \in Queues : Accept(q) \/ Leave(q) \/ Discard(q)

Spec == Init /\ [][Next]_vars

=============================================================================
