----------------------------- MODULE PacketFifo -----------------------------
(***************************************************************************)
(* What a DMA ring promises: a bounded first-in first-out queue.           *)
(* "accepted" is everything the producer put in, "delivered" everything    *)
(* the consumer took out; the queue is the part of accepted that is not    *)
(* delivered yet.                                                          *)
(***************************************************************************)
EXTENDS Naturals, Sequences

CONSTANTS Packets,  \* the packets that can pass through the queue
          Capacity  \* how many may be inside at once

VARIABLES accepted, delivered

fifoVars == <<accepted, delivered>>

FifoInit == accepted = <<>> /\ delivered = <<>>

Enqueue(p) ==
    /\ Len(accepted) - Len(delivered) < Capacity
    /\ accepted' = Append(accepted, p)
    /\ UNCHANGED delivered

Dequeue ==
    /\ Len(delivered) < Len(accepted)
    /\ delivered' = Append(delivered, accepted[Len(delivered) + 1])
    /\ UNCHANGED accepted

FifoNext == (\E p \in Packets : Enqueue(p)) \/ Dequeue

FifoSpec == FifoInit /\ [][FifoNext]_fifoVars
=============================================================================
