---------------------------- MODULE TxRingProofs ----------------------------
(***************************************************************************)
(* Proofs about the transmit ring, for every number of descriptors.  The   *)
(* driver tests nothing before it reuses a descriptor, so its correctness  *)
(* rests on two assumptions about its surroundings, which every theorem    *)
(* but the first names:                                                    *)
(*   NoRace       Enter is hit only when the main loop is not in a send;   *)
(*   CardKeepsUp  when a send begins at least two descriptors are not      *)
(*                waiting for the card.                                    *)
(***************************************************************************)
EXTENDS TxRing, Integers, TLAPS

NoRace == IrqPoints = {"idle"}
CardKeepsUp == Backlog <= NumTx - 2

USE TxAssumption

\* Stepping an index: the remainder is only a wrap at the last slot.
LEMMA StepIndex ==
    ASSUME NEW i \in Slots
    PROVE  (i + 1) % NumTx = IF i = NumTx - 1 THEN 0 ELSE i + 1
  BY DEF Slots

\* ... and the result is a slot again.
LEMMA StepInSlots ==
    ASSUME NEW i \in Slots
    PROVE  (i + 1) % NumTx \in Slots
<1>1. (IF i = NumTx - 1 THEN 0 ELSE i + 1) \in Slots
  BY DEF Slots
<1>2. QED
  BY <1>1, StepIndex

\* The part of TypeOK that all steps of the CPU and the card keep, even when
\* contexts race: Frames for frame[c] needs the sender to be under way.
SentFrames == \A c \in Contexts : pc[c] # "idle" => frame[c] \in Frames

\* Descriptor fields, registers and program counters keep their ranges, whatever
\* interrupts whatever and however slow the card is.
THEOREM TypeCorrect == Spec => [](TypeOK /\ SentFrames)
<1>1. Init => TypeOK /\ SentFrames
  BY DEF Init, TypeOK, SentFrames, Slots, Contexts, Steps, NoFrame
<1>2. TypeOK /\ SentFrames /\ [Next]_vars => TypeOK' /\ SentFrames'
  <2> SUFFICES ASSUME TypeOK, SentFrames, [Next]_vars PROVE TypeOK' /\ SentFrames'
    OBVIOUS
  <2> USE DEF TypeOK, SentFrames
  <2>Begin. ASSUME NEW c \in Contexts, Begin(c) PROVE TypeOK' /\ SentFrames'
    <3>1. begun + 1 \in Frames /\ begun + 1 \in 0 .. MaxFrames
      BY <2>Begin DEF Begin, Frames
    <3>2. QED
      BY <2>Begin, <3>1 DEF Begin, Steps
  <2>WriteAddress. ASSUME NEW c \in Contexts, WriteAddress(c) PROVE TypeOK' /\ SentFrames'
    BY <2>WriteAddress DEF WriteAddress, Steps
  <2>WriteLength. ASSUME NEW c \in Contexts, WriteLength(c) PROVE TypeOK' /\ SentFrames'
    BY <2>WriteLength DEF WriteLength, Steps
  <2>WriteCommand. ASSUME NEW c \in Contexts, WriteCommand(c) PROVE TypeOK' /\ SentFrames'
    BY <2>WriteCommand DEF WriteCommand, Steps
  <2>StepBucket. ASSUME NEW c \in Contexts, StepBucket(c) PROVE TypeOK' /\ SentFrames'
    <3>1. PICK old \in {current_tx_bucket, bucket[c]} :
             /\ stepped' = [stepped EXCEPT ![c] = (old + 1) % NumTx]
             /\ current_tx_bucket' = (old + 1) % NumTx
      BY <2>StepBucket DEF StepBucket
    <3>2. (old + 1) % NumTx \in Slots
      BY StepInSlots
    <3>3. QED
      BY <2>StepBucket, <3>1, <3>2 DEF StepBucket, Steps
  <2>WriteTail. ASSUME NEW c \in Contexts, WriteTail(c) PROVE TypeOK' /\ SentFrames'
    <3>1. frame[c] \in Frames
      BY <2>WriteTail DEF WriteTail
    <3>2. QED
      BY <2>WriteTail, <3>1 DEF WriteTail, Steps
  <2>Transmit. CASE Transmit
    <3>1. tdh' \in Slots
      BY <2>Transmit, StepInSlots DEF Transmit
    <3>2. OnWire(desc[tdh]) \in Frames \cup {Torn}
      BY DEF OnWire
    <3>3. QED
      BY <2>Transmit, <3>1, <3>2 DEF Transmit
  <2>Stutter. CASE UNCHANGED vars
    BY <2>Stutter DEF vars
  <2>9. QED
    BY <2>Begin, <2>WriteAddress, <2>WriteLength, <2>WriteCommand,
       <2>StepBucket, <2>WriteTail, <2>Transmit, <2>Stutter
       DEF Next, inject_frame, arp_request, udp_broadcast, send, Contexts
<1>3. QED
  BY <1>1, <1>2, PTL DEF Spec

\* A distance is less than the ring is long, and two slots never share one.
LEMMA DistRange ==
    ASSUME TypeOK, NEW i \in Slots, NEW j \in Slots
    PROVE  Dist(i) \in Slots /\ (Dist(i) = Dist(j) <=> i = j)
  BY DEF Dist, TypeOK, Slots

\* The driver's step of TDT is one step further from TDH.
LEMMA DistOfNext ==
    ASSUME TypeOK, NEW i \in Slots, Dist(i) # NumTx - 1
    PROVE  Dist((i + 1) % NumTx) = Dist(i) + 1
<1>1. tdh \in Slots
  BY DEF TypeOK
<1>2. ASSUME NEW n, n = IF i = NumTx - 1 THEN 0 ELSE i + 1
      PROVE  Dist(n) = Dist(i) + 1
  BY <1>1, <1>2 DEF Dist, Slots
<1>3. QED
  BY <1>2, StepIndex

\* The card's step of TDH brings every slot one step nearer, the old TDH last.
LEMMA DistAfterStep ==
    ASSUME TypeOK, tdh' = (tdh + 1) % NumTx, NEW i \in Slots
    PROVE  Dist(i)' = IF i = tdh THEN NumTx - 1 ELSE Dist(i) - 1
<1>1. tdh \in Slots
  BY DEF TypeOK
<1>2. tdh' = IF tdh = NumTx - 1 THEN 0 ELSE tdh + 1
  BY <1>1, StepIndex
<1>3. QED
  BY <1>1, <1>2 DEF Dist, Slots

\* The counts the invariant compares are numbers.
LEMMA Counts ==
    ASSUME TypeOK
    PROVE  /\ Len(submitted) \in Nat /\ Len(wire) \in Nat
           /\ tdh \in Slots /\ tdt \in Slots /\ current_tx_bucket \in Slots
           /\ Pending \in Nat /\ Pending < NumTx /\ Dist(tdh) = 0
           /\ NumTx \in Nat /\ NumTx >= 2
<1>1. Len(submitted) \in Nat /\ Len(wire) \in Nat
  BY DEF TypeOK
<1>2. tdh \in Slots /\ tdt \in Slots /\ current_tx_bucket \in Slots
  BY DEF TypeOK
<1>3. QED
  BY <1>1, <1>2 DEF Pending, Dist, Slots

\* Under NoRace and CardKeepsUp the ring keeps its shape: one send at a time, on
\* the free descriptor at TDT, and from TDH to TDT the frames not yet sent.
THEOREM RingCorrect == ASSUME NoRace, CardKeepsUp PROVE Spec => []TxInv
<1>1. Init => TxInv
  BY DEF Init, TxInv, OneSender, Filling, Queued, Pending, Dist, Slots, Contexts
<1>2. TypeOK /\ TypeOK' /\ TxInv /\ [Next]_vars => TxInv'
  <2> SUFFICES ASSUME TypeOK, TypeOK', TxInv, [Next]_vars PROVE TxInv'
    OBVIOUS
  <2>0. OneSender /\ Filling /\ Queued
    BY DEF TxInv
  <2>Begin. ASSUME NEW c \in Contexts, Idle, Begin(c) PROVE TxInv'
    <3>1. /\ UNCHANGED <<desc, tdh, tdt, current_tx_bucket, stepped, submitted, wire>>
          /\ pc' = [pc EXCEPT ![c] = "addr"]
          /\ bucket' = [bucket EXCEPT ![c] = current_tx_bucket]
          /\ frame' = [frame EXCEPT ![c] = begun + 1]
          /\ begun + 1 \in Frames /\ Pending <= Backlog
      BY <2>Begin DEF Begin, TypeOK, Frames
    <3>2. Pending' = Pending /\ \A i \in Slots : Dist(i)' = Dist(i)
      BY <3>1 DEF Pending, Dist
    <3>3. \A d \in Contexts : pc[d] = "idle" /\ pc'[d] = IF d = c THEN "addr" ELSE "idle"
      BY <2>Begin, <3>1 DEF Idle, TypeOK
    <3>4. current_tx_bucket = tdt
      BY <2>0, <3>3 DEF OneSender
    <3>5. bucket'[c] = tdt /\ frame'[c] \in Frames
      BY <3>1, <3>4 DEF TypeOK
    <3>6. OneSender'
      BY <3>1, <3>2, <3>3, <3>4, <3>5 DEF OneSender
    <3>7. Filling'
      BY <3>3 DEF Filling
    <3>8. Queued'
      BY <2>0, <3>1, <3>2 DEF Queued
    <3>9. QED
      BY <3>6, <3>7, <3>8 DEF TxInv
  <2>2. ASSUME NEW c \in Contexts, WriteAddress(c) \/ WriteLength(c) \/ WriteCommand(c)
        PROVE  TxInv'
    <3>1. /\ UNCHANGED <<tdh, tdt, current_tx_bucket, bucket, stepped, frame,
                         submitted, wire>>
          /\ pc[c] # "idle" /\ pc[c] # "tail"
      BY <2>2 DEF WriteAddress, WriteLength, WriteCommand
    <3>2. \A d \in Contexts : d # c => pc[d] = "idle" /\ pc'[d] = "idle"
      BY <2>0, <2>2, <3>1 DEF OneSender, WriteAddress, WriteLength, WriteCommand, TypeOK
    <3>3. pc'[c] \in {"length", "cmd", "step"} /\ bucket[c] = tdt
      BY <2>0, <2>2, <3>1 DEF OneSender, WriteAddress, WriteLength, WriteCommand, TypeOK
    <3>4. Pending' = Pending /\ \A i \in Slots : Dist(i)' = Dist(i)
      BY <3>1 DEF Pending, Dist
    <3>5. OneSender'
      BY <2>0, <3>1, <3>2, <3>3, <3>4 DEF OneSender
    <3>6. Filling'
      <4>1. CASE WriteAddress(c)
        BY <2>0, <3>2, <3>3, <4>1, Counts DEF Filling, WriteAddress, TypeOK
      <4>2. CASE WriteLength(c)
        BY <2>0, <3>2, <3>3, <4>2, Counts DEF Filling, WriteLength, TypeOK
      <4>3. CASE WriteCommand(c)
        BY <2>0, <3>2, <3>3, <4>3, Counts DEF Filling, WriteCommand, TypeOK
      <4>4. QED
        BY <2>2, <4>1, <4>2, <4>3
    <3>7. Queued'
      <4>1. \A i \in Slots : i # tdt => desc'[i] = desc[i]
        BY <2>2, <3>3 DEF WriteAddress, WriteLength, WriteCommand, TypeOK
      <4>2. \A i \in Slots : Dist(i) < Pending => i # tdt
        BY Counts DEF Pending
      <4>3. QED
        BY <2>0, <3>1, <3>4, <4>1, <4>2 DEF Queued
    <3>8. QED
      BY <3>5, <3>6, <3>7 DEF TxInv
  <2>StepBucket. ASSUME NEW c \in Contexts, StepBucket(c) PROVE TxInv'
    <3>1. /\ UNCHANGED <<desc, tdh, tdt, bucket, frame, submitted, wire>>
          /\ pc[c] = "step" /\ pc' = [pc EXCEPT ![c] = "tail"]
      BY <2>StepBucket DEF StepBucket
    <3>2. \A d \in Contexts : pc'[d] = IF d = c THEN "tail" ELSE "idle"
      BY <2>0, <3>1 DEF OneSender, TypeOK
    <3>3. current_tx_bucket = tdt /\ bucket[c] = tdt
      BY <2>0, <3>1 DEF OneSender
    <3>4. current_tx_bucket' = (tdt + 1) % NumTx /\ stepped'[c] = (tdt + 1) % NumTx
      BY <2>StepBucket, <3>3 DEF StepBucket, TypeOK
    <3>5. Pending' = Pending /\ \A i \in Slots : Dist(i)' = Dist(i)
      BY <3>1 DEF Pending, Dist
    <3>6. OneSender'
      BY <2>0, <3>1, <3>2, <3>3, <3>4, <3>5 DEF OneSender
    <3>7. Filling'
      BY <2>0, <3>1, <3>2 DEF Filling
    <3>8. Queued'
      BY <2>0, <3>1, <3>5 DEF Queued
    <3>9. QED
      BY <3>6, <3>7, <3>8 DEF TxInv
  <2>WriteTail. ASSUME NEW c \in Contexts, WriteTail(c) PROVE TxInv'
    <3>1. /\ UNCHANGED <<desc, tdh, current_tx_bucket, bucket, stepped, frame, wire>>
          /\ pc[c] = "tail" /\ pc' = [pc EXCEPT ![c] = "idle"]
          /\ submitted' = Append(submitted, frame[c])
      BY <2>WriteTail DEF WriteTail
    <3>2. \A d \in Contexts : pc'[d] = "idle"
      BY <2>0, <3>1 DEF OneSender, TypeOK
    <3>3. /\ current_tx_bucket = (tdt + 1) % NumTx /\ tdt' = current_tx_bucket
          /\ Pending <= Backlog /\ frame[c] \in Frames
      BY <2>0, <2>WriteTail, <3>1 DEF OneSender, WriteTail
    <3>4. /\ Pending' = Pending + 1
          /\ \A i \in Slots : Dist(i)' = Dist(i)
      <4>1. Dist(tdt) # NumTx - 1
        BY <3>3, Counts DEF CardKeepsUp, Pending
      <4>2. Dist((tdt + 1) % NumTx) = Dist(tdt) + 1
        BY <4>1, DistOfNext, Counts
      <4>3. Pending' = Dist(tdt')
        BY <3>1 DEF Pending, Dist
      <4>4. QED
        BY <3>1, <3>3, <4>2, <4>3 DEF Pending, Dist
    <3>5. OneSender'
      BY <3>1, <3>2, <3>3 DEF OneSender
    <3>6. Filling'
      BY <3>2 DEF Filling
    <3>7. Len(submitted') = Len(submitted) + 1
      BY <3>1, <3>3 DEF TypeOK
    <3>8. Queued'
      <4>1. Pending' = Len(submitted') - Len(wire')
        BY <2>0, <3>1, <3>4, <3>7, Counts DEF Queued
      <4>2. ASSUME NEW i \in Slots, Dist(i) < Pending + 1
            PROVE  OnWire(desc[i]) = submitted'[Len(wire) + Dist(i) + 1]
        <5>1. Dist(i) \in Nat /\ (Dist(i) = Pending <=> i = tdt)
          BY DistRange, Counts DEF Pending, Slots
        <5>2. Pending = Len(submitted) - Len(wire)
          BY <2>0 DEF Queued
        <5>3. CASE i = tdt
          <6>1. Len(wire) + Dist(i) + 1 = Len(submitted) + 1
            BY <5>1, <5>2, <5>3, Counts
          <6>2. OnWire(desc[i]) = frame[c]
            BY <2>0, <3>1, <3>3, <5>3 DEF Filling, OnWire, Frames, NoFrame
          <6>3. submitted'[Len(submitted) + 1] = frame[c]
            BY <3>1, <3>3 DEF TypeOK
          <6>4. QED
            BY <6>1, <6>2, <6>3
        <5>4. CASE i # tdt
          <6> DEFINE k == Len(wire) + Dist(i) + 1
          <6>1. Dist(i) < Pending
            BY <4>2, <5>1, <5>4, Counts
          <6>2. k \in 1 .. Len(submitted)
            BY <5>1, <5>2, <6>1, Counts
          <6>3. submitted'[k] = submitted[k]
            BY <3>1, <3>3, <6>2 DEF TypeOK
          <6>4. OnWire(desc[i]) = submitted[k]
            BY <2>0, <6>1 DEF Queued
          <6>5. QED
            BY <6>3, <6>4
        <5>5. QED
          BY <5>3, <5>4
      <4>3. QED
        BY <3>1, <3>4, <4>1, <4>2 DEF Queued, OnWire
    <3>9. QED
      BY <3>5, <3>6, <3>8 DEF TxInv
  <2>Transmit. CASE Transmit
    <3>1. /\ UNCHANGED <<desc, tdt, current_tx_bucket, pc, bucket, stepped, frame, submitted>>
          /\ tdh # tdt /\ tdh' = (tdh + 1) % NumTx
          /\ wire' = Append(wire, OnWire(desc[tdh]))
      BY <2>Transmit DEF Transmit
    <3>2. Len(wire') = Len(wire) + 1
      <4>1. OnWire(desc[tdh]) \in Frames \cup {Torn}
        BY DEF OnWire, TypeOK
      <4>2. QED
        BY <3>1, <4>1 DEF TypeOK
    <3>3. ASSUME NEW i \in Slots
          PROVE  /\ Dist(i) \in Nat /\ Dist(i) < NumTx
                 /\ i # tdh => Dist(i) # 0 /\ Dist(i)' = Dist(i) - 1
                 /\ i = tdh => Dist(i)' = NumTx - 1
      <4>1. tdh \in Slots /\ Dist(tdh) = 0
        BY Counts
      <4>2. Dist(i) \in Nat /\ Dist(i) < NumTx /\ (Dist(i) = 0 <=> i = tdh)
        BY <4>1, DistRange DEF Slots
      <4>3. Dist(i)' = IF i = tdh THEN NumTx - 1 ELSE Dist(i) - 1
        BY <3>1, DistAfterStep
      <4>4. QED
        BY <4>2, <4>3
    <3>4. Pending' = Pending - 1 /\ Pending >= 1
      <4>1. Pending' = Dist(tdt)'
        BY DEF Pending
      <4>2. Dist(tdt) # 0 /\ Dist(tdt) \in Nat
        BY <3>1, <3>3, Counts
      <4>3. \A i \in Slots : i = tdt => Dist(i)' = Dist(tdt) - 1
        BY <3>1, <3>3
      <4>4. Dist(tdt)' = Dist(tdt) - 1
        BY <3>1, <4>3, Counts DEF Dist
      <4>5. QED
        BY <4>1, <4>2, <4>4 DEF Pending
    <3>5. OneSender'
      BY <2>0, <3>1, <3>4, Counts DEF OneSender
    <3>6. Filling'
      BY <2>0, <3>1 DEF Filling
    <3>7. Queued'
      <4>1. Pending' = Len(submitted') - Len(wire')
        BY <2>0, <3>1, <3>2, <3>4, Counts DEF Queued
      <4>2. ASSUME NEW i \in Slots, Dist(i)' < Pending'
            PROVE  OnWire(desc[i]) = submitted[Len(wire') + Dist(i)' + 1]
        <5>1. i # tdh
          BY <3>3, <3>4, <4>2, Counts
        <5>2. Dist(i)' = Dist(i) - 1 /\ Dist(i) < Pending
          BY <3>3, <3>4, <4>2, <5>1, Counts
        <5>3. Len(wire') + Dist(i)' + 1 = Len(wire) + Dist(i) + 1
          BY <3>2, <3>3, <5>2, Counts
        <5>4. QED
          BY <2>0, <5>2, <5>3 DEF Queued
      <4>3. QED
        BY <3>1, <4>1, <4>2 DEF Queued, OnWire
    <3>8. QED
      BY <3>5, <3>6, <3>7 DEF TxInv
  <2>Stutter. CASE UNCHANGED vars
    BY <2>0, <2>Stutter DEF vars, TxInv, OneSender, Filling, Queued, Pending,
       Dist, OnWire
  <2>7. ASSUME udp_broadcast PROVE Idle
    BY <2>0, <2>7 DEF udp_broadcast, Begin, NoRace, Idle, Contexts
  <2>8. QED
    BY <2>Begin, <2>2, <2>StepBucket, <2>WriteTail, <2>Transmit, <2>Stutter, <2>7
       DEF Next, inject_frame, arp_request, udp_broadcast, send, Contexts
<1>3. QED
  BY <1>1, <1>2, TypeCorrect, PTL DEF Spec

\* Under the same assumptions no context writes a descriptor the card may still
\* read.
THEOREM DmaSafe == ASSUME NoRace, CardKeepsUp PROVE Spec => []NoWriteUnderDma
<1>1. TypeOK /\ TxInv => NoWriteUnderDma
  <2> SUFFICES ASSUME TypeOK, TxInv, NEW c \in Contexts,
                      pc[c] \in {"addr", "length", "cmd"}
               PROVE  Dist(bucket[c]) >= Pending
    BY DEF NoWriteUnderDma
  <2>1. bucket[c] = tdt
    BY DEF TxInv, OneSender
  <2>2. QED
    BY <2>1, Counts DEF Pending
<1>2. QED
  BY <1>1, TypeCorrect, RingCorrect, PTL

\* Under the same assumptions the transmit ring implements a first-in first-out
\* queue: what goes on the wire is every frame submitted, whole, once, in order.
THEOREM RefinesFifo == ASSUME NoRace, CardKeepsUp PROVE Spec => TxIsFifo
<1> USE DEF Fifo!FifoInit, Fifo!FifoNext, Fifo!fifoVars, Fifo!Enqueue, Fifo!Dequeue
<1>1. Init => Fifo!FifoInit
  BY DEF Init
<1>2. TypeOK /\ TxInv /\ [Next]_vars => [Fifo!FifoNext]_(Fifo!fifoVars)
  <2> SUFFICES ASSUME TypeOK, TxInv, [Next]_vars
               PROVE  [Fifo!FifoNext]_(Fifo!fifoVars)
    OBVIOUS
  <2>1. Pending = Len(submitted) - Len(wire)
    BY DEF TxInv, Queued
  <2>WriteTail. ASSUME NEW c \in Contexts, WriteTail(c) PROVE Fifo!FifoNext
    <3>1. frame[c] \in Frames /\ Pending <= Backlog
      BY <2>WriteTail DEF WriteTail, TxInv, OneSender
    <3>2. Len(submitted) - Len(wire) < NumTx - 1
      BY <2>1, <3>1, Counts DEF CardKeepsUp
    <3>3. QED
      BY <2>WriteTail, <3>1, <3>2 DEF WriteTail
  <2>Transmit. CASE Transmit
    <3>1. Dist(tdh) = 0 /\ tdh \in Slots /\ Pending > 0
      BY <2>Transmit, DistRange, Counts DEF Transmit, Pending
    <3>2. Len(wire) + Dist(tdh) + 1 = Len(wire) + 1 /\ Len(wire) < Len(submitted)
      BY <2>1, <3>1, Counts
    <3>3. OnWire(desc[tdh]) = submitted[Len(wire) + 1]
      BY <3>1, <3>2 DEF TxInv, Queued
    <3>4. QED
      BY <2>Transmit, <3>2, <3>3 DEF Transmit
  <2>4. ASSUME NEW c \in Contexts,
               Begin(c) \/ WriteAddress(c) \/ WriteLength(c) \/ WriteCommand(c)
                 \/ StepBucket(c)
        PROVE  UNCHANGED Fifo!fifoVars
    BY <2>4 DEF Begin, WriteAddress, WriteLength, WriteCommand, StepBucket
  <2>Stutter. CASE UNCHANGED vars
    BY <2>Stutter DEF vars
  <2>6. QED
    BY <2>WriteTail, <2>Transmit, <2>4, <2>Stutter
       DEF Next, inject_frame, arp_request, udp_broadcast, send, Contexts
<1>3. QED
  BY <1>1, <1>2, TypeCorrect, RingCorrect, PTL DEF Spec, TxIsFifo, Fifo!FifoSpec
=============================================================================
