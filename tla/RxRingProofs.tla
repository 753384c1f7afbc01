---------------------------- MODULE RxRingProofs ----------------------------
(***************************************************************************)
(* Proofs about the receive ring, for every number of descriptors.         *)
(* The argument: RingInv describes the ring as seen from the current       *)
(* bucket.  A step of the card lengthens the run of done frames by one, a  *)
(* step of poll() shortens it at the other end; Ahead turns the wrapping   *)
(* indices into distances, so no step needs modular arithmetic.            *)
(***************************************************************************)
EXTENDS RxRing, Integers, TLAPS

USE RxAssumption

\* Stepping an index: the remainder is only a wrap at the last slot.
LEMMA StepIndex ==
    ASSUME NEW i \in Slots
    PROVE  (i + 1) % NumRx = IF i = NumRx - 1 THEN 0 ELSE i + 1
  BY DEF Slots

\* Every register, index and program counter of the receive ring keeps its
\* range, whatever the interleaving of card and main loop.
THEOREM TypeCorrect == Spec => []TypeOK
<1>1. Init => TypeOK
  BY DEF Init, TypeOK, Slots, Frames
<1>2. ASSUME TypeOK, [Next]_vars PROVE TypeOK'
  <2> USE <1>2 DEF TypeOK
  <2>DmaBuffer. ASSUME NEW p \in Packets, DmaBuffer(p) PROVE TypeOK'
    BY <2>DmaBuffer DEF DmaBuffer, cpuVars, Frames
  <2>DmaStatus. CASE DmaStatus
    BY <2>DmaStatus, StepIndex DEF DmaStatus, cpuVars, Slots
  <2>PollEmpty. CASE PollEmpty
    BY <2>PollEmpty DEF PollEmpty, devVars
  <2>PollBegin. CASE PollBegin
    BY <2>PollBegin DEF PollBegin, devVars
  <2>PollHandle. CASE PollHandle
    BY <2>PollHandle DEF PollHandle, devVars
  <2>PollClear. CASE PollClear
    BY <2>PollClear, StepIndex DEF PollClear, devVars, Slots
  <2>PollTail. CASE PollTail
    BY <2>PollTail DEF PollTail, devVars
  <2>Interrupt. CASE Interrupt
    BY <2>Interrupt DEF Interrupt, devVars
  <2>Stutter. CASE UNCHANGED vars
    BY <2>Stutter DEF vars
  <2>10. QED
    BY <2>DmaBuffer, <2>DmaStatus, <2>PollEmpty, <2>PollBegin, <2>PollHandle,
       <2>PollClear, <2>PollTail, <2>Interrupt, <2>Stutter DEF Next, poll
<1>3. QED
  BY <1>1, <1>2, PTL DEF Spec

\* A distance is less than the ring is long, and two slots never share one.
LEMMA AheadRange ==
    ASSUME TypeOK, NEW i \in Slots, NEW j \in Slots
    PROVE  Ahead(i) \in Slots /\ (Ahead(i) = Ahead(j) <=> i = j)
  BY DEF Ahead, TypeOK, Slots

\* The card's step of its head register is one step further from the bucket.
LEMMA AheadOfNext ==
    ASSUME TypeOK, NEW i \in Slots, Ahead(i) # NumRx - 1
    PROVE  Ahead((i + 1) % NumRx) = Ahead(i) + 1
<1>1. current_rx_bucket \in Slots
  BY DEF TypeOK
<1>2. ASSUME NEW n, n = IF i = NumRx - 1 THEN 0 ELSE i + 1
      PROVE  Ahead(n) = Ahead(i) + 1
  BY <1>1, <1>2 DEF Ahead, Slots
<1>3. QED
  BY <1>2, StepIndex

\* poll()'s step of the bucket brings every slot one step nearer, and puts the
\* old bucket last.
LEMMA AheadAfterStep ==
    ASSUME TypeOK, current_rx_bucket' = (current_rx_bucket + 1) % NumRx,
           NEW i \in Slots
    PROVE  Ahead(i)' = IF i = current_rx_bucket THEN NumRx - 1 ELSE Ahead(i) - 1
<1>1. current_rx_bucket \in Slots
  BY DEF TypeOK
<1>2. current_rx_bucket' = IF current_rx_bucket = NumRx - 1 THEN 0
                                                            ELSE current_rx_bucket + 1
  BY <1>1, StepIndex
<1>3. QED
  BY <1>1, <1>2 DEF Ahead, Slots

\* The counts of RingShape are integers.
LEMMA Counts ==
    ASSUME TypeOK
    PROVE  /\ Len(accepted) \in Nat /\ Len(delivered) \in Nat
           /\ Uncleared \in {0, 1} /\ Kept \in {1, 2} /\ Done \in Int
           /\ NumRx \in Nat /\ NumRx >= 2
           /\ Done = Len(accepted) + Uncleared - Len(delivered)
           /\ current_rx_bucket \in Slots /\ rdh \in Slots /\ rdt \in Slots
           /\ old_bucket \in Slots /\ Ahead(current_rx_bucket) = 0
<1>1. Len(accepted) \in Nat /\ Len(delivered) \in Nat
  BY DEF TypeOK
<1>2. QED
  BY <1>1 DEF TypeOK, Uncleared, Kept, Done, Ahead, Slots

\* The inductive invariant of the receive ring: done frames, then the card's
\* free descriptors, then the ones the driver keeps back, in ring order.
THEOREM RingCorrect == Spec => []RingInv
<1>1. Init => RingInv
  BY DEF Init, Slots, RingShape, DoneBits, DoneFrames, ZeroCopyStable, RingInv,
         Ahead, Done, Kept, Uncleared
<1>2. TypeOK /\ TypeOK' /\ RingInv /\ [Next]_vars => RingInv'
  <2> SUFFICES ASSUME TypeOK, TypeOK', RingInv, [Next]_vars PROVE RingInv'
    OBVIOUS
  <2>0. RingShape /\ DoneBits /\ DoneFrames /\ ZeroCopyStable
    BY DEF RingInv
  <2>DmaBuffer. ASSUME NEW p \in Packets, DmaBuffer(p) PROVE RingInv'
    <3>1. /\ UNCHANGED <<status, rdh, rdt, accepted, delivered, pc, seen,
                         current_rx_bucket, old_bucket>>
          /\ rdh # rdt
          /\ buffer' = [buffer EXCEPT ![rdh] = p]
      BY <2>DmaBuffer DEF DmaBuffer, cpuVars
    <3>2. /\ Done' = Done /\ Kept' = Kept /\ Uncleared' = Uncleared
          /\ \A i \in Slots : Ahead(i)' = Ahead(i)
      BY <3>1 DEF Done, Kept, Uncleared, Ahead
    <3>3. Done + Kept < NumRx
      BY <2>0, <3>1, Counts, AheadRange DEF RingShape
    <3>4. RingShape'
      <4>1. Ahead(rdh)' = Ahead(rdh) /\ Ahead(rdt)' = Ahead(rdt)
            /\ Ahead(old_bucket)' = Ahead(old_bucket)
        BY <3>1 DEF Ahead
      <4>2. QED
        BY <2>0, <3>1, <3>2, <3>3, <4>1 DEF RingShape
    <3>5. DoneBits'
      BY <2>0, <3>1, <3>2 DEF DoneBits
    <3>6. DoneFrames'
      <4>1. ASSUME NEW i \in Slots, Ahead(i) < Done
            PROVE  buffer'[i] = buffer[i]
        BY <2>0, <3>1, <4>1, Counts DEF RingShape, TypeOK
      <4>2. QED
        BY <2>0, <3>1, <3>2, <4>1 DEF DoneFrames
    <3>7. ZeroCopyStable'
      <4>1. pc \in {"handle", "clear"} => current_rx_bucket # rdh
        BY <2>0, Counts DEF RingShape
      <4>2. QED
        BY <2>0, <3>1, <4>1 DEF ZeroCopyStable, TypeOK
    <3>8. QED
      BY <3>4, <3>5, <3>6, <3>7 DEF RingInv
  <2>DmaStatus. CASE DmaStatus
    <3>1. /\ UNCHANGED <<buffer, rdt, delivered, pc, seen, current_rx_bucket,
                         old_bucket>>
          /\ devpc = "status" /\ devpc' = "idle"
          /\ rdh' = (rdh + 1) % NumRx
          /\ status' = [status EXCEPT ![rdh] = TRUE]
          /\ accepted' = Append(accepted, buffer[rdh])
      BY <2>DmaStatus DEF DmaStatus, cpuVars
    <3>2. buffer[rdh] \in Frames /\ Len(accepted') = Len(accepted) + 1
      BY <3>1 DEF TypeOK
    <3>3. /\ Kept' = Kept /\ Uncleared' = Uncleared
          /\ \A i \in Slots : Ahead(i)' = Ahead(i)
      BY <3>1 DEF Kept, Uncleared, Ahead
    <3>4. Done' = Done + 1
      BY <3>1, <3>2, <3>3, Counts DEF Done
    <3>5. /\ Ahead(rdh) = Done /\ Done + Kept < NumRx
          /\ Len(delivered) <= Len(accepted)
      BY <2>0, <3>1 DEF RingShape
    <3>6. RingShape'
      <4>1. Ahead(rdh)' = Done + 1
        <5>1. Ahead(rdh') = Ahead(rdh) + 1
          BY <3>1, <3>5, AheadOfNext, Counts
        <5>2. Ahead(rdh)' = Ahead(rdh')
          BY <3>1 DEF Ahead
        <5>3. QED
          BY <3>5, <5>1, <5>2
      <4>2. Ahead(rdt)' = Ahead(rdt) /\ Ahead(old_bucket)' = Ahead(old_bucket)
        BY <3>1 DEF Ahead
      <4>3. QED
        BY <2>0, <3>1, <3>2, <3>3, <3>4, <3>5, <4>1, <4>2, Counts DEF RingShape
    <3>7. DoneBits'
      <4> SUFFICES ASSUME NEW i \in Slots PROVE status'[i] <=> Ahead(i)' < Done'
        BY DEF DoneBits
      <4>1. status[i] <=> Ahead(i) < Done
        BY <2>0 DEF DoneBits
      <4>2. Ahead(i) \in Nat /\ (Ahead(i) = Done <=> i = rdh)
        <5>1. rdh \in Slots
          BY Counts
        <5>2. QED
          BY <3>5, <5>1, AheadRange DEF Slots
      <4>3. Ahead(i) < Done + 1 <=> (Ahead(i) < Done \/ i = rdh)
        BY <4>2, Counts
      <4>4. status'[i] <=> (status[i] \/ i = rdh)
        BY <3>1, Zenon DEF TypeOK
      <4>5. Ahead(i)' < Done' <=> Ahead(i) < Done + 1
        BY <3>3, <3>4
      <4>6. QED
        BY <4>1, <4>3, <4>4, <4>5
    <3>8. DoneFrames'
      <4> SUFFICES ASSUME NEW i \in Slots, Ahead(i)' < Done'
                   PROVE  buffer'[i] = accepted'[(Len(delivered) - Uncleared + Ahead(i) + 1)']
        BY DEF DoneFrames
      <4> DEFINE k == Len(delivered) - Uncleared + Ahead(i) + 1
      <4>1. Ahead(i) \in Nat /\ Ahead(i) < Done + 1 /\ k' = k
        BY <3>1, <3>3, <3>4, AheadRange DEF Slots
      <4>2. CASE i = rdh
        <5>1. k = Len(accepted) + 1
          BY <3>5, <4>2, Counts
        <5>2. accepted'[k] = buffer[rdh]
          BY <3>1, <3>2, <5>1 DEF TypeOK
        <5>3. QED
          BY <3>1, <4>1, <4>2, <5>2
      <4>3. CASE i # rdh
        <5>1. Ahead(i) < Done
          BY <3>5, <4>1, <4>3, AheadRange, Counts
        <5>2. buffer[i] = accepted[k]
          BY <2>0, <5>1 DEF DoneFrames
        <5>3. k \in Int /\ k <= Len(accepted)
          BY <4>1, <5>1, Counts
        <5>4. k >= 1
          <6>1. Len(delivered) - Uncleared >= 0
            BY <2>0, Counts DEF RingShape
          <6>2. QED
            BY <4>1, <6>1, Counts
        <5>5. accepted'[k] = accepted[k]
          BY <3>1, <3>2, <5>3, <5>4 DEF TypeOK
        <5>6. QED
          BY <3>1, <4>1, <5>2, <5>5
      <4>4. QED
        BY <4>2, <4>3
    <3>9. ZeroCopyStable'
      BY <2>0, <3>1 DEF ZeroCopyStable
    <3>10. QED
      BY <3>6, <3>7, <3>8, <3>9 DEF RingInv
  <2>PollEmpty. CASE PollEmpty
    BY <2>0, <2>PollEmpty DEF PollEmpty, devVars, RingInv, RingShape,
       DoneBits, DoneFrames,
                      ZeroCopyStable, Ahead, Done, Kept, Uncleared
  <2>PollBegin. CASE PollBegin
    <3>1. /\ UNCHANGED <<status, buffer, rdh, rdt, devpc, accepted, delivered,
                         current_rx_bucket, old_bucket>>
          /\ pc = "poll" /\ pc' = "handle" /\ status[current_rx_bucket]
          /\ seen' = buffer[current_rx_bucket]
      BY <2>PollBegin DEF PollBegin, devVars
    <3>2. /\ Done' = Done /\ Kept' = Kept /\ Uncleared' = Uncleared
          /\ \A i \in Slots : Ahead(i)' = Ahead(i)
      BY <3>1 DEF Done, Kept, Uncleared, Ahead
    <3>3. Done >= 1
      BY <2>0, <3>1, Counts DEF DoneBits
    <3>4. RingShape'
      <4>1. Ahead(rdh)' = Ahead(rdh) /\ Ahead(rdt)' = Ahead(rdt)
            /\ Ahead(old_bucket)' = Ahead(old_bucket)
        BY <3>1 DEF Ahead
      <4>2. QED
        BY <2>0, <3>1, <3>2, <3>3, <4>1 DEF RingShape
    <3>5. DoneBits' /\ DoneFrames' /\ ZeroCopyStable'
      BY <2>0, <3>1, <3>2 DEF DoneBits, DoneFrames, ZeroCopyStable
    <3>6. QED
      BY <3>4, <3>5 DEF RingInv
  <2>PollHandle. CASE PollHandle
    <3>1. /\ UNCHANGED <<status, buffer, rdh, rdt, devpc, accepted, seen,
                         current_rx_bucket, old_bucket>>
          /\ pc = "handle" /\ pc' = "clear"
          /\ delivered' = Append(delivered, buffer[current_rx_bucket])
      BY <2>PollHandle DEF PollHandle, devVars
    <3>2. Len(delivered') = Len(delivered) + 1
      BY <3>1 DEF TypeOK
    <3>3. /\ Kept' = 1 /\ Kept = 1 /\ Uncleared' = 1 /\ Uncleared = 0
          /\ \A i \in Slots : Ahead(i)' = Ahead(i)
      BY <3>1 DEF Kept, Uncleared, Ahead
    <3>4. /\ Done' = Done /\ Done >= 1
          /\ (Len(delivered) - Uncleared)' = Len(delivered) - Uncleared
      BY <2>0, <3>1, <3>2, <3>3, Counts DEF Done, RingShape
    <3>5. RingShape'
      <4>1. Ahead(rdh)' = Ahead(rdh) /\ Ahead(rdt)' = Ahead(rdt)
            /\ Ahead(old_bucket)' = Ahead(old_bucket)
        BY <3>1 DEF Ahead
      <4>2. QED
        BY <2>0, <3>1, <3>2, <3>3, <3>4, <4>1, Counts DEF RingShape
    <3>6. DoneBits' /\ ZeroCopyStable'
      BY <2>0, <3>1, <3>3, <3>4 DEF DoneBits, ZeroCopyStable
    <3>7. DoneFrames'
      BY <2>0, <3>1, <3>3, <3>4 DEF DoneFrames
    <3>8. QED
      BY <3>5, <3>6, <3>7 DEF RingInv
  <2>PollClear. CASE PollClear
    <3>1. /\ UNCHANGED <<buffer, rdh, rdt, devpc, accepted, delivered, seen>>
          /\ pc = "clear" /\ pc' = "tail"
          /\ status' = [status EXCEPT ![current_rx_bucket] = FALSE]
          /\ old_bucket' = current_rx_bucket
          /\ current_rx_bucket' = (current_rx_bucket + 1) % NumRx
      BY <2>PollClear DEF PollClear, devVars
    <3>2. /\ Kept = 1 /\ Kept' = 2 /\ Uncleared = 1 /\ Uncleared' = 0
      BY <3>1 DEF Kept, Uncleared
    <3>3. Done' = Done - 1 /\ Done >= 1 /\ Done + 1 <= NumRx
      BY <2>0, <3>1, <3>2, Counts DEF Done, RingShape
    <3>4. ASSUME NEW i \in Slots
          PROVE  /\ Ahead(i) \in Nat /\ Ahead(i) < NumRx
                 /\ i # current_rx_bucket => Ahead(i) # 0 /\ Ahead(i)' = Ahead(i) - 1
                 /\ i = current_rx_bucket => Ahead(i) = 0 /\ Ahead(i)' = NumRx - 1
      <4>1. current_rx_bucket \in Slots /\ Ahead(current_rx_bucket) = 0
        BY Counts
      <4>2. Ahead(i) \in Nat /\ Ahead(i) < NumRx /\ (Ahead(i) = 0 <=> i = current_rx_bucket)
        BY <4>1, AheadRange DEF Slots
      <4>3. Ahead(i)' = IF i = current_rx_bucket THEN NumRx - 1 ELSE Ahead(i) - 1
        BY <3>1, AheadAfterStep
      <4>4. QED
        BY <4>2, <4>3
    <3>5. RingShape'
      <4>1. Ahead(rdh)' = Done - 1
        <5>1. Ahead(rdh) = Done
          BY <2>0 DEF RingShape
        <5>2. rdh # current_rx_bucket /\ rdh \in Slots
          BY <3>3, <5>1, Counts
        <5>3. QED
          BY <3>1, <3>4, <5>1, <5>2 DEF Ahead
      <4>2. Ahead(rdt)' = NumRx - 2
        <5>1. Ahead(rdt) = NumRx - 1
          BY <2>0, <3>2 DEF RingShape
        <5>2. rdt # current_rx_bucket /\ rdt \in Slots
          BY <5>1, Counts
        <5>3. QED
          BY <3>1, <3>4, <5>1, <5>2, Counts DEF Ahead
      <4>3. Ahead(old_bucket)' = NumRx - 1
        BY <3>1, <3>4, Counts DEF Ahead
      <4>4. QED
        BY <2>0, <3>1, <3>2, <3>3, <4>1, <4>2, <4>3, Counts DEF RingShape
    <3>6. DoneBits'
      <4> SUFFICES ASSUME NEW i \in Slots PROVE status'[i] <=> Ahead(i)' < Done'
        BY DEF DoneBits
      <4>1. status[i] <=> Ahead(i) < Done
        BY <2>0 DEF DoneBits
      <4>2. status'[i] <=> (status[i] /\ i # current_rx_bucket)
        BY <3>1, Zenon DEF TypeOK
      <4>3. CASE i = current_rx_bucket
        BY <3>3, <3>4, <4>2, <4>3, Counts
      <4>4. CASE i # current_rx_bucket
        <5>1. Ahead(i) \in Nat /\ Ahead(i)' = Ahead(i) - 1
          BY <3>4, <4>4
        <5>2. Done \in Int /\ Done' = Done - 1
          BY <3>3, Counts
        <5>3. Ahead(i)' < Done' <=> Ahead(i) < Done
          BY <5>1, <5>2
        <5>4. QED
          BY <4>1, <4>2, <4>4, <5>3
      <4>5. QED
        BY <4>3, <4>4
    <3>7. DoneFrames'
      <4> SUFFICES ASSUME NEW i \in Slots, Ahead(i)' < Done'
                   PROVE  buffer'[i] = accepted'[(Len(delivered) - Uncleared + Ahead(i) + 1)']
        BY DEF DoneFrames
      <4>1. i # current_rx_bucket
        BY <3>3, <3>4, Counts
      <4>2. Ahead(i) < Done /\ Ahead(i)' = Ahead(i) - 1
        BY <3>3, <3>4, <4>1, Counts
      <4>3. (Len(delivered) - Uncleared + Ahead(i) + 1)' = Len(delivered) - Uncleared + Ahead(i) + 1
        BY <3>1, <3>2, <3>4, <4>2, Counts
      <4>4. QED
        BY <2>0, <3>1, <4>2, <4>3 DEF DoneFrames
    <3>8. QED
      BY <3>1, <3>5, <3>6, <3>7 DEF RingInv, ZeroCopyStable
  <2>PollTail. CASE PollTail
    <3>1. /\ UNCHANGED <<status, buffer, rdh, devpc, accepted, delivered, seen,
                         current_rx_bucket, old_bucket>>
          /\ pc = "tail" /\ pc' = "hlt" /\ rdt' = old_bucket
      BY <2>PollTail DEF PollTail, devVars
    <3>2. /\ Done' = Done /\ Kept = 2 /\ Kept' = 1 /\ Uncleared' = Uncleared
          /\ \A i \in Slots : Ahead(i)' = Ahead(i)
      BY <3>1 DEF Done, Kept, Uncleared, Ahead
    <3>3. RingShape'
      <4>1. Ahead(rdh)' = Ahead(rdh) /\ Ahead(rdt)' = Ahead(old_bucket)
        BY <3>1 DEF Ahead
      <4>2. QED
        BY <2>0, <3>1, <3>2, <4>1, Counts DEF RingShape
    <3>4. DoneBits' /\ DoneFrames' /\ ZeroCopyStable'
      BY <2>0, <3>1, <3>2 DEF DoneBits, DoneFrames, ZeroCopyStable
    <3>5. QED
      BY <3>3, <3>4 DEF RingInv
  <2>Interrupt. CASE Interrupt
    BY <2>0, <2>Interrupt DEF Interrupt, devVars, RingInv, RingShape,
       DoneBits, DoneFrames,
                      ZeroCopyStable, Ahead, Done, Kept, Uncleared
  <2>Stutter. CASE UNCHANGED vars
    BY <2>0, <2>Stutter DEF vars, RingInv, RingShape, DoneBits, DoneFrames,
                      ZeroCopyStable, Ahead, Done, Kept, Uncleared
  <2>10. QED
    BY <2>DmaBuffer, <2>DmaStatus, <2>PollEmpty, <2>PollBegin, <2>PollHandle,
       <2>PollClear, <2>PollTail, <2>Interrupt, <2>Stutter DEF Next, poll
<1>3. QED
  BY <1>1, <1>2, TypeCorrect, PTL DEF Spec

\* poll() may parse a frame in place: the card never overwrites the DMA buffer
\* of the descriptor in hand.
THEOREM ZeroCopy == Spec => []ZeroCopyStable
<1>1. RingInv => ZeroCopyStable
  BY DEF RingInv, ZeroCopyStable
<1>2. QED
  BY <1>1, RingCorrect, PTL

\* The receive ring implements a first-in first-out queue that holds at most
\* num_descriptors - 1 frames: nothing is lost, repeated or reordered between
\* the card and the protocol code.
THEOREM RefinesFifo == Spec => RxIsFifo
<1> USE DEF Fifo!FifoInit, Fifo!FifoNext, Fifo!fifoVars, Fifo!Enqueue, Fifo!Dequeue
<1>1. Init => Fifo!FifoInit
  BY DEF Init
<1>2. TypeOK /\ RingInv /\ [Next]_vars => [Fifo!FifoNext]_(Fifo!fifoVars)
  <2> SUFFICES ASSUME TypeOK, RingInv, [Next]_vars
               PROVE  [Fifo!FifoNext]_(Fifo!fifoVars)
    OBVIOUS
  <2> USE DEF TypeOK
  <2>DmaStatus. CASE DmaStatus
    <3>1. Len(accepted) - Len(delivered) < NumRx - 1
      <4>1. Done + Kept < NumRx
        BY <2>DmaStatus DEF DmaStatus, RingInv, RingShape
      <4>2. QED
        BY <4>1, Counts
    <3>2. Fifo!Enqueue(buffer[rdh])
      BY <2>DmaStatus, <3>1 DEF DmaStatus, cpuVars
    <3>3. QED
      BY <3>2
  <2>PollHandle. CASE PollHandle
    <3>1. Ahead(current_rx_bucket) = 0 /\ Done >= 1 /\ Uncleared = 0
      BY <2>PollHandle, Counts DEF PollHandle, RingInv, RingShape, Uncleared
    <3>2. Len(delivered) < Len(accepted)
      BY <3>1, Counts
    <3>3. buffer[current_rx_bucket] = accepted[Len(delivered) + 1]
      <4>1. Len(delivered) - Uncleared + Ahead(current_rx_bucket) + 1 = Len(delivered) + 1
        BY <3>1, Counts
      <4>2. QED
        BY <3>1, <4>1, Counts DEF RingInv, DoneFrames
    <3>4. QED
      BY <2>PollHandle, <3>2, <3>3 DEF PollHandle, devVars
  <2>DmaBuffer. ASSUME NEW p \in Packets, DmaBuffer(p) PROVE UNCHANGED Fifo!fifoVars
    BY <2>DmaBuffer DEF DmaBuffer, cpuVars
  <2>Silent. CASE PollEmpty \/ PollBegin \/ PollClear \/ PollTail \/ Interrupt
    BY <2>Silent DEF PollEmpty, PollBegin, PollClear, PollTail, Interrupt, devVars
  <2>Stutter. CASE UNCHANGED vars
    BY <2>Stutter DEF vars
  <2>6. QED
    BY <2>DmaStatus, <2>PollHandle, <2>DmaBuffer, <2>Silent, <2>Stutter DEF Next, poll
<1>3. QED
  BY <1>1, <1>2, TypeCorrect, RingCorrect, PTL DEF Spec, RxIsFifo, Fifo!FifoSpec
=============================================================================
