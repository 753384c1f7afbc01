------------------------------- MODULE RxRing -------------------------------
(***************************************************************************)
(* The receive side of the E1000 driver (src/src/e1000.rs): a ring of      *)
(* descriptors shared with the network card.  The card fills descriptors   *)
(* from its head register RDH up to the tail register RDT and sets the     *)
(* "descriptor done" bit of each; poll() looks at one descriptor per turn  *)
(* of the kernel's main loop, hands the packet to the protocol code        *)
(* without copying it, clears the bit and moves RDT.  The main loop then   *)
(* halts until the next interrupt.                                         *)
(***************************************************************************)
EXTENDS Naturals, Sequences

CONSTANTS NumRx,       \* num_descriptors (32 in the driver)
          Packets,     \* the frames that can arrive
          MaxPackets   \* bound: how many frames arrive in one behaviour

ASSUME RxAssumption == /\ NumRx \in Nat \ {0, 1}
                       /\ MaxPackets \in Nat

VARIABLES
    status,             \* bit 0 of each descriptor's status, "descriptor done"
    buffer,             \* the frame in each descriptor's DMA buffer
    rdh, rdt,           \* the card's head and tail registers
    devpc,              \* the card: "idle", or "status" between its two writes
    current_rx_bucket,  \* the next descriptor poll() will look at
    old_bucket,         \* poll()'s local of that name
    seen,               \* the frame poll() read when it found the done bit set
    pc,                 \* where the main loop is
    accepted,           \* history: frames the card has put into the ring
    delivered           \* history: frames the protocol code was given

vars == <<status, buffer, rdh, rdt, devpc, current_rx_bucket, old_bucket, seen,
          pc, accepted, delivered>>

cpuVars == <<current_rx_bucket, old_bucket, seen, pc, delivered>>
devVars == <<rdh, devpc, accepted>>

Slots == 0 .. NumRx - 1
NoFrame == <<>>   \* what a fresh DMA buffer holds, no frame
Frames == Packets \cup {NoFrame}

\* init_rx_ring: zeroed descriptors, RDH = 0 and RDT = num_descriptors - 1.
Init ==
    /\ status = [i \in Slots |-> FALSE]
    /\ buffer = [i \in Slots |-> NoFrame]
    /\ rdh = 0
    /\ rdt = NumRx - 1
    /\ devpc = "idle"
    /\ current_rx_bucket = 0
    /\ old_bucket = 0
    /\ seen = NoFrame
    /\ pc = "poll"
    /\ accepted = <<>>
    /\ delivered = <<>>

-----------------------------------------------------------------------------
(* The card.  It owns the descriptors from RDH up to, not including, RDT;   *)
(* when RDH = RDT it has none and drops what arrives.                       *)

DmaBuffer(p) ==
    /\ devpc = "idle"
    /\ rdh # rdt
    /\ Len(accepted) < MaxPackets
    /\ buffer' = [buffer EXCEPT ![rdh] = p]
    /\ devpc' = "status"
    /\ UNCHANGED <<status, rdh, rdt, accepted, cpuVars>>

DmaStatus ==
    /\ devpc = "status"
    /\ status' = [status EXCEPT ![rdh] = TRUE]
    /\ accepted' = Append(accepted, buffer[rdh])
    /\ rdh' = (rdh + 1) % NumRx
    /\ devpc' = "idle"
    /\ UNCHANGED <<buffer, rdt, cpuVars>>

-----------------------------------------------------------------------------
(* The main loop: poll() and hlt().                                         *)

\* poll() returns false: the descriptor is not done.
PollEmpty ==
    /\ pc = "poll"
    /\ ~status[current_rx_bucket]
    /\ pc' = "hlt"
    /\ UNCHANGED <<status, buffer, rdt, devVars, current_rx_bucket, old_bucket,
                   seen, delivered>>

\* Mutant: the test of the done bit is dropped.
PollBegin_NoDoneTest ==
    /\ pc = "poll"
    /\ seen' = buffer[current_rx_bucket]
    /\ pc' = "handle"
    /\ UNCHANGED <<status, buffer, rdt, devVars, current_rx_bucket, old_bucket,
                   delivered>>

\* poll() finds the done bit, makes a slice of the DMA buffer and reads the
\* ethertype from it.
PollBegin ==
    /\ pc = "poll"
    /\ status[current_rx_bucket]
    /\ seen' = buffer[current_rx_bucket]
    /\ pc' = "handle"
    /\ UNCHANGED <<status, buffer, rdt, devVars, current_rx_bucket, old_bucket,
                   delivered>>

\* The ARP code or handle_incoming_packet works on the slice, that is, on what
\* the DMA buffer holds now.
PollHandle ==
    /\ pc = "handle"
    /\ delivered' = Append(delivered, buffer[current_rx_bucket])
    /\ pc' = "clear"
    /\ UNCHANGED <<status, buffer, rdt, devVars, current_rx_bucket, old_bucket,
                   seen>>

\* Mutants: the status is not cleared; the bucket is not stepped.
PollClearWith(newStatus, newBucket) ==
    /\ pc = "clear"
    /\ status' = [status EXCEPT ![current_rx_bucket] = newStatus]
    /\ old_bucket' = current_rx_bucket
    /\ current_rx_bucket' = newBucket
    /\ pc' = "tail"
    /\ UNCHANGED <<buffer, rdt, devVars, seen, delivered>>
PollClear_KeepsDone == PollClearWith(TRUE, (current_rx_bucket + 1) % NumRx)
PollClear_SameBucket == PollClearWith(FALSE, current_rx_bucket)

\* Clear the status, then step the bucket.
PollClear ==
    /\ pc = "clear"
    /\ status' = [status EXCEPT ![current_rx_bucket] = FALSE]
    /\ old_bucket' = current_rx_bucket
    /\ current_rx_bucket' = (current_rx_bucket + 1) % NumRx
    /\ pc' = "tail"
    /\ UNCHANGED <<buffer, rdt, devVars, seen, delivered>>

\* Mutant: RDT is set to the next bucket instead of the one just emptied.
PollTail_NextBucket ==
    /\ pc = "tail"
    /\ rdt' = current_rx_bucket
    /\ pc' = "hlt"
    /\ UNCHANGED <<status, buffer, devVars, current_rx_bucket, old_bucket, seen,
                   delivered>>

\* Give the descriptor back: RDT is set to the one just emptied.
PollTail ==
    /\ pc = "tail"
    /\ rdt' = old_bucket
    /\ pc' = "hlt"
    /\ UNCHANGED <<status, buffer, devVars, current_rx_bucket, old_bucket, seen,
                   delivered>>

\* An interrupt ends hlt() and the loop turns once more.  The card raises none.
Interrupt ==
    /\ pc = "hlt"
    /\ pc' = "poll"
    /\ UNCHANGED <<status, buffer, rdt, devVars, current_rx_bucket, old_bucket,
                   seen, delivered>>

poll == PollEmpty \/ PollBegin \/ PollHandle \/ PollClear \/ PollTail

Next == (\E p \in Packets : DmaBuffer(p)) \/ DmaStatus \/ poll \/ Interrupt

(***************************************************************************)
(* Fairness: the CPU runs, the card finishes a descriptor it has begun,    *)
(* and interrupts keep arriving (the repository's README tells the user to *)
(* move the mouse so that they do).                                        *)
(***************************************************************************)
Fairness == WF_vars(poll) /\ WF_vars(DmaStatus) /\ WF_vars(Interrupt)

Spec == Init /\ [][Next]_vars
FairSpec == Spec /\ Fairness

-----------------------------------------------------------------------------
(* Properties.                                                              *)

\* Every register, index and program counter keeps its range.
TypeOK ==
    /\ status \in [Slots -> BOOLEAN]
    /\ buffer \in [Slots -> Frames]
    /\ rdh \in Slots /\ rdt \in Slots
    /\ devpc \in {"idle", "status"}
    /\ current_rx_bucket \in Slots /\ old_bucket \in Slots
    /\ seen \in Frames
    /\ pc \in {"poll", "handle", "clear", "tail", "hlt"}
    /\ accepted \in Seq(Frames) /\ delivered \in Seq(Frames)

\* How many steps of (i + 1) % NumRx lead from the current bucket to slot i.
Ahead(i) == IF i >= current_rx_bucket THEN i - current_rx_bucket
                                      ELSE i - current_rx_bucket + NumRx

\* Frames handed over whose descriptor poll() has not cleared yet: 0 or 1.
Uncleared == IF pc = "clear" THEN 1 ELSE 0

\* How many descriptors, from the current bucket on, hold a done frame.
Done == Len(accepted) + Uncleared - Len(delivered)

\* Descriptors the driver keeps back from the card besides the done ones: the
\* one before the bucket always, one more until RDT is written.
Kept == IF pc = "tail" THEN 2 ELSE 1

\* The lengths of the three parts of the ring, seen from the current bucket: the
\* done frames, the descriptors the card may fill, those the driver keeps back.
RingShape ==
    /\ Len(delivered) <= Len(accepted)
    /\ Uncleared <= Len(delivered)
    /\ Done + Kept <= NumRx
    /\ Ahead(rdh) = Done
    /\ Ahead(rdt) = NumRx - Kept
    /\ devpc = "status" => Done + Kept < NumRx
    /\ pc = "tail" => Ahead(old_bucket) = NumRx - 1
    /\ pc \in {"handle", "clear"} => Done >= 1

\* Exactly the done part has its done bits set ...
DoneBits == \A i \in Slots : status[i] <=> Ahead(i) < Done

\* ... and it holds the frames not handed over yet, oldest first.
DoneFrames ==
    \A i \in Slots : Ahead(i) < Done =>
        buffer[i] = accepted[Len(delivered) - Uncleared + Ahead(i) + 1]

\* poll() parses the frame in place in the DMA buffer: from the moment it reads
\* the ethertype until it has given the descriptor up, the card does not
\* overwrite the buffer, so every read of the slice sees the same frame.
ZeroCopyStable ==
    pc \in {"handle", "clear"} => buffer[current_rx_bucket] = seen

\* The inductive invariant.
RingInv == RingShape /\ DoneBits /\ DoneFrames /\ ZeroCopyStable

\* The ring implements a queue: frames are handed to the protocol code in the
\* order the card took them, each exactly once, and the card never holds more
\* than num_descriptors - 1 that poll() has not handled.
Fifo == INSTANCE PacketFifo WITH Packets <- Frames, Capacity <- NumRx - 1
RxIsFifo == Fifo!FifoSpec

\* Every frame the card took is handed to the protocol code, provided
\* interrupts keep waking the main loop.
AllDelivered ==
    \A k \in 1 .. MaxPackets : Len(accepted) >= k ~> Len(delivered) >= k

\* A ring the card has filled never stays full: poll() gives descriptors back
\* through RDT (the "ring buffer collision fix" of poll()).
RingReopens == rdh = rdt ~> rdh # rdt
=============================================================================
