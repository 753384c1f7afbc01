------------------------------- MODULE TxRing -------------------------------
(***************************************************************************)
(* The transmit side of the E1000 driver: four copies of one sequence      *)
(* (e1000.rs poll, udp_broadcast and arp_request, net.rs inject_frame)     *)
(* that fill the descriptor at current_tx_bucket, step the bucket and      *)
(* write the card's tail register TDT.  The driver never looks at the head *)
(* register TDH or at a descriptor's status.                               *)
(*                                                                         *)
(* Three contexts of the one CPU that runs the kernel send frames: the     *)
(* main loop, with interrupts enabled; the ring-3 system call, with        *)
(* interrupts masked; and the keyboard interrupt, whose handler runs       *)
(* udp_broadcast to its end before the interrupted code goes on.           *)
(***************************************************************************)
EXTENDS Naturals, Sequences

CONSTANTS NumTx,      \* descriptors in the ring (8 in the driver)
          MaxFrames,  \* bound: how many frames are sent in one behaviour
          IrqPoints,  \* the points of the main loop's sequence at which Enter may be hit
          Backlog     \* how far the card may be behind when a send begins

Steps == {"idle", "addr", "length", "cmd", "step", "tail"}

ASSUME TxAssumption == /\ NumTx \in Nat \ {0, 1}
                       /\ MaxFrames \in Nat
                       /\ Backlog \in Nat
                       /\ IrqPoints \subseteq Steps

VARIABLES
    desc,               \* the descriptors: buffer_address, length and cmd
    tdh, tdt,           \* the card's head and tail registers
    current_tx_bucket,
    pc,                 \* where each context is in the sequence
    bucket,             \* each context's descriptor_addr
    stepped,            \* the bucket each context computed for TDT
    frame,              \* the frame each context sends
    begun,              \* history: how many sends have begun
    submitted,          \* history: frames whose send has returned, in order
    wire                \* history: what the card has put on the wire

vars == <<desc, tdh, tdt, current_tx_bucket, pc, bucket, stepped, frame,
          begun, submitted, wire>>

Contexts == {"main", "sys", "irq"}
Slots == 0 .. NumTx - 1
Frames == 1 .. MaxFrames     \* a frame is named by the order in which sends begin
NoFrame == 0                 \* the zeroed descriptor's address and length
Torn == MaxFrames + 1        \* bytes on the wire that are no frame anyone sent

\* init_tx_ring: zeroed descriptors, TDH = TDT = 0.
Init ==
    /\ desc = [i \in Slots |-> [addr |-> NoFrame, length |-> NoFrame, cmd |-> FALSE]]
    /\ tdh = 0 /\ tdt = 0
    /\ current_tx_bucket = 0
    /\ pc = [c \in Contexts |-> "idle"]
    /\ bucket = [c \in Contexts |-> 0]
    /\ stepped = [c \in Contexts |-> 0]
    /\ frame = [c \in Contexts |-> NoFrame]
    /\ begun = 0
    /\ submitted = <<>>
    /\ wire = <<>>

-----------------------------------------------------------------------------
(* The send sequence.                                                       *)

\* How many steps of (i + 1) % NumTx lead from TDH to slot i.
Dist(i) == IF i >= tdh THEN i - tdh ELSE i - tdh + NumTx

\* Descriptors between TDH and TDT, those the card has yet to send.
Pending == Dist(tdt)

\* Mutant: TDT is written first, before the descriptor is filled.
Begin_TailFirst(c) ==
    /\ pc[c] = "idle"
    /\ begun < MaxFrames
    /\ Pending <= Backlog
    /\ begun' = begun + 1
    /\ frame' = [frame EXCEPT ![c] = begun + 1]
    /\ bucket' = [bucket EXCEPT ![c] = current_tx_bucket]
    /\ pc' = [pc EXCEPT ![c] = "addr"]
    /\ tdt' = (current_tx_bucket + 1) % NumTx
    /\ UNCHANGED <<desc, tdh, current_tx_bucket, stepped, submitted, wire>>

\* A context allocates its frame and computes descriptor_addr.  The bound on
\* Pending is no test of the driver's: it says how slow the card may be.
Begin(c) ==
    /\ pc[c] = "idle"
    /\ begun < MaxFrames
    /\ Pending <= Backlog
    /\ begun' = begun + 1
    /\ frame' = [frame EXCEPT ![c] = begun + 1]
    /\ bucket' = [bucket EXCEPT ![c] = current_tx_bucket]
    /\ pc' = [pc EXCEPT ![c] = "addr"]
    /\ UNCHANGED <<desc, tdh, tdt, current_tx_bucket, stepped, submitted, wire>>

Idle == \A c \in Contexts : pc[c] = "idle"

\* The main loop answers a TCP segment; the ARP reply of poll() is the same.
inject_frame == Idle /\ Begin("main")

\* System call 5 of the ring-3 task.
arp_request == Idle /\ Begin("sys")

\* The Enter key: int 0x80 from the keyboard interrupt handler.
udp_broadcast == pc["main"] \in IrqPoints /\ pc["sys"] = "idle" /\ Begin("irq")

\* A context runs only when no interrupt handler runs on top of it.
Running(c) == c = "irq" \/ pc["irq"] = "idle"

WriteAddress(c) ==
    /\ pc[c] = "addr" /\ Running(c)
    /\ desc' = [desc EXCEPT ![bucket[c]].addr = frame[c]]
    /\ pc' = [pc EXCEPT ![c] = "length"]
    /\ UNCHANGED <<tdh, tdt, current_tx_bucket, bucket, stepped, frame, begun,
                   submitted, wire>>

WriteLength(c) ==
    /\ pc[c] = "length" /\ Running(c)
    /\ desc' = [desc EXCEPT ![bucket[c]].length = frame[c]]
    /\ pc' = [pc EXCEPT ![c] = "cmd"]
    /\ UNCHANGED <<tdh, tdt, current_tx_bucket, bucket, stepped, frame, begun,
                   submitted, wire>>

\* Mutant: the command byte (end of packet) is not written.
WriteCommand_Skips(c) ==
    /\ pc[c] = "cmd" /\ Running(c)
    /\ pc' = [pc EXCEPT ![c] = "step"]
    /\ UNCHANGED <<desc, tdh, tdt, current_tx_bucket, bucket, stepped, frame,
                   begun, submitted, wire>>

WriteCommand(c) ==
    /\ pc[c] = "cmd" /\ Running(c)
    /\ desc' = [desc EXCEPT ![bucket[c]].cmd = TRUE]
    /\ pc' = [pc EXCEPT ![c] = "step"]
    /\ UNCHANGED <<tdh, tdt, current_tx_bucket, bucket, stepped, frame, begun,
                   submitted, wire>>

\* Step the bucket.  The compiler may use the value read for descriptor_addr or
\* read the field again: the handler's writes to NET_CARD are invisible to it.
StepBucket(c) ==
    /\ pc[c] = "step" /\ Running(c)
    /\ \E old \in {current_tx_bucket, bucket[c]} :
          /\ stepped' = [stepped EXCEPT ![c] = (old + 1) % NumTx]
          /\ current_tx_bucket' = (old + 1) % NumTx
    /\ pc' = [pc EXCEPT ![c] = "tail"]
    /\ UNCHANGED <<desc, tdh, tdt, bucket, frame, begun, submitted, wire>>

\* Mutant: TDT is set to the descriptor just filled instead of the next one.
WriteTail_SameBucket(c) ==
    /\ pc[c] = "tail" /\ Running(c)
    /\ tdt' = bucket[c]
    /\ submitted' = Append(submitted, frame[c])
    /\ pc' = [pc EXCEPT ![c] = "idle"]
    /\ UNCHANGED <<desc, tdh, current_tx_bucket, bucket, stepped, frame, begun, wire>>

\* Write TDT, from a register or from the field; the send returns.
WriteTail(c) ==
    /\ pc[c] = "tail" /\ Running(c)
    /\ tdt' \in {stepped[c], current_tx_bucket}
    /\ submitted' = Append(submitted, frame[c])
    /\ pc' = [pc EXCEPT ![c] = "idle"]
    /\ UNCHANGED <<desc, tdh, current_tx_bucket, bucket, stepped, frame, begun, wire>>

send(c) == WriteAddress(c) \/ WriteLength(c) \/ WriteCommand(c)
              \/ StepBucket(c) \/ WriteTail(c)

-----------------------------------------------------------------------------
(* The card sends descriptors from TDH up to, not including, TDT.           *)

\* What the card makes of a descriptor: a frame only if all fields belong to it.
OnWire(d) == IF d.cmd /\ d.length = d.addr /\ d.addr # NoFrame THEN d.addr ELSE Torn

Transmit ==
    /\ tdh # tdt
    /\ wire' = Append(wire, OnWire(desc[tdh]))
    /\ tdh' = (tdh + 1) % NumTx
    /\ UNCHANGED <<desc, tdt, current_tx_bucket, pc, bucket, stepped, frame, begun,
                   submitted>>

\* Beyond this many descriptors the card repeats itself: bound of the broken cases.
WireBound == Len(wire) < 2 * MaxFrames

Next ==
    \/ inject_frame \/ arp_request \/ udp_broadcast
    \/ \E c \in Contexts : send(c)
    \/ WireBound /\ Transmit

\* A send that has begun runs on, and the card sends what it is given.
Fairness == (\A c \in Contexts : WF_vars(send(c))) /\ WF_vars(WireBound /\ Transmit)

Spec == Init /\ [][Next]_vars
FairSpec == Spec /\ Fairness

-----------------------------------------------------------------------------
(* Properties.                                                              *)

\* Descriptor fields, registers and program counters keep their ranges.
TypeOK ==
    /\ desc \in [Slots -> [addr : Frames \cup {NoFrame},
                           length : Frames \cup {NoFrame}, cmd : BOOLEAN]]
    /\ tdh \in Slots /\ tdt \in Slots /\ current_tx_bucket \in Slots
    /\ pc \in [Contexts -> Steps]
    /\ bucket \in [Contexts -> Slots] /\ stepped \in [Contexts -> Slots]
    /\ frame \in [Contexts -> Frames \cup {NoFrame}]
    /\ begun \in 0 .. MaxFrames
    /\ submitted \in Seq(Frames) /\ wire \in Seq(Frames \cup {Torn})

\* One send at a time, each on the descriptor at TDT, with the bucket one ahead
\* of TDT between the last two steps.
OneSender ==
    /\ \A c, d \in Contexts : pc[c] # "idle" /\ pc[d] # "idle" => c = d
    /\ \A c \in Contexts : pc[c] # "idle" =>
          bucket[c] = tdt /\ frame[c] \in Frames /\ Pending <= Backlog
    /\ \A c \in Contexts : pc[c] = "tail" =>
          stepped[c] = current_tx_bucket /\ current_tx_bucket = (tdt + 1) % NumTx
    /\ (\A c \in Contexts : pc[c] # "tail") => current_tx_bucket = tdt

\* The descriptor being filled holds what its sender has written so far.
Filling ==
    \A c \in Contexts :
        /\ pc[c] \in {"length", "cmd", "step", "tail"} => desc[tdt].addr = frame[c]
        /\ pc[c] \in {"cmd", "step", "tail"} => desc[tdt].length = frame[c]
        /\ pc[c] \in {"step", "tail"} => desc[tdt].cmd

\* From TDH to TDT the descriptors hold the frames not yet on the wire, in order.
Queued ==
    /\ Pending = Len(submitted) - Len(wire)
    /\ \A i \in Slots : Dist(i) < Pending =>
          OnWire(desc[i]) = submitted[Len(wire) + Dist(i) + 1]

\* The inductive invariant, under the assumptions that Enter is hit between sends
\* only and that the card never lags by a full ring.
TxInv == OneSender /\ Filling /\ Queued

\* The ring implements a queue: when a send returns its frame is in the queue,
\* and the card puts exactly the queued frames on the wire, whole, in order and
\* once each, although every send reuses descriptors without asking the card
\* whether it is done with them.
Fifo == INSTANCE PacketFifo WITH Packets <- Frames, Capacity <- NumTx - 1,
                                 accepted <- submitted, delivered <- wire
TxIsFifo == Fifo!FifoSpec

\* No context writes a descriptor the card may still read.
NoWriteUnderDma ==
    \A c \in Contexts : pc[c] \in {"addr", "length", "cmd"} =>
        Dist(bucket[c]) >= Pending

\* Every frame whose send returned reaches the wire.
AllTransmitted ==
    \A f \in Frames : (\E k \in DOMAIN submitted : submitted[k] = f)
                      ~> (\E k \in DOMAIN wire : wire[k] = f)

\* When nothing is under way and the card has caught up with TDT, every frame
\* whose send returned has been on the wire: what the log lines after a send say
\* ("[SYN-ACK] TRANSMITTED TO HOST.", "E1000 HARDWARE TRANSMIT (TX) COMPLETE!").
LoggedIsTransmitted ==
    Idle /\ tdh = tdt =>
        \A k \in DOMAIN submitted : \E j \in DOMAIN wire : wire[j] = submitted[k]
=============================================================================
