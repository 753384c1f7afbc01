-------------------------------- MODULE Mouse --------------------------------
(***************************************************************************)
(* The PS/2 mouse driver (mouse.rs): IRQ 12 hands process_packet_byte one  *)
(* byte at a time, three bytes make a report, which is decoded into the    *)
(* atomics (module Pointer).                                               *)
(*                                                                         *)
(* Only the first byte of a report can be told from the others, by bit 3.  *)
(* A byte that is no part of a report (the acknowledgment 0xFA, read once  *)
(* by init with interrupts off and again by the handler of the interrupt   *)
(* it left pending in the local APIC) puts the assembly out of step.       *)
(***************************************************************************)
EXTENDS Pointer, Sequences

CONSTANT MaxStrays     \* bound: stray acknowledgments before the first report

\* PS/2: bit 3 of a report's first byte is always set.
ASSUME MouseAssumption == MaxStrays \in Nat /\ \A p \in Packets : Bit(p[1], 3)

VARIABLES MOUSE_PACKET,   \* its first MOUSE_CYCLE bytes; the others are never read
          packet,         \* the mouse: the report being sent, <<>> before the first
          sending,        \* the mouse: how many of its bytes have been sent
          strays,         \* stray bytes so far
          whole           \* history: the last report decoded was one the mouse sent

mouseVars == <<pointerVars, MOUSE_PACKET, packet, sending, strays, whole>>

MOUSE_CYCLE == Len(MOUSE_PACKET)

Ack == 250   \* 0xFA
Rest == <<8, 0, 0>>

MouseInit ==
    /\ PointerInit
    /\ MOUSE_PACKET = <<>>
    /\ packet = <<>> /\ sending = 0
    /\ strays = 0 /\ whole = TRUE

\* Mutant: any byte starts a report.
process_packet_byte_NoBit3(byte) ==
    LET p == Append(MOUSE_PACKET, byte)
    IN  IF MOUSE_CYCLE = 2
          THEN Decode(p) /\ MOUSE_PACKET' = <<>> /\ whole' = (p = packet')
          ELSE MOUSE_PACKET' = p /\ UNCHANGED <<pointerVars, whole>>

\* Mutant: the cycle is not reset after a report.
process_packet_byte_NoReset(byte) ==
    LET p == Append(MOUSE_PACKET, byte)
    IN  CASE MOUSE_CYCLE = 0 /\ ~Bit(byte, 3) -> UNCHANGED <<pointerVars, MOUSE_PACKET, whole>>
          [] MOUSE_CYCLE = 2 -> Decode(p) /\ UNCHANGED MOUSE_PACKET /\ whole' = (p = packet')
          [] OTHER -> MOUSE_PACKET' = p /\ UNCHANGED <<pointerVars, whole>>

process_packet_byte(byte) ==
    LET p == Append(MOUSE_PACKET, byte)
    IN  CASE MOUSE_CYCLE = 0 /\ ~Bit(byte, 3) -> UNCHANGED <<pointerVars, MOUSE_PACKET, whole>>
          [] MOUSE_CYCLE = 2 -> Decode(p) /\ MOUSE_PACKET' = <<>> /\ whole' = (p = packet')
          [] OTHER -> MOUSE_PACKET' = p /\ UNCHANGED <<pointerVars, whole>>

\* IRQ 12 brings the first byte of a report.
FirstByte(p) ==
    /\ sending = 0
    /\ packet' = p /\ sending' = 1
    /\ process_packet_byte(p[1])
    /\ UNCHANGED strays

\* IRQ 12 brings the second or the third.
NextByte ==
    /\ sending \in {1, 2}
    /\ sending' = (sending + 1) % 3
    /\ UNCHANGED packet
    /\ process_packet_byte(packet[sending + 1])
    /\ UNCHANGED strays

\* IRQ 12 was pending when interrupts were enabled: the handler reads the
\* acknowledgment of init's last command again.
StrayAck ==
    /\ strays < MaxStrays /\ packet = <<>>
    /\ strays' = strays + 1
    /\ UNCHANGED <<packet, sending>>
    /\ process_packet_byte(Ack)

MouseNext == (\E p \in Packets : FirstByte(p)) \/ NextByte \/ StrayAck

(***************************************************************************)
(* A byte that is sent is delivered, and again and again the mouse reports *)
(* that it is at rest (the user lets go of it).                            *)
(***************************************************************************)
MouseFairness == WF_mouseVars(NextByte) /\ SF_mouseVars(FirstByte(Rest))

MouseSpec == MouseInit /\ [][MouseNext]_mouseVars /\ MouseFairness

-----------------------------------------------------------------------------
(* Properties.                                                              *)

\* Until a stray byte comes the driver implements Pointer (PointerSpec, whose
\* initial condition MouseInit has as a conjunct): the atomics take the reports
\* of the mouse, each whole, and nothing else.
ReportsWhole == [][strays = 0 /\ strays' = 0 => Report]_pointerVars

\* After stray bytes the assembly finds the boundary between reports again and
\* keeps it: the motion bytes of a mouse at rest cannot start a report.
Resyncs == <>[](MOUSE_CYCLE = sending /\ whole)
=============================================================================
