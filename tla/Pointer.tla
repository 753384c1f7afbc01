------------------------------- MODULE Pointer -------------------------------
(***************************************************************************)
(* What mouse.rs promises the rest of the kernel: the atomics MOUSE_X,     *)
(* MOUSE_Y and MOUSE_BTN take one whole report of the mouse at a time.     *)
(* Module Mouse assembles the reports from bytes and implements this.      *)
(***************************************************************************)
EXTENDS Integers

CONSTANTS Packets,         \* the reports of the mouse, triples of bytes
          StartX, StartY,
          Half             \* 2^31: the atomics are two's complement and wrap

ASSUME PointerAssumption == /\ Packets \subseteq (0 .. 255) \X (0 .. 255) \X (0 .. 255)
                            /\ Half \in Nat \ {0}
                            /\ {StartX, StartY} \subseteq -Half .. Half - 1

VARIABLES MOUSE_X, MOUSE_Y, MOUSE_BTN

pointerVars == <<MOUSE_X, MOUSE_Y, MOUSE_BTN>>

PointerInit == MOUSE_X = StartX /\ MOUSE_Y = StartY /\ MOUSE_BTN = 0

Bit(byte, n) == (byte \div 2^n) % 2 = 1

\* fetch_add wraps.
Wrap(v) == ((v + Half) % (2 * Half)) - Half

\* A motion byte, extended by its sign bit in the first byte (dx |= !0xFF).
Motion(state, byte, signBit) == IF Bit(state, signBit) THEN byte - 256 ELSE byte

\* The mouse's Y axis goes up, the screen's goes down.
Decode(p) ==
    /\ MOUSE_X' = Wrap(MOUSE_X + Motion(p[1], p[2], 4))
    /\ MOUSE_Y' = Wrap(MOUSE_Y - Motion(p[1], p[3], 5))
    /\ MOUSE_BTN' = p[1] % 4

Report == \E p \in Packets : Decode(p)

PointerSpec == PointerInit /\ [][Report]_pointerVars
=============================================================================
