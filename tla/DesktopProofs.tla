--------------------------- MODULE DesktopProofs ---------------------------
(***************************************************************************)
(* Proofs about the mouse driver and the window manager, for every screen, *)
(* window and mouse that the assumptions allow and any number of reports   *)
(* in a turn.                                                              *)
(*                                                                         *)
(* The window manager: its three invariants are inductive together once    *)
(* Clamped says how far each coordinate has been pulled back at each step  *)
(* of a turn.  No fact about the atomics is needed but that they hold      *)
(* integers: the turn works on its own copies.                             *)
(*                                                                         *)
(* The driver: InStep says that, until a stray byte comes, the bytes       *)
(* collected are the bytes the mouse has sent of its report.               *)
(***************************************************************************)
EXTENDS Desktop, Mouse, TLAPS

\* Decoding a report leaves integers in the two position atomics and the two
\* button bits in the third, whatever the overflow of fetch_add does.
LEMMA DecodeType ==
    ASSUME MOUSE_X \in Int, MOUSE_Y \in Int, NEW p \in Packets, Decode(p)
    PROVE  MOUSE_X' \in Int /\ MOUSE_Y' \in Int /\ MOUSE_BTN' \in 0 .. 3
<1>1. p[1] \in 0 .. 255 /\ p[2] \in 0 .. 255 /\ p[3] \in 0 .. 255
  BY PointerAssumption
<1>2. Motion(p[1], p[2], 4) \in Int /\ Motion(p[1], p[3], 5) \in Int
  BY <1>1 DEF Motion
<1>3. \A v \in Int : Wrap(v) \in Int
  BY PointerAssumption DEF Wrap
<1>4. MOUSE_X' \in Int /\ MOUSE_Y' \in Int
  BY <1>2, <1>3 DEF Decode
<1>5. QED
  BY <1>1, <1>4 DEF Decode

-----------------------------------------------------------------------------
(* The window manager.                                                      *)

\* The states of one turn.
Steps == {"x", "y", "btn", "lowX", "lowY", "highX", "highY", "window", "hlt", "ring3"}

LoopTypeOK ==
    /\ MOUSE_X \in Int /\ MOUSE_Y \in Int /\ MOUSE_BTN \in 0 .. 3
    /\ pc \in Steps
    /\ mx \in Int /\ my \in Int /\ mbtn \in 0 .. 3 /\ old_mbtn \in 0 .. 3
    /\ win \in [x : Int, y : Int, is_open : BOOLEAN]
    /\ is_dragging \in BOOLEAN /\ drag_offset_x \in Int /\ drag_offset_y \in Int
    /\ reports \in Nat

\* How far the locals have been pulled back onto the screen.
Clamped ==
    /\ pc \in {"lowY", "highX", "highY", "window", "hlt", "ring3"} => mx >= 0
    /\ pc \in {"highX", "highY", "window", "hlt", "ring3"} => my >= 0
    /\ pc \in {"highY", "window", "hlt", "ring3"} => mx < ScreenW
    /\ pc \in {"window", "hlt", "ring3"} => my < ScreenH

LoopInv == LoopTypeOK /\ Clamped /\ WindowOnDesktop /\ DragHolds

\* The sizes are numbers, and the window fits under the bar.
LEMMA Sizes ==
    /\ ScreenW \in Nat /\ ScreenH \in Nat /\ Margin \in Nat /\ BarH \in Nat
    /\ TitleH \in Nat /\ WinW \in Nat /\ WinH \in Nat
    /\ StartX \in Int /\ StartY \in Int /\ WinX \in Int /\ WinY \in Int
    /\ WinX >= 0 /\ WinX <= ScreenW - WinW /\ WinY >= BarH /\ WinY <= ScreenH - WinH
    /\ 1 <= Margin /\ Margin <= ScreenW /\ Margin <= ScreenH
  BY DesktopAssumption, PointerAssumption

\* A dragged window goes where it is drawn or stops at an edge.
LEMMA DragToRange ==
    ASSUME NEW v \in Int, NEW lo \in Int, NEW hi \in Int, lo <= hi
    PROVE  /\ DragTo(v, lo, hi) \in lo .. hi
           /\ DragTo(v, lo, hi) = v \/ DragTo(v, lo, hi) \in {lo, hi}
  BY DEF DragTo

\* The main loop keeps its locals, the window and the drag as they should be,
\* whatever reports the mouse interrupt delivers between its steps.
THEOREM LoopCorrect == Spec => []LoopInv
<1> USE Sizes
<1>1. ASSUME Init PROVE LoopInv
  <2> USE <1>1 DEF Init, PointerInit
  <2>1. LoopTypeOK
    <3>1. win \in [x : Int, y : Int, is_open : BOOLEAN]
      OBVIOUS
    <3>2. MOUSE_X \in Int /\ MOUSE_Y \in Int /\ MOUSE_BTN \in 0 .. 3 /\ pc \in Steps
      BY DEF Steps
    <3>3. /\ mx \in Int /\ my \in Int /\ mbtn \in 0 .. 3 /\ old_mbtn \in 0 .. 3
          /\ drag_offset_x \in Int /\ drag_offset_y \in Int /\ reports \in Nat
      OBVIOUS
    <3>4. is_dragging \in BOOLEAN
      OBVIOUS
    <3>5. QED
      BY <3>1, <3>2, <3>3, <3>4, Zenon DEF LoopTypeOK
  <2>2. Clamped
    BY DEF Clamped
  <2>3. WindowOnDesktop
    BY DEF WindowOnDesktop
  <2>4. DragHolds
    BY DEF DragHolds
  <2>5. QED
    BY <2>1, <2>2, <2>3, <2>4 DEF LoopInv
<1>2. ASSUME LoopInv, [Next]_vars PROVE LoopInv'
  <2> USE <1>2 DEF LoopInv, LoopTypeOK, Steps
  <2>Loads. CASE LoadX \/ LoadY \/ LoadBtn
    BY <2>Loads DEF LoadX, LoadY, LoadBtn, pointerVars, winVars, Clamped,
       WindowOnDesktop, DragHolds
  <2>Lows. CASE LowX \/ LowY
    BY <2>Lows DEF LowX, LowY, Low, winVars, Clamped, WindowOnDesktop, DragHolds
  <2>Highs. CASE HighX \/ HighY
    BY <2>Highs DEF HighX, HighY, High, winVars, Clamped, WindowOnDesktop, DragHolds
  <2>CloseWindow. CASE CloseWindow
    BY <2>CloseWindow DEF CloseWindow, EndTurn, pointerVars, Clamped, WindowOnDesktop,
       DragHolds
  <2>DropToRing3. CASE DropToRing3
    BY <2>DropToRing3 DEF DropToRing3, pointerVars, winVars, Clamped, WindowOnDesktop,
       DragHolds
  <2>StartDrag. CASE StartDrag
    <3>1. mx - win.x \in 0 .. WinW /\ my - win.y \in 0 .. TitleH
      BY <2>StartDrag DEF StartDrag, OnTitle, In
    <3>2. QED
      BY <2>StartDrag, <3>1 DEF StartDrag, EndTurn, left_click, pointerVars, Clamped,
         WindowOnDesktop, DragHolds
  <2>Drag. CASE Drag
    <3>2. mx - drag_offset_x \in Int /\ my - drag_offset_y \in Int
      OBVIOUS
    <3> DEFINE nx == DragTo(mx - drag_offset_x, 0, ScreenW - WinW)
               ny == DragTo(my - drag_offset_y, BarH, ScreenH - WinH)
    <3>3. /\ nx \in 0 .. ScreenW - WinW
          /\ nx = mx - drag_offset_x \/ nx \in {0, ScreenW - WinW}
      <4>1. ScreenW - WinW \in Int /\ 0 <= ScreenW - WinW
        OBVIOUS
      <4>2. ASSUME NEW v \in Int, NEW hi \in Int, 0 <= hi
            PROVE  DragTo(v, 0, hi) \in 0 .. hi /\ DragTo(v, 0, hi) \in {v, 0, hi}
        BY <4>2 DEF DragTo
      <4>3. QED
        BY <3>2, <4>1, <4>2
    <3>4. /\ ny \in BarH .. ScreenH - WinH
          /\ ny = my - drag_offset_y \/ ny \in {BarH, ScreenH - WinH}
      <4>1. BarH \in Int /\ ScreenH - WinH \in Int /\ BarH <= ScreenH - WinH
        OBVIOUS
      <4>2. QED
        BY <3>2, <4>1, DragToRange
    <3>5. win'.x = nx /\ win'.y = ny /\ win'.is_open
      BY <2>Drag DEF Drag
    <3>6. win' \in [x : Int, y : Int, is_open : BOOLEAN]
      <4>1. nx \in Int /\ ny \in Int /\ win' = [win EXCEPT !.x = nx, !.y = ny]
        BY <2>Drag, <3>3, <3>4 DEF Drag
      <4> HIDE DEF nx, ny
      <4>2. QED
        BY <4>1
    <3> HIDE DEF nx, ny
    <3>7. QED
      BY <2>Drag, <3>3, <3>4, <3>5, <3>6 DEF Drag, EndTurn, left_click, pointerVars,
         Clamped, WindowOnDesktop, DragHolds
  <2>HoldElsewhere. CASE HoldElsewhere
    BY <2>HoldElsewhere DEF HoldElsewhere, EndTurn, pointerVars, Clamped, WindowOnDesktop,
       DragHolds
  <2>Release. CASE Release
    BY <2>Release DEF Release, EndTurn, pointerVars, Clamped, WindowOnDesktop, DragHolds
  <2>NoWindow. CASE NoWindow
    BY <2>NoWindow DEF NoWindow, EndTurn, pointerVars, Clamped, WindowOnDesktop, DragHolds
  <2>Wake. CASE Wake
    BY <2>Wake DEF Wake, pointerVars, winVars, Clamped, WindowOnDesktop, DragHolds
  <2>MouseReport. CASE MouseReport
    <3>1. MOUSE_X' \in Int /\ MOUSE_Y' \in Int /\ MOUSE_BTN' \in 0 .. 3
      BY <2>MouseReport, DecodeType DEF MouseReport, Report
    <3>2. QED
      BY <2>MouseReport, <3>1 DEF MouseReport, loopVars, winVars, Clamped,
         WindowOnDesktop, DragHolds
  <2>Stutter. CASE UNCHANGED vars
    BY <2>Stutter DEF vars, loopVars, winVars, pointerVars, Clamped, WindowOnDesktop,
       DragHolds
  <2>9. QED
    BY <2>Loads, <2>Lows, <2>Highs, <2>CloseWindow, <2>DropToRing3, <2>StartDrag,
       <2>Drag, <2>HoldElsewhere, <2>Release, <2>NoWindow, <2>Wake, <2>MouseReport, <2>Stutter DEF Next, turn
<1>3. QED
  BY <1>1, <1>2, PTL DEF Spec

\* The cursor the main loop draws is always on the screen.
THEOREM CursorStaysOn == Spec => []CursorOnScreen
<1>1. LoopInv => CursorOnScreen
  BY Sizes DEF LoopInv, LoopTypeOK, Clamped, CursorOnScreen
<1>2. QED
  BY <1>1, LoopCorrect, PTL

\* Dragging never takes the window off the desktop or over the top bar.
THEOREM WindowStaysOn == Spec => []WindowOnDesktop
  BY LoopCorrect, PTL DEF LoopInv

\* A drag holds the open window by its title bar, with the button down, and keeps
\* the grabbed point under the cursor away from the edges.
THEOREM DragsHold == Spec => []DragHolds
  BY LoopCorrect, PTL DEF LoopInv

-----------------------------------------------------------------------------
(* The driver.                                                              *)

\* The driver has collected what the mouse has sent of its report.
InStep ==
    /\ sending \in 0 .. 2 /\ strays \in Nat
    /\ sending # 0 => packet \in Packets
    /\ strays = 0 => MOUSE_PACKET = CASE sending = 0 -> <<>>
                                      [] sending = 1 -> <<packet[1]>>
                                      [] OTHER -> <<packet[1], packet[2]>>

\* Until a stray byte comes, three bytes in a row are decoded as one report exactly
\* when they are one.
LEMMA StepsWhole ==
    ASSUME InStep, [MouseNext]_mouseVars
    PROVE  InStep' /\ (strays = 0 /\ strays' = 0 => Report \/ UNCHANGED pointerVars)
<1> USE DEF InStep, MOUSE_CYCLE
<1>First. ASSUME NEW p \in Packets, FirstByte(p)
          PROVE  InStep' /\ (strays = 0 /\ strays' = 0 => UNCHANGED pointerVars)
  <2>1. packet' = p /\ sending = 0 /\ sending' = 1 /\ strays' = strays
    BY <1>First DEF FirstByte
  <2>2. CASE strays = 0
    <3>1. MOUSE_PACKET = <<>>
      BY <2>1, <2>2
    <3>2. MOUSE_PACKET' = <<p[1]>> /\ UNCHANGED pointerVars
      BY <1>First, <3>1, MouseAssumption DEF FirstByte, process_packet_byte
    <3>3. QED
      BY <2>1, <3>2
  <2>3. QED
    BY <2>1, <2>2
<1>Next. CASE NextByte
  <2>1. /\ sending \in {1, 2} /\ sending' = (IF sending = 1 THEN 2 ELSE 0)
        /\ packet' = packet /\ packet \in Packets /\ strays' = strays
    BY <1>Next DEF NextByte
  <2>2. CASE strays = 0 /\ sending = 1
    <3>1. MOUSE_PACKET = <<packet[1]>>
      BY <2>1, <2>2
    <3>2. MOUSE_PACKET' = <<packet[1], packet[2]>> /\ UNCHANGED pointerVars
      BY <1>Next, <2>2, <3>1 DEF NextByte, process_packet_byte
    <3>3. QED
      BY <2>1, <2>2, <3>2
  <2>3. CASE strays = 0 /\ sending = 2
    <3>1. MOUSE_PACKET = <<packet[1], packet[2]>>
      BY <2>1, <2>3
    <3>2. packet = <<packet[1], packet[2], packet[3]>>
      BY <2>1, PointerAssumption
    <3>3. Append(MOUSE_PACKET, packet[3]) = packet /\ Len(MOUSE_PACKET) = 2
      BY <3>1, <3>2
    <3>4. process_packet_byte(packet[3])
      BY <1>Next, <2>3 DEF NextByte
    <3>5. MOUSE_PACKET' = <<>> /\ Decode(packet)
      BY <3>3, <3>4 DEF process_packet_byte
    <3>6. QED
      BY <2>1, <2>3, <3>5 DEF Report
  <2>4. QED
    BY <2>1, <2>2, <2>3
<1>Stray. CASE StrayAck
  BY <1>Stray DEF StrayAck
<1>Stutter. CASE UNCHANGED mouseVars
  BY <1>Stutter DEF mouseVars, pointerVars
<1>5. QED
  BY <1>First, <1>Next, <1>Stray, <1>Stutter DEF MouseNext

\* The driver's byte counter is in step with the mouse whenever no byte strayed.
LEMMA AlwaysInStep == MouseSpec => []InStep
<1>1. MouseInit => InStep
  BY DEF MouseInit, InStep
<1>2. QED
  BY <1>1, StepsWhole, PTL DEF MouseSpec

\* Until a stray byte comes, the atomics change only by a whole report of the mouse.
THEOREM WholeReports == MouseSpec => ReportsWhole
<1>1. InStep /\ [MouseNext]_mouseVars
        => [strays = 0 /\ strays' = 0 => Report]_pointerVars
  BY StepsWhole
<1>2. QED
  BY <1>1, AlwaysInStep, PTL DEF MouseSpec, ReportsWhole

\* Without stray bytes the byte-by-byte driver implements the pointer that module
\* Desktop is built on.
THEOREM RefinesPointer == ASSUME MaxStrays = 0 PROVE MouseSpec => PointerSpec
<1> DEFINE Calm == InStep /\ strays = 0
<1>1. MouseInit => PointerInit /\ Calm
  BY DEF MouseInit, InStep
<1>2. Calm /\ [MouseNext]_mouseVars => Calm' /\ [Report]_pointerVars
  <2> SUFFICES ASSUME Calm, [MouseNext]_mouseVars PROVE Calm' /\ [Report]_pointerVars
    OBVIOUS
  <2>1. strays' = 0
    BY DEF MouseNext, FirstByte, NextByte, StrayAck, mouseVars
  <2>2. QED
    BY <2>1, StepsWhole
<1> HIDE DEF Calm
<1>3. QED
  BY <1>1, <1>2, PTL DEF MouseSpec, PointerSpec
=============================================================================
