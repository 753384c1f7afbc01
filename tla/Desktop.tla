------------------------------ MODULE Desktop ------------------------------
(***************************************************************************)
(* The kernel's main loop (main.rs) as a window manager: each turn it      *)
(* reads the mouse atomics one after the other, pulls the position back    *)
(* onto the screen, and closes, drags or leaves the one window; the ring-3 *)
(* button leaves the loop for good.  The mouse interrupt delivers its       *)
(* reports (module Pointer) anywhere, also between a read and the store that depends on it.         *)
(***************************************************************************)
EXTENDS Pointer

CONSTANTS ScreenW, ScreenH,
          Margin,                    \* 10: where a position off the far edge is put
          BarH, TitleH,              \* 40 and 24: the top bar, the window's title bar
          WinX, WinY, WinW, WinH,    \* 100, 200, 600, 300: the window at the start
          CloseLeft, CloseTop, CloseSize,        \* 20, 4, 16: the close button
          DropLeft, DropTop, DropW, DropH,       \* 20, 240, 380, 24: the ring-3 button
          MaxReports                 \* bound: mouse reports during one turn

ASSUME DesktopAssumption ==
    /\ {ScreenW, ScreenH, Margin, BarH, TitleH, WinW, WinH} \subseteq Nat
    /\ WinX \in 0 .. ScreenW - WinW /\ WinY \in BarH .. ScreenH - WinH
    /\ 1 <= Margin /\ Margin <= ScreenW /\ Margin <= ScreenH

VARIABLES pc,                \* the next step of the turn
          mx, my, mbtn,      \* the turn's locals; 0 where none is alive
          old_mbtn,          \* the buttons of the turn before
          win,               \* desktop_win: x, y and is_open
          is_dragging, drag_offset_x, drag_offset_y,
          reports            \* mouse reports since the turn began

winVars == <<old_mbtn, win, is_dragging, drag_offset_x, drag_offset_y>>
loopVars == <<pc, mx, my, mbtn, winVars>>
vars == <<pointerVars, loopVars, reports>>

Init ==
    /\ PointerInit
    /\ pc = "x" /\ mx = 0 /\ my = 0 /\ mbtn = 0
    /\ old_mbtn = 0
    /\ win = [x |-> WinX, y |-> WinY, is_open |-> TRUE]
    /\ is_dragging = FALSE /\ drag_offset_x = 0 /\ drag_offset_y = 0
    /\ reports = 0

\* Three separate loads.
LoadX == pc = "x" /\ mx' = MOUSE_X /\ pc' = "y" /\ UNCHANGED <<pointerVars, my, mbtn, winVars, reports>>
LoadY == pc = "y" /\ my' = MOUSE_Y /\ pc' = "btn" /\ UNCHANGED <<pointerVars, mx, mbtn, winVars, reports>>
LoadBtn ==
    /\ pc = "btn" /\ mbtn' = MOUSE_BTN
    /\ pc' = "lowX"
    /\ UNCHANGED <<pointerVars, mx, my, winVars, reports>>

Low(v) == IF v < 0 THEN 0 ELSE v

\* Mutant: a position off the far edge is put on the edge.
High_OnEdge(v, size) == IF v >= size THEN size ELSE v

High(v, size) == IF v >= size THEN size - Margin ELSE v

\* A coordinate off the screen is pulled back, in the local and in the atomic: the
\* store overwrites motion that an interrupt added since the load.
LowX ==
    /\ pc = "lowX" /\ pc' = "lowY"
    /\ mx' = Low(mx)
    /\ MOUSE_X' = IF mx < 0 THEN 0 ELSE MOUSE_X
    /\ UNCHANGED <<MOUSE_Y, MOUSE_BTN, my, mbtn, winVars, reports>>
LowY ==
    /\ pc = "lowY" /\ pc' = "highX"
    /\ my' = Low(my)
    /\ MOUSE_Y' = IF my < 0 THEN 0 ELSE MOUSE_Y
    /\ UNCHANGED <<MOUSE_X, MOUSE_BTN, mx, mbtn, winVars, reports>>
HighX ==
    /\ pc = "highX" /\ pc' = "highY"
    /\ mx' = High(mx, ScreenW)
    /\ MOUSE_X' = IF mx >= ScreenW THEN mx' ELSE MOUSE_X
    /\ UNCHANGED <<MOUSE_Y, MOUSE_BTN, my, mbtn, winVars, reports>>
HighY ==
    /\ pc = "highY" /\ pc' = "window"
    /\ my' = High(my, ScreenH)
    /\ MOUSE_Y' = IF my >= ScreenH THEN my' ELSE MOUSE_Y
    /\ UNCHANGED <<MOUSE_X, MOUSE_BTN, mx, mbtn, winVars, reports>>

left_click == mbtn % 2 = 1
click_just_pressed == left_click /\ old_mbtn % 2 = 0

In(v, lo, len) == lo <= v /\ v <= lo + len
OnClose == /\ In(mx, win.x + WinW - CloseLeft, CloseSize)
           /\ In(my, win.y + CloseTop, CloseSize)
OnDrop == In(mx, win.x + DropLeft, DropW) /\ In(my, win.y + DropTop, DropH)
OnTitle == In(mx, win.x, WinW) /\ In(my, win.y, TitleH)

\* The end of a turn: draw, remember the buttons, halt.
EndTurn == old_mbtn' = mbtn /\ pc' = "hlt" /\ UNCHANGED <<pointerVars, mx, my, mbtn, reports>>

CloseWindow ==
    /\ pc = "window" /\ win.is_open /\ click_just_pressed /\ OnClose
    /\ win' = [win EXCEPT !.is_open = FALSE]
    /\ is_dragging' = FALSE
    /\ UNCHANGED <<drag_offset_x, drag_offset_y>>
    /\ EndTurn

\* The drop to ring 3 does not come back.
DropToRing3 ==
    /\ pc = "window" /\ win.is_open /\ click_just_pressed /\ ~OnClose /\ OnDrop
    /\ pc' = "ring3"
    /\ UNCHANGED <<pointerVars, mx, my, mbtn, winVars, reports>>

NoButton == ~(click_just_pressed /\ (OnClose \/ OnDrop))

\* Mutant: the grabbed point is not recorded.
StartDrag_StaleOffset ==
    /\ pc = "window" /\ win.is_open /\ NoButton /\ left_click /\ ~is_dragging /\ OnTitle
    /\ is_dragging' = TRUE
    /\ UNCHANGED <<win, drag_offset_x, drag_offset_y>>
    /\ EndTurn

StartDrag ==
    /\ pc = "window" /\ win.is_open /\ NoButton /\ left_click /\ ~is_dragging /\ OnTitle
    /\ is_dragging' = TRUE
    /\ drag_offset_x' = mx - win.x
    /\ drag_offset_y' = my - win.y
    /\ UNCHANGED win
    /\ EndTurn

\* Mutant: the far edge is tested before the near one, so the near one wins.
DragTo_NoFarEdge(v, lo, hi) == IF v < lo THEN lo ELSE v

\* The window's place on one axis: not before lo, and not past hi.
DragTo(v, lo, hi) == LET w == IF v < lo THEN lo ELSE v
                     IN  IF w > hi THEN hi ELSE w

Drag ==
    /\ pc = "window" /\ win.is_open /\ NoButton /\ left_click /\ is_dragging
    /\ win' = [win EXCEPT !.x = DragTo(mx - drag_offset_x, 0, ScreenW - WinW),
                          !.y = DragTo(my - drag_offset_y, BarH, ScreenH - WinH)]
    /\ UNCHANGED <<is_dragging, drag_offset_x, drag_offset_y>>
    /\ EndTurn

\* A held button off the title bar, with nothing being dragged.
HoldElsewhere ==
    /\ pc = "window" /\ win.is_open /\ NoButton /\ left_click /\ ~is_dragging /\ ~OnTitle
    /\ UNCHANGED <<win, is_dragging, drag_offset_x, drag_offset_y>>
    /\ EndTurn

\* Mutant: releasing the button does not end the drag.
Release_KeepsDrag ==
    /\ pc = "window" /\ win.is_open /\ ~left_click
    /\ UNCHANGED <<win, is_dragging, drag_offset_x, drag_offset_y>>
    /\ EndTurn

Release ==
    /\ pc = "window" /\ win.is_open /\ ~left_click
    /\ is_dragging' = FALSE
    /\ UNCHANGED <<win, drag_offset_x, drag_offset_y>>
    /\ EndTurn

NoWindow ==
    /\ pc = "window" /\ ~win.is_open
    /\ UNCHANGED <<win, is_dragging, drag_offset_x, drag_offset_y>>
    /\ EndTurn

\* An interrupt ends hlt; the next turn has locals of its own.
Wake ==
    /\ pc = "hlt" /\ pc' = "x"
    /\ mx' = 0 /\ my' = 0 /\ mbtn' = 0
    /\ reports' = 0
    /\ UNCHANGED <<pointerVars, winVars>>

turn == LoadX \/ LoadY \/ LoadBtn \/ LowX \/ LowY \/ HighX \/ HighY \/ CloseWindow
          \/ DropToRing3 \/ StartDrag \/ Drag \/ HoldElsewhere \/ Release \/ NoWindow

\* The mouse interrupt.
MouseReport ==
    /\ reports < MaxReports
    /\ Report
    /\ reports' = reports + 1
    /\ UNCHANGED loopVars

Next == turn \/ Wake \/ MouseReport

(***************************************************************************)
(* The CPU runs, and interrupts go on arriving, which wakes the loop: the  *)
(* mouse reports several times for every turn the user can see.            *)
(***************************************************************************)
Fairness == WF_vars(turn) /\ WF_vars(Wake)

Spec == Init /\ [][Next]_vars
FairSpec == Spec /\ Fairness

-----------------------------------------------------------------------------
(* Properties.                                                              *)

\* The cursor the loop draws is on the screen, whatever interrupts add to the
\* atomics between its loads and stores.
CursorOnScreen ==
    pc \in {"window", "hlt", "ring3"} => mx \in 0 .. ScreenW - 1 /\ my \in 0 .. ScreenH - 1

\* The window never leaves the desktop or covers the top bar.
WindowOnDesktop == win.x \in 0 .. ScreenW - WinW /\ win.y \in BarH .. ScreenH - WinH

\* A drag exists only while the window is open and the button is held, and it
\* holds the window by its title bar; the point that was grabbed stays under the
\* cursor unless the window is at an edge.
DragHolds ==
    is_dragging =>
        /\ win.is_open /\ old_mbtn % 2 = 1
        /\ drag_offset_x \in 0 .. WinW /\ drag_offset_y \in 0 .. TitleH
        /\ pc = "hlt" =>
              /\ win.x + drag_offset_x = mx \/ win.x \in {0, ScreenW - WinW}
              /\ win.y + drag_offset_y = my \/ win.y \in {BarH, ScreenH - WinH}

\* If the button is released for good, the drag ends.
DragEnds == <>[](MOUSE_BTN % 2 = 0) => <>[](~is_dragging)

=============================================================================
