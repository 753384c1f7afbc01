--------------------------- MODULE ConsoleProofs ---------------------------
(***************************************************************************)
(* Proofs about the terminal's cursor, for every canvas and however often  *)
(* keys interrupt a print.                                                 *)
(*                                                                         *)
(* Between the step that moves the cursor and the test that pulls it back  *)
(* the cursor may be one cell past an edge, and a handler may print there  *)
(* or between a load and its store.  Confined gives the box the cursor is  *)
(* in at each step, and the range of the value the thread has loaded.  The *)
(* box after `TERM_Y += 30` begins one line lower: that is why a scroll    *)
(* that follows other scrolls still ends on the canvas.                    *)
(***************************************************************************)
EXTENDS Console, Integers, TLAPS

USE ConsoleAssumption DEF Left, Cell

\* The steps between TERM_Y += 30 and the end of the scroll.
Scrolling == {"y test", "bottom load", "bottom store"}

XRange == IF step = "x test" THEN Left .. Width - 10 ELSE Left .. Width - 40
YRange == IF step \in Scrolling THEN Left + Cell .. Height ELSE Left .. Height - Cell

Confined ==
    /\ TERM_X \in XRange /\ TERM_Y \in YRange
    /\ step = "x store" => reg \in Left .. Width - 40
    /\ step = "y store" => reg \in Left .. Height - Cell
    /\ step = "bottom store" => reg \in Left + Cell .. Height

\* A cursor in a box that reaches to the canvas's edges or past them.
Within(c, right, top, bottom) ==
    /\ c.x \in Left .. right /\ c.y \in top .. bottom
    /\ right \in Nat /\ top \in Nat /\ bottom \in Nat
    /\ right >= Width - 40 /\ bottom >= Height - Cell

\* A newline printed by a handler keeps such a box.
LEMMA LineFeedStays ==
    ASSUME NEW c, NEW r, NEW t, NEW b, Within(c, r, t, b)
    PROVE  Within(LineFeed(c), r, t, b)
  BY DEF Within, LineFeed

\* So does any other character: it wraps before the edge.
LEMMA GlyphStays ==
    ASSUME NEW c \in [x : Int, y : Int], NEW r, NEW t, NEW b, Within(c, r, t, b)
    PROVE  Within(Glyph(c), r, t, b) /\ Glyph(c) \in [x : Int, y : Int]
<1>1. LineFeed(c) \in [x : Int, y : Int]
  BY DEF LineFeed
<1>2. CASE c.x + Cell > Width - 40
  BY <1>1, <1>2, LineFeedStays DEF Glyph
<1>3. CASE ~(c.x + Cell > Width - 40)
  <2>1. Glyph(c) = [c EXCEPT !.x = c.x + Cell]
    BY <1>3 DEF Glyph
  <2>2. QED
    BY <1>3, <2>1 DEF Within
<1>4. QED
  BY <1>2, <1>3

\* And so do the banners of Enter.
LEMMA BannerStays ==
    ASSUME NEW c \in [x : Int, y : Int], NEW r, NEW t, NEW b, Within(c, r, t, b)
    PROVE  Within(Banner(c), r, t, b) /\ Banner(c) \in [x : Int, y : Int]
<1>1. ASSUME NEW d \in [x : Int, y : Int] PROVE LineFeed(d) \in [x : Int, y : Int]
  BY DEF LineFeed
<1>2. Within(LineFeed(c), r, t, b) /\ LineFeed(c) \in [x : Int, y : Int]
  BY <1>1, LineFeedStays
<1>3. Within(Glyph(LineFeed(c)), r, t, b) /\ Glyph(LineFeed(c)) \in [x : Int, y : Int]
  BY <1>2, GlyphStays
<1>4. QED
  BY <1>1, <1>3, LineFeedStays DEF Banner

\* Whatever a handler prints, the thread finds the cursor in the same box.
LEMMA HandlerStays ==
    ASSUME Confined, keyboard_interrupt_handler
    PROVE  Confined'
<1>1. PICK r \in Nat, t \in Nat, b \in Nat :
         /\ XRange = Left .. r /\ YRange = t .. b
         /\ r >= Width - 40 /\ b >= Height - Cell
  <2>1. \E r \in Nat : XRange = Left .. r /\ r >= Width - 40
    <3>1. Width - 10 \in Nat /\ Width - 40 \in Nat /\ Width - 10 >= Width - 40
      OBVIOUS
    <3>2. XRange = Left .. Width - 10 \/ XRange = Left .. Width - 40
      BY DEF XRange
    <3>3. QED
      BY <3>1, <3>2
  <2>2. \E t \in Nat, b \in Nat : YRange = t .. b /\ b >= Height - Cell
    <3>1. Height - Cell \in Nat /\ Left + Cell \in Nat
      OBVIOUS
    <3>2. QED
      BY <3>1 DEF YRange
  <2>3. QED
    BY <2>1, <2>2
<1>2. Here \in [x : Int, y : Int] /\ Within(Here, r, t, b)
  <2>1. TERM_X \in Left .. r /\ TERM_Y \in t .. b
    BY <1>1 DEF Confined
  <2>2. QED
    BY <1>1, <2>1 DEF Here, Within
<1>3. ASSUME NEW c, Within(c, r, t, b), MoveTo(c), UNCHANGED <<step, reg>>
      PROVE  Confined'
  <2>1. TERM_X' \in XRange /\ TERM_Y' \in YRange
    BY <1>1, <1>3 DEF MoveTo, Within, Confined
  <2>2. XRange' = XRange /\ YRange' = YRange
    BY <1>3 DEF XRange, YRange, Scrolling
  <2>3. QED
    BY <1>3, <2>1, <2>2 DEF Confined
<1>4. CASE KeyLetter
  BY <1>2, <1>3, <1>4, GlyphStays DEF KeyLetter
<1>5. CASE KeyEnter
  <2>1. Within(Banner(Here), r, t, b) /\ Banner(Here) \in [x : Int, y : Int]
    BY <1>2, BannerStays
  <2>2. Within(Banner(Banner(Here)), r, t, b)
    BY <2>1, BannerStays
  <2>3. UNCHANGED <<step, reg>> /\ (MoveTo(Banner(Here)) \/ MoveTo(Banner(Banner(Here))))
    BY <1>5 DEF KeyEnter
  <2>4. QED
    BY <1>3, <2>1, <2>2, <2>3
<1>6. QED
  BY <1>4, <1>5 DEF keyboard_interrupt_handler

\* At every step of a print, and between prints, the cursor is where that step
\* expects it, whatever handlers print in between.
THEOREM AlwaysConfined == Spec => []Confined
<1>1. Init => Confined
  BY DEF Init, Confined, XRange, YRange, Scrolling
<1>2. ASSUME Confined, [Next]_vars PROVE Confined'
  <2> USE <1>2
  <2>1. ASSUME UNCHANGED <<TERM_X, TERM_Y, step, reg>> PROVE Confined'
    BY <2>1 DEF Confined, XRange, YRange, Scrolling
  <2>2. ASSUME step \notin Scrolling, step' \notin Scrolling
        PROVE  YRange = Left .. Height - Cell /\ YRange' = Left .. Height - Cell
    BY <2>2 DEF YRange
  <2>3. ASSUME step # "x test" PROVE XRange = Left .. Width - 40
    BY <2>3 DEF XRange
  <2>4. ASSUME step' # "x test" PROVE XRange' = Left .. Width - 40
    BY <2>4 DEF XRange
  <2>5. Left \in Left .. Width - 40 /\ Left \in Left .. Height - Cell
    OBVIOUS
  <2> HIDE DEF Left, Cell
  <2>Heap. CASE Wake \/ Lock \/ Unlock \/ OutOfMemory
    BY <2>1, <2>Heap DEF Wake, Lock, Unlock, OutOfMemory, printVars
  <2>Begin. CASE PrintBegin \/ PrintEnd \/ PrintChar
    <3>1. /\ step \in {"begin", "char"} /\ step' \in {"begin", "char", "x load", "y load"}
          /\ TERM_X' \in {Left, TERM_X} /\ TERM_Y' = TERM_Y
      BY <2>Begin DEF PrintBegin, PrintEnd, PrintChar, At, Goto, Return
    <3>2. QED
      BY <2>2, <2>3, <2>4, <2>5, <3>1 DEF Confined, Scrolling
  <2>LoadX. CASE LoadX
    <3>1. /\ step = "x load" /\ step' = "x store" /\ reg' = TERM_X
          /\ UNCHANGED <<TERM_X, TERM_Y>>
      BY <2>LoadX DEF LoadX, Load, At, Goto
    <3>2. QED
      BY <2>2, <2>3, <2>4, <3>1 DEF Confined, Scrolling
  <2>StoreX. CASE StoreX
    <3>0. TERM_X' = reg + Cell
      BY <2>StoreX DEF StoreX
    <3>1. step = "x store" /\ step' = "x test" /\ TERM_Y' = TERM_Y
      BY <2>StoreX DEF StoreX, At, Goto
    <3>2. reg \in Left .. Width - 40
      BY <3>1 DEF Confined
    <3>3. TERM_X' \in Left .. Width - 10
      BY <3>0, <3>2 DEF Left, Cell
    <3>4. XRange' = Left .. Width - 10
      BY <3>1 DEF XRange
    <3>5. QED
      BY <2>2, <3>1, <3>3, <3>4 DEF Confined, Scrolling
  <2>TestX. CASE TestX
    <3>0. TERM_X' = IF TERM_X > Width - 40 THEN Left ELSE TERM_X
      BY <2>TestX DEF TestX
    <3>1. step = "x test" /\ step' \in {"y load", "char"} /\ TERM_Y' = TERM_Y
      BY <2>TestX DEF TestX, At, Goto
    <3>2. TERM_X \in Left .. Width - 10
      BY <3>1 DEF Confined, XRange
    <3>3. TERM_X' \in Left .. Width - 40
      BY <3>0, <3>2 DEF Left
    <3>4. QED
      BY <2>2, <2>4, <3>1, <3>3 DEF Confined, Scrolling
  <2>LoadY. CASE LoadY
    <3>1. /\ step = "y load" /\ step' = "y store" /\ reg' = TERM_Y
          /\ UNCHANGED <<TERM_X, TERM_Y>>
      BY <2>LoadY DEF LoadY, Load, At, Goto
    <3>2. QED
      BY <2>2, <2>3, <2>4, <3>1 DEF Confined, Scrolling
  <2>StoreY. CASE StoreY
    <3>0. TERM_Y' = reg + Cell
      BY <2>StoreY DEF StoreY
    <3>1. step = "y store" /\ step' = "y test" /\ TERM_X' = TERM_X
      BY <2>StoreY DEF StoreY, At, Goto
    <3>2. reg \in Left .. Height - Cell
      BY <3>1 DEF Confined
    <3>3. TERM_Y' \in Left + Cell .. Height
      BY <3>0, <3>2 DEF Left, Cell
    <3>4. YRange' = Left + Cell .. Height
      BY <3>1 DEF YRange, Scrolling
    <3>5. QED
      BY <2>3, <2>4, <3>1, <3>3, <3>4 DEF Confined
  <2>TestY. CASE TestY
    <3>1. /\ step = "y test" /\ UNCHANGED <<TERM_X, TERM_Y>>
          /\ step' = IF TERM_Y + Cell > Height THEN "bottom load" ELSE "char"
      BY <2>TestY DEF TestY, At, Goto
    <3>2. TERM_Y \in Left + Cell .. Height
      BY <3>1 DEF Confined, YRange, Scrolling
    <3>3. TERM_Y' \in YRange'
      <4>1. CASE TERM_Y + Cell > Height
        BY <3>1, <3>2, <4>1 DEF YRange, Scrolling
      <4>2. CASE ~(TERM_Y + Cell > Height)
        <5>1. TERM_Y \in Left .. Height - Cell
          BY <3>2, <4>2 DEF Left, Cell
        <5>2. QED
          BY <3>1, <4>2, <5>1 DEF YRange, Scrolling
      <4>3. QED
        BY <4>1, <4>2
    <3>4. QED
      BY <2>3, <2>4, <3>1, <3>3 DEF Confined
  <2>LoadBottom. CASE LoadBottom
    <3>1. /\ step = "bottom load" /\ step' = "bottom store" /\ reg' = TERM_Y
          /\ UNCHANGED <<TERM_X, TERM_Y>>
      BY <2>LoadBottom DEF LoadBottom, Load, At, Goto
    <3>2. YRange = Left + Cell .. Height /\ YRange' = Left + Cell .. Height
      BY <3>1 DEF YRange, Scrolling
    <3>3. QED
      BY <2>3, <2>4, <3>1, <3>2 DEF Confined
  <2>StoreBottom. CASE StoreBottom
    <3>0. TERM_Y' = reg - Cell
      BY <2>StoreBottom DEF StoreBottom
    <3>1. step = "bottom store" /\ step' = "char" /\ TERM_X' = TERM_X
      BY <2>StoreBottom DEF StoreBottom, At, Goto
    <3>2. reg \in Left + Cell .. Height
      BY <3>1 DEF Confined
    <3>3. TERM_Y' \in Left .. Height - Cell
      BY <3>0, <3>2 DEF Left, Cell
    <3>4. YRange' = Left .. Height - Cell
      BY <3>1 DEF YRange, Scrolling
    <3>5. QED
      BY <2>3, <2>4, <3>1, <3>3, <3>4 DEF Confined
  <2>Handler. CASE keyboard_interrupt_handler
    BY <2>Handler, HandlerStays
  <2>Stutter. CASE UNCHANGED vars
    BY <2>1, <2>Stutter DEF vars, printVars
  <2>13. QED
    BY <2>Heap, <2>Begin, <2>LoadX, <2>StoreX, <2>TestX, <2>LoadY, <2>StoreY, <2>TestY,
       <2>LoadBottom, <2>StoreBottom, <2>Handler, <2>Stutter
       DEF Next, thread, terminal_print
<1>3. QED
  BY <1>1, <1>2, PTL DEF Spec

\* terminal_print draws on the canvas only: no key pressed in the middle of a print,
\* no lost update and no double scroll takes the cursor past an edge.
THEOREM CursorStaysInside == Spec => []CursorInside
<1>1. Confined => CursorInside
  BY DEF Confined, CursorInside, XRange, YRange, Scrolling, Unsettled
<1>2. QED
  BY <1>1, AlwaysConfined, PTL
=============================================================================
