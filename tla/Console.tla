------------------------------ MODULE Console ------------------------------
(***************************************************************************)
(* The terminal (compositor.rs, terminal_print), the heap behind its spin  *)
(* lock (allocator.rs) and the keyboard interrupt (interrupts.rs) that     *)
(* uses both on top of the main loop.                                      *)
(*                                                                         *)
(* The kernel is one thread: _start, then the main loop.  Its work is a    *)
(* script of heap operations and prints.  A handler runs to its end with   *)
(* interrupts off, at any point between two memory accesses of the thread; *)
(* TERM_X and TERM_Y are plain statics, so `TERM_Y += 30` is a load and a  *)
(* store.  A handler that finds the heap locked spins, and the thread that *)
(* holds the lock never runs again.                                        *)
(*                                                                         *)
(* The heap is counted in allocations; fragmentation is left out.          *)
(***************************************************************************)
EXTENDS Naturals, Sequences, FiniteSets

CONSTANTS Width, Height,   \* the terminal's canvas, in pixels
          HeapUnits        \* allocations the heap has room for

Left == 20                 \* where a line starts, and the first line
Cell == 30                 \* a character's width with its gap, and a line's height
MaxHeld == 3               \* the most temporary strings and frames alive at a time

ASSUME ConsoleAssumption == /\ Width \in Nat /\ Width >= Left + 40
                            /\ Height \in Nat /\ Height >= Left + Cell
                            /\ HeapUnits \in Nat /\ HeapUnits > MaxHeld

VARIABLES
    card,              \* a network card was found
    ready,             \* SERVER.terminal_layer is Some
    TERM_X, TERM_Y,
    script,            \* the thread's remaining operations; empty: it halts
    text,              \* the rest of the text it is printing
    step, reg,         \* where it is in a character, and the value it has loaded
    lock,              \* the heap's lock is held by the thread
    free, leaked,      \* allocations left, and given to Box::leak
    cpu                \* thread, or: spinning or dead in a handler, or panicked

printVars == <<TERM_X, TERM_Y, text, step, reg>>
heapVars == <<lock, free, leaked>>
vars == <<card, ready, printVars, script, heapVars, cpu>>

\* Every message ends its line.
Message == <<"c", "newline">>

-----------------------------------------------------------------------------
(* The thread's scripts: take and give are temporary strings and frames,    *)
(* leak is a frame for the card.                                            *)

\* compositor::init, the boot messages and the ARP request to the router.
Boot == <<"canvas", "print">> \o IF card THEN <<"leak", "print">> ELSE <<>>

\* poll(): nothing; a frame for nobody; an ARP request; a SYN; a GET.
Polls == IF ~card THEN {<<>>}
         ELSE {<<>>,
               <<"take", "print", "give">>,
               <<"take", "print", "take", "print", "print", "leak", "give", "give">>,
               <<"take", "print", "take", "print", "give",
                 "take", "leak", "print", "give", "give">>,
               <<"take", "print", "print", "take", "take", "leak", "print",
                 "give", "give", "give">>}

\* The window's three texts, while it is open.
Draws == {<<>>, <<"take", "take", "take", "give", "give", "give">>}

Turns == {p \o d : p \in Polls, d \in Draws}

Init ==
    /\ card \in BOOLEAN /\ ready = FALSE
    /\ TERM_X = Left /\ TERM_Y = Left
    /\ script = Boot /\ text = <<>> /\ step = "begin" /\ reg = 0
    /\ lock = FALSE /\ free = HeapUnits /\ leaked = 0
    /\ cpu = "thread"

\* An interrupt ends hlt and the loop makes a turn.
Wake ==
    /\ cpu = "thread" /\ script = <<>>
    /\ script' \in Turns
    /\ UNCHANGED <<card, ready, printVars, heapVars, cpu>>

-----------------------------------------------------------------------------
(* The heap.                                                                *)

InHeap == script # <<>> /\ Head(script) \in {"canvas", "take", "leak", "give"}

Lock ==
    /\ cpu = "thread" /\ InHeap /\ ~lock
    /\ lock' = TRUE
    /\ UNCHANGED <<card, ready, printVars, script, free, leaked, cpu>>

\* Mutant: a string is not given back.
Unlock_Forgets ==
    /\ cpu = "thread" /\ InHeap /\ lock
    /\ Head(script) = "give" \/ free > 0
    /\ free' = CASE Head(script) \in {"take", "leak"} -> free - 1
                 [] OTHER -> free
    /\ leaked' = IF Head(script) = "leak" THEN leaked + 1 ELSE leaked
    /\ ready' = (ready \/ Head(script) = "canvas")
    /\ script' = Tail(script)
    /\ lock' = FALSE
    /\ UNCHANGED <<card, printVars, cpu>>

\* The operation is done and the lock free again.  The canvas is allocated once
\* and is not counted.
Unlock ==
    /\ cpu = "thread" /\ InHeap /\ lock
    /\ Head(script) = "give" \/ free > 0
    /\ free' = CASE Head(script) \in {"take", "leak"} -> free - 1
                 [] Head(script) = "give" -> free + 1
                 [] OTHER -> free
    /\ leaked' = IF Head(script) = "leak" THEN leaked + 1 ELSE leaked
    /\ ready' = (ready \/ Head(script) = "canvas")
    /\ script' = Tail(script)
    /\ lock' = FALSE
    /\ UNCHANGED <<card, printVars, cpu>>

\* No room: the lock is released, and the allocation error panics into hlt.
OutOfMemory ==
    /\ cpu = "thread" /\ InHeap /\ lock
    /\ Head(script) # "give" /\ free = 0
    /\ lock' = FALSE /\ cpu' = "panic"
    /\ UNCHANGED <<card, ready, printVars, script, free, leaked>>

-----------------------------------------------------------------------------
(* terminal_print in the thread.                                            *)

At(s) == cpu = "thread" /\ script # <<>> /\ Head(script) = "print" /\ step = s
Goto(s) == step' = s /\ UNCHANGED <<card, ready, script, heapVars, cpu>>
Return == script' = Tail(script) /\ step' = "begin" /\ UNCHANGED <<card, ready, heapVars, cpu>>

\* Without a canvas nothing is printed.
PrintBegin ==
    /\ At("begin")
    /\ IF ready THEN text' = Message /\ Goto("char") ELSE Return /\ UNCHANGED text
    /\ UNCHANGED <<TERM_X, TERM_Y, reg>>

\* After the last character the canvas is blitted.
PrintEnd ==
    /\ At("char") /\ text = <<>>
    /\ Return
    /\ UNCHANGED <<TERM_X, TERM_Y, text, reg>>

\* A newline moves the cursor; any other character is drawn at the cursor first.
PrintChar ==
    /\ At("char") /\ text # <<>>
    /\ text' = Tail(text)
    /\ IF Head(text) = "newline" THEN TERM_X' = Left /\ Goto("y load")
                                 ELSE UNCHANGED TERM_X /\ Goto("x load")
    /\ UNCHANGED <<TERM_Y, reg>>

Load(from, value, to) == At(from) /\ reg' = value /\ Goto(to) /\ UNCHANGED <<TERM_X, TERM_Y, text>>

\* TERM_X += 30 and the test for the end of the line.
LoadX == Load("x load", TERM_X, "x store")

StoreX ==
    /\ At("x store")
    /\ TERM_X' = reg + Cell /\ reg' = 0
    /\ Goto("x test") /\ UNCHANGED <<TERM_Y, text>>

TestX ==
    /\ At("x test")
    /\ IF TERM_X > Width - 40 THEN TERM_X' = Left /\ Goto("y load")
                              ELSE UNCHANGED TERM_X /\ Goto("char")
    /\ UNCHANGED <<TERM_Y, text, reg>>

\* TERM_Y += 30 and the test for the last line.
LoadY == Load("y load", TERM_Y, "y store")

StoreY ==
    /\ At("y store")
    /\ TERM_Y' = reg + Cell /\ reg' = 0
    /\ Goto("y test") /\ UNCHANGED <<TERM_X, text>>

\* Mutant: the bottom is tested with the cursor's own line.
TestY_OffByOne ==
    /\ At("y test")
    /\ Goto(IF TERM_Y > Height THEN "bottom load" ELSE "char")
    /\ UNCHANGED <<TERM_X, TERM_Y, text, reg>>

TestY ==
    /\ At("y test")
    /\ Goto(IF TERM_Y + Cell > Height THEN "bottom load" ELSE "char")
    /\ UNCHANGED <<TERM_X, TERM_Y, text, reg>>

\* scroll_up, and TERM_Y -= 30.
LoadBottom == Load("bottom load", TERM_Y, "bottom store")

StoreBottom ==
    /\ At("bottom store")
    /\ TERM_Y' = reg - Cell /\ reg' = 0
    /\ Goto("char") /\ UNCHANGED <<TERM_X, text>>

terminal_print == PrintBegin \/ PrintEnd \/ PrintChar \/ LoadX \/ StoreX \/ TestX
                    \/ LoadY \/ StoreY \/ TestY \/ LoadBottom \/ StoreBottom

-----------------------------------------------------------------------------
(* The keyboard interrupt: terminal_print without anything in between, on a *)
(* cursor c.                                                                *)

LineFeed(c) == [x |-> Left, y |-> IF c.y + Cell + Cell > Height THEN c.y ELSE c.y + Cell]
Glyph(c) == IF c.x + Cell > Width - 40 THEN LineFeed(c) ELSE [c EXCEPT !.x = @ + Cell]
Banner(c) == LineFeed(Glyph(LineFeed(c)))      \* "\n...\n"

Here == [x |-> TERM_X, y |-> TERM_Y]
MoveTo(c) == IF ready THEN TERM_X' = c.x /\ TERM_Y' = c.y ELSE UNCHANGED <<TERM_X, TERM_Y>>

\* A letter: terminal_print(c).
KeyLetter ==
    /\ cpu \in {"thread", "panic"}
    /\ MoveTo(Glyph(Here))
    /\ UNCHANGED <<card, ready, text, step, reg, script, heapVars, cpu>>

\* Enter: int 0x80 prints a banner and calls udp_broadcast, which allocates the
\* frame, gives it to the card and prints another.
KeyEnter ==
    /\ cpu \in {"thread", "panic"}
    /\ \/ ~card /\ MoveTo(Banner(Here)) /\ UNCHANGED <<heapVars, cpu>>
       \/ card /\ lock /\ cpu' = "spin" /\ MoveTo(Banner(Here)) /\ UNCHANGED heapVars
       \/ /\ card /\ ~lock /\ free = 0
          /\ cpu' = "dead" /\ MoveTo(Banner(Here)) /\ UNCHANGED heapVars
       \/ /\ card /\ ~lock /\ free > 0
          /\ free' = free - 1 /\ leaked' = leaked + 1
          /\ MoveTo(Banner(Banner(Here)))
          /\ UNCHANGED <<lock, cpu>>
    /\ UNCHANGED <<card, ready, text, step, reg, script>>

keyboard_interrupt_handler == KeyLetter \/ KeyEnter

thread == Lock \/ Unlock \/ OutOfMemory \/ terminal_print

Next == Wake \/ thread \/ keyboard_interrupt_handler

\* The thread goes on whenever no handler runs; nobody need press a key.
Spec == Init /\ [][Next]_vars /\ WF_vars(thread)

-----------------------------------------------------------------------------
(* Properties.                                                              *)

\* The steps at which the thread has moved the cursor and not yet looked where
\* it went.
Unsettled == {"x test", "y test", "bottom load", "bottom store"}

\* The cursor is on the canvas whenever the thread draws with it or does not
\* print, however often a key moved it in the middle of a print: neither a lost
\* update nor a double scroll takes it past an edge.
CursorInside ==
    step \notin Unsettled =>
        TERM_X \in Left .. Width - 40 /\ TERM_Y \in Left .. Height - Cell

Deadlocked == cpu = "spin" /\ lock
Exhausted == leaked + MaxHeld >= HeapUnits

\* The main loop comes back to hlt for ever, but for the two ways it can die:
\* Enter pressed during a heap operation, and a heap full of sent frames.
LoopLives == []<>(script = <<>>) \/ <>Deadlocked \/ <>Exhausted
=============================================================================
