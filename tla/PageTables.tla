----------------------------- MODULE PageTables -----------------------------
(***************************************************************************)
(* The page tables the kernel inherits from the firmware and edits in      *)
(* place: copy_trampoline maps the first 2 MB for the application          *)
(* processors (smp.rs), map_page installs one page (memory.rs, a library   *)
(* function without callers) and unlock_mmu_for_ring3 gives every page to  *)
(* user mode (main.rs).                                                    *)
(*                                                                         *)
(* Each table has two entries, so an address is four bits, and the pages   *)
(* are numbered as the firmware's identity map has them.  The processor    *)
(* fills its TLB from the tables whenever it likes, also between the       *)
(* writes of one operation; it keeps only translations that exist.         *)
(***************************************************************************)
EXTENDS Naturals, Sequences

CONSTANTS Watched,       \* the addresses whose TLB entry is followed
          NewFrames      \* the frames map_page may be given

Idx == {0, 1}
Addrs == Idx \X Idx \X Idx \X Idx
Page(va) == 8 * va[1] + 4 * va[2] + 2 * va[3] + va[4]
Low2MB == {va \in Addrs : Page(va) < 2}
Null == <<0, 0, 0, 0>>

ASSUME PageAssumption == Watched \subseteq Addrs /\ NewFrames \subseteq 0 .. 15

VARIABLES
    mem,          \* the tables: mem[table][index]
    tlb,          \* what the processor has cached for each watched address
    wp,           \* CR0.WP
    ro,           \* the firmware left its tables read-only
    lapic,        \* a local APIC was found: copy_trampoline is called
    image,        \* where the kernel (its code, stacks and heap) is mapped
    op,           \* where the kernel is in an operation; "kernel": in none
    todo,         \* the entries unlock_mmu_for_ring3 has still to visit
    intent        \* history: the page each address is meant to have

pageVars == <<mem, tlb, wp, ro, lapic, image, op, todo, intent>>

None == [page |-> 99, user |-> FALSE]          \* no translation

Absent == [p |-> FALSE, u |-> FALSE, huge |-> FALSE, table |-> "none", page |-> 0]
Points(t) == [Absent EXCEPT !.p = TRUE, !.table = t]
Maps(n, h) == [Absent EXCEPT !.p = TRUE, !.page = n, !.huge = h]

-----------------------------------------------------------------------------
(* What the tables say.                                                     *)

Leaf(e, offset, user) ==
    IF e.p THEN [page |-> e.page + offset, user |-> user /\ e.u] ELSE None

\* walk_page_table: four levels, a huge page may end it at the second or third.
walk_page_table(va) ==
    LET e1 == mem["PML4"][va[1]]
        e2 == mem[e1.table][va[2]]
        e3 == mem[e2.table][va[3]]
        e4 == mem[e3.table][va[4]]
    IN  IF ~e1.p THEN None
        ELSE IF ~e2.p \/ e2.huge THEN Leaf(e2, 2 * va[3] + va[4], e1.u)
        ELSE IF ~e3.p \/ e3.huge THEN Leaf(e3, va[4], e1.u /\ e2.u)
        ELSE Leaf(e4, 0, e1.u /\ e2.u /\ e3.u)

\* The tables a firmware may hand over: an identity map with pages of any size
\* and holes, its second half absent or one big page.
Pair(a, b) == [i \in Idx |-> IF i = 0 THEN a ELSE b]
Empty == Pair(Absent, Absent)
PML4s == {Pair(e, f) : e \in {Absent, Points("PDPT")}, f \in {Absent, Points("HIGH")}}
PDPTs == {Pair(e, Maps(4, TRUE)) : e \in {Absent, Points("PD"), Maps(0, TRUE)}}
PDs == {Pair(e, f) : e \in {Absent, Points("PT0"), Maps(0, TRUE)},
                     f \in {Points("PT1"), Maps(2, TRUE)}}
PT0s == {Pair(e, Maps(1, FALSE)) : e \in {Absent, Maps(0, FALSE)}}
PT1s == {Pair(Maps(2, FALSE), e) : e \in {Absent, Maps(3, FALSE)}}

\* A table nothing points to is empty.
Firmware ==
    LET Used(m, t) == \E s \in {"PML4", "PDPT", "PD"}, i \in Idx : m[s][i] = Points(t)
    IN  {m \in [PML4 : PML4s, PDPT : PDPTs \cup {Empty}, PD : PDs \cup {Empty},
                PT0 : PT0s \cup {Empty}, PT1 : PT1s \cup {Empty},
                HIGH : {Pair(Maps(8, TRUE), Absent)}, SMP_PDPT : {Empty}, SMP_PD : {Empty}] :
           \A t \in {"PDPT", "PD", "PT0", "PT1"} : Used(m, t) <=> m[t] # Empty}

PageInit ==
    /\ mem \in Firmware
    /\ tlb = [va \in Watched |-> None]
    /\ wp = TRUE /\ ro \in BOOLEAN /\ lapic \in BOOLEAN
    /\ image \in Watched \ Low2MB /\ walk_page_table(image) # None
    /\ op = "boot" /\ todo = <<>>
    /\ intent = [va \in Addrs |-> walk_page_table(va).page]

\* The processor caches a translation or drops one.
TlbFill ==
    \E va \in Watched :
        /\ tlb' = [tlb EXCEPT ![va] = walk_page_table(va)]
        /\ UNCHANGED <<mem, wp, ro, lapic, image, op, todo, intent>>
TlbEvict ==
    \E va \in Watched :
        /\ tlb' = [tlb EXCEPT ![va] = None]
        /\ UNCHANGED <<mem, wp, ro, lapic, image, op, todo, intent>>

Flushed == [va \in Watched |-> None]
Goto(from, to) == op = from /\ op' = to

\* The kernel may write to the tables; it gets no further than a write it may not do.
Editable == ~wp \/ ~ro

-----------------------------------------------------------------------------
(* copy_trampoline.                                                         *)

SkipTrampoline ==
    /\ ~lapic /\ Goto("boot", "kernel")
    /\ UNCHANGED <<mem, tlb, wp, ro, lapic, image, todo, intent>>

\* Write protection off; a missing PML4[0] is given the static PDPT.
InjectPdpt ==
    /\ lapic /\ Goto("boot", "pdpt")
    /\ wp' = FALSE
    /\ mem' = IF mem["PML4"][0].p THEN mem ELSE [mem EXCEPT !["PML4"][0] = Points("SMP_PDPT")]
    /\ UNCHANGED <<tlb, ro, lapic, image, todo, intent>>

Pdpt0 == mem[mem["PML4"][0].table][0]

\* A missing PDPT[0] is given the static PD.
InjectPd ==
    /\ Goto("pdpt", "pd") /\ (Editable \/ Pdpt0.p)
    /\ mem' = IF Pdpt0.p THEN mem
                         ELSE [mem EXCEPT ![mem["PML4"][0].table][0] = Points("SMP_PD")]
    /\ UNCHANGED <<tlb, wp, ro, lapic, image, todo, intent>>

\* Mutant: PD[1] is mapped together with PD[0].
MapLow_Both ==
    /\ Goto("pd", "reload") /\ (Editable \/ Pdpt0.huge)
    /\ mem' = IF Pdpt0.huge THEN mem
              ELSE [mem EXCEPT ![Pdpt0.table] = [i \in Idx |-> Maps(0, TRUE)]]
    /\ intent' = [va \in Addrs |-> IF va \in Low2MB THEN Page(va) ELSE intent[va]]
    /\ UNCHANGED <<tlb, wp, ro, lapic, image, todo>>

\* Unless PDPT[0] is a page itself, PD[0] becomes the first 2 MB.
MapLow ==
    /\ Goto("pd", "reload") /\ (Editable \/ Pdpt0.huge)
    /\ mem' = IF Pdpt0.huge THEN mem ELSE [mem EXCEPT ![Pdpt0.table][0] = Maps(0, TRUE)]
    /\ intent' = [va \in Addrs |-> IF va \in Low2MB THEN Page(va) ELSE intent[va]]
    /\ UNCHANGED <<tlb, wp, ro, lapic, image, todo>>

\* The same root again: whatever was cached is gone.
ReloadCr3 ==
    /\ Goto("reload", "copy")
    /\ tlb' = Flushed
    /\ UNCHANGED <<mem, wp, ro, lapic, image, todo, intent>>

\* The trampoline is copied (module Smp) and CR0 restored.
RestoreCr0 ==
    /\ Goto("copy", "kernel")
    /\ wp' = TRUE
    /\ UNCHANGED <<mem, tlb, ro, lapic, image, todo, intent>>

copy_trampoline == InjectPdpt \/ InjectPd \/ MapLow \/ ReloadCr3 \/ RestoreCr0

-----------------------------------------------------------------------------
(* map_page.                                                                *)

\* The page table an address ends in, or "none": a missing or huge entry is met.
TableOf(va) ==
    LET e1 == mem["PML4"][va[1]]
        e2 == mem[e1.table][va[2]]
        e3 == mem[e2.table][va[3]]
    IN  IF e1.p /\ e2.p /\ ~e2.huge /\ e3.p /\ ~e3.huge THEN e3.table ELSE "none"

\* The entry is written, present and writable; without a table nothing is done.
\* Write protection is left as it is: a caller has tables it may write to.
MapPage(va, frame) ==
    /\ TableOf(va) # "none" /\ Editable
    /\ Goto("kernel", "invlpg")
    /\ mem' = [mem EXCEPT ![TableOf(va)][va[4]] = Maps(frame, FALSE)]
    /\ intent' = [intent EXCEPT ![va] = frame]
    /\ todo' = <<va>>
    /\ UNCHANGED <<tlb, wp, ro, lapic, image>>

\* Mutant: the old translation stays cached.
Invlpg_Missing == Goto("invlpg", "kernel") /\ todo' = <<>> /\ UNCHANGED <<mem, tlb, wp, ro, lapic, image, intent>>

Invlpg ==
    /\ Goto("invlpg", "kernel")
    /\ tlb' = [va \in Watched |-> IF va = Head(todo) THEN None ELSE tlb[va]]
    /\ todo' = <<>>
    /\ UNCHANGED <<mem, wp, ro, lapic, image, intent>>

-----------------------------------------------------------------------------
(* unlock_mmu_for_ring3.                                                    *)

Entries(t) == <<<<t, 0>>, <<t, 1>>>>
PageTabs == {"PT0", "PT1"}

\* Write protection off, then down the tables in the order of their entries.
UnlockBegin ==
    /\ Goto("kernel", "unlock")
    /\ wp' = FALSE
    /\ todo' = Entries("PML4")
    /\ UNCHANGED <<mem, tlb, ro, lapic, image, intent>>

\* The user bit is set in an entry that is present; unless it is a page, the
\* table it points to is next.
UnlockEntry ==
    LET t == Head(todo)[1]
        i == Head(todo)[2]
        e == mem[t][i]
    IN  /\ op = "unlock" /\ todo # <<>> /\ (Editable \/ ~e.p)
        /\ mem' = IF e.p THEN [mem EXCEPT ![t][i].u = TRUE] ELSE mem
        /\ todo' = IF e.p /\ ~e.huge /\ t \notin PageTabs
                   THEN Entries(e.table) \o Tail(todo) ELSE Tail(todo)
        /\ UNCHANGED <<tlb, wp, ro, lapic, image, op, intent>>

\* CR0 is restored and the TLB flushed.
UnlockEnd ==
    /\ op = "unlock" /\ todo = <<>> /\ op' = "unlocked"
    /\ wp' = TRUE
    /\ tlb' = Flushed
    /\ UNCHANGED <<mem, ro, lapic, image, todo, intent>>

unlock_mmu_for_ring3 == UnlockEntry \/ UnlockEnd

-----------------------------------------------------------------------------
(* Properties.                                                              *)

Quiet == op \in {"kernel", "unlocked"}

\* Each address has the page it is meant to have: the firmware's, the first 2 MB
\* once the trampoline is copied (so 0x8000 is itself), the last one map_page
\* was given.  No operation moves or unmaps any other address.
TranslationExact ==
    Quiet => \A va \in Addrs : walk_page_table(va).page = intent[va]

\* Between operations the TLB holds nothing the tables do not say, whatever the
\* processor cached in the middle of one.
TlbCoherent == Quiet => \A va \in Watched : tlb[va] \in {None, walk_page_table(va)}
=============================================================================
