--------------------------------- MODULE Smp ---------------------------------
(***************************************************************************)
(* Waking the application processors (smp.rs, main.rs).  The boot          *)
(* processor copies a trampoline to 0x8000, broadcasts INIT and, a fixed   *)
(* delay later, one SIPI, and after another fixed delay reports how many   *)
(* processors have counted themselves.  Each AP runs the trampoline: long  *)
(* mode, a stack chosen with lock xadd on 0x8600, and a call of ap_main,   *)
(* which counts it and halts.                                              *)
(*                                                                         *)
(* The delays are loops of nops, no synchronisation: an AP may be anywhere *)
(* when they end.  A SIPI finds only the APs that have taken INIT.         *)
(***************************************************************************)
EXTENDS Naturals, FiniteSets

CONSTANTS APs,
          NumStacks      \* 4: the stacks of AP_STACKS

ASSUME SmpAssumption == IsFiniteSet(APs) /\ NumStacks \in Nat \ {0}

VARIABLES bsp,           \* where the boot processor is
          ap,            \* where each AP is
          next_stack,    \* the word at 0x8600
          stack,         \* the stack each AP took, counted from the top of AP_STACKS
          slots,         \* the return addresses on each stack, by depth
          AP_COUNT,
          active_aps     \* what the boot processor reports

smpVars == <<bsp, ap, next_stack, stack, slots, AP_COUNT, active_aps>>

None == "none"

SmpInit ==
    /\ bsp = "copy"
    /\ ap = [a \in APs |-> "firmware"]
    /\ next_stack = 0
    /\ stack = [a \in APs |-> NumStacks]
    /\ slots = [s \in 0 .. NumStacks - 1 |-> [d \in 1 .. 2 |-> None]]
    /\ AP_COUNT = 0 /\ active_aps = 0

copy_trampoline ==
    /\ bsp = "copy" /\ bsp' = "init"
    /\ next_stack' = 0
    /\ UNCHANGED <<ap, stack, slots, AP_COUNT, active_aps>>

FireInit ==
    /\ bsp = "init" /\ bsp' = "sipi"
    /\ UNCHANGED <<ap, next_stack, stack, slots, AP_COUNT, active_aps>>

\* The SIPI starts the APs that wait for it and is lost on the others.
FireSipi ==
    /\ bsp = "sipi" /\ bsp' = "count"
    /\ ap' = [a \in APs |-> IF ap[a] = "waiting" THEN "trampoline" ELSE ap[a]]
    /\ UNCHANGED <<next_stack, stack, slots, AP_COUNT, active_aps>>

\* Mutant: the report is the number of processors that were woken.
ReadCount_Presumes ==
    /\ bsp = "count" /\ bsp' = "done"
    /\ active_aps' = Cardinality({a \in APs : ap[a] \notin {"firmware", "waiting"}})
    /\ UNCHANGED <<ap, next_stack, stack, slots, AP_COUNT>>

ReadCount ==
    /\ bsp = "count" /\ bsp' = "done"
    /\ active_aps' = AP_COUNT
    /\ UNCHANGED <<ap, next_stack, stack, slots, AP_COUNT>>

-----------------------------------------------------------------------------
(* One AP.                                                                  *)

Goto(a, from, to) == ap[a] = from /\ ap' = [ap EXCEPT ![a] = to]

\* INIT reaches the AP.
TakeInit(a) ==
    /\ bsp \notin {"copy", "init"}
    /\ Goto(a, "firmware", "waiting")
    /\ UNCHANGED <<bsp, next_stack, stack, slots, AP_COUNT, active_aps>>

\* Real mode, protected mode, long mode.
EnterLongMode(a) ==
    /\ Goto(a, "trampoline", "long")
    /\ UNCHANGED <<bsp, next_stack, stack, slots, AP_COUNT, active_aps>>

\* mov eax, 0; lock xadd [0x8600], eax; the stack lies eax stacks below the top.
\* The xadd adds the 0 that eax holds.
TakeStack(a) ==
    /\ Goto(a, "long", "stacked")
    /\ next_stack' = next_stack + 0
    /\ stack' = [stack EXCEPT ![a] = next_stack]
    /\ UNCHANGED <<bsp, slots, AP_COUNT, active_aps>>

Push(a, depth, site) == slots' = [slots EXCEPT ![stack[a]][depth] = site]

\* The trampoline calls ap_main.
CallMain(a) ==
    /\ Goto(a, "stacked", "ap_main")
    /\ Push(a, 1, "trampoline")
    /\ UNCHANGED <<bsp, next_stack, stack, AP_COUNT, active_aps>>

\* Mutant: the frame of the call is laid over the caller's.
CallFetchAdd_Overlaps(a) ==
    /\ Goto(a, "ap_main", "fetch_add")
    /\ Push(a, 1, "ap_main")
    /\ UNCHANGED <<bsp, next_stack, stack, AP_COUNT, active_aps>>

\* ap_main calls fetch_add (a function in the debug build that is booted).
CallFetchAdd(a) ==
    /\ Goto(a, "ap_main", "fetch_add")
    /\ Push(a, 2, "ap_main")
    /\ UNCHANGED <<bsp, next_stack, stack, AP_COUNT, active_aps>>

FetchAdd(a) ==
    /\ Goto(a, "fetch_add", "counted")
    /\ AP_COUNT' = AP_COUNT + 1
    /\ UNCHANGED <<bsp, next_stack, stack, slots, active_aps>>

\* fetch_add returns to the address on the stack, and ap_main halts.
Return(a) ==
    /\ Goto(a, "counted", IF slots[stack[a]][2] = "ap_main" THEN "halted" ELSE "lost")
    /\ UNCHANGED <<bsp, next_stack, stack, slots, AP_COUNT, active_aps>>

apStep(a) == EnterLongMode(a) \/ TakeStack(a) \/ CallMain(a) \/ CallFetchAdd(a)
               \/ FetchAdd(a) \/ Return(a)

bspStep == copy_trampoline \/ FireInit \/ FireSipi \/ ReadCount

SmpNext == bspStep \/ \E a \in APs : TakeInit(a) \/ apStep(a)

\* Processors run; nothing says when INIT arrives.
SmpFairness == WF_smpVars(bspStep) /\ \A a \in APs : WF_smpVars(apStep(a))

SmpSpec == SmpInit /\ [][SmpNext]_smpVars
SmpFairSpec == SmpSpec /\ SmpFairness

-----------------------------------------------------------------------------
(* Properties.                                                              *)

Running == {"stacked", "ap_main", "fetch_add", "counted", "halted"}
Awake(a) == ap[a] \notin {"firmware", "waiting"}

\* The number reported is never more than the APs that are in ap_main or have
\* halted in it, and the counter counts every one of them once.
CountHonest ==
    /\ AP_COUNT = Cardinality({a \in APs : ap[a] \in {"counted", "halted"}})
    /\ active_aps <= AP_COUNT

\* Whatever stack it shares, an AP finds the return addresses it pushed: every
\* AP writes the same value at the same depth.
ReturnsHome ==
    \A a \in APs :
        /\ ap[a] \in {"ap_main", "fetch_add", "counted", "halted"} => slots[stack[a]][1] = "trampoline"
        /\ ap[a] \in {"fetch_add", "counted", "halted"} => slots[stack[a]][2] = "ap_main"
        /\ ap[a] # "lost"

\* An AP that was started ends up halted and counted.
Parks == \A a \in APs : Awake(a) ~> ap[a] = "halted"

\* "perfectly safe static stacks": no two APs run on the same one.
StacksApart ==
    \A a, b \in APs : a # b /\ ap[a] \in Running /\ ap[b] \in Running => stack[a] # stack[b]
=============================================================================
