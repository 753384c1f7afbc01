-------------------------------- MODULE Ring3 --------------------------------
(***************************************************************************)
(* The drop to user mode: the segments (gdt.rs), drop_to_usermode's iretq, *)
(* the syscall gate and its handler (syscall.rs), and the task that makes  *)
(* four calls and spins (main.rs, ring3_user_task).  The task runs on the  *)
(* kernel's own pages, once unlock_mmu_for_ring3 (module PageTables) has   *)
(* given them to user mode.                                                *)
(*                                                                         *)
(* A register holds the name of its value.  An interrupt is taken wherever *)
(* the interrupt flag is set; its iretq checks the stack segment it        *)
(* reloads, sysretq does not check the one it makes up.                    *)
(***************************************************************************)
EXTENDS PageTables

VARIABLES
    drive,        \* an NVMe drive was found at boot
    mode,         \* kernel, user, spin (the task has ended), panic
    call,         \* the task's next or current call
    where,        \* task, entry, handler, exit: where the call is
    IF_flag,      \* RFLAGS.IF
    ss,           \* the stack segment: an index of the GDT
    frame,        \* the stack segment an interrupt has pushed, or 0
    regs,         \* the registers the gate touches
    stack,        \* what the gate has pushed, top first
    args          \* history: what the handler was called with

gateVars == <<mode, call, where, IF_flag, ss, frame, regs, stack, args>>
vars == <<pageVars, drive, gateVars>>

-----------------------------------------------------------------------------
(* Segments: gdt.rs and the MSRs that syscall::init writes.                 *)

\* The table as add_entry fills it; a TSS takes two entries.
GDT == <<"kernel code", "kernel data", "tss", "tss high", "user code", "user data">>
KernelData == 2
UserCode == 5
UserData == 6

\* STAR holds the user code selector less 16: two entries below.
StarUser == UserCode - 2
SyscallSs == 2                                  \* kernel code + 8
SysretSs == StarUser + 1

DataSegment(i) == GDT[i] \in {"kernel data", "user data"}

\* RFLAGS as drop_to_usermode pushes it: 0x002.
PushedIF_On == TRUE      \* Mutant: 0x202
PushedIF == FALSE

-----------------------------------------------------------------------------
(* The task's calls.                                                        *)

Calls == <<1, 4, 5, 1>>
Names == {"rax", "rdi", "rsi", "rdx", "rcx", "r8", "r9", "r10", "r11", "r12", "ds"}

\* The registers of the task before a call: each holds its own value.
Own == [r \in Names |-> r]
NoArgs == <<>>

Init ==
    /\ PageInit
    /\ drive \in BOOLEAN
    /\ mode = "kernel" /\ call = 1 /\ where = "task" /\ IF_flag = TRUE /\ ss = KernelData /\ frame = 0
    /\ regs = Own /\ stack = <<>> /\ args = NoArgs

\* The tables are unlocked: drop_to_usermode.
DropToUsermode ==
    /\ op = "unlocked" /\ mode = "kernel" /\ frame = 0
    /\ mode' = "user" /\ IF_flag' = PushedIF /\ ss' = UserData
    /\ UNCHANGED <<pageVars, drive, call, where, frame, regs, stack, args>>

\* A user access to va: the TLB decides, or else the tables.
Allowed(va) ==
    LET t == IF va \in Watched /\ tlb[va] # None THEN tlb[va] ELSE walk_page_table(va)
    IN  t # None /\ t.user

\* The page the task reads before call n: the sector it was given by call 2 is in
\* the kernel's heap, or the null pointer it never tests.
Reads(n) == IF n = 3 /\ ~drive THEN Null ELSE image

InTask == mode = "user" /\ where = "task" /\ frame = 0
MayGoOn == Allowed(image) /\ Allowed(Reads(call))

\* The task runs up to its next call and executes syscall.
Syscall ==
    /\ InTask /\ call <= 4 /\ MayGoOn
    /\ where' = "entry"
    /\ IF_flag' = FALSE /\ ss' = SyscallSs
    /\ regs' = [Own EXCEPT !["rcx"] = "rip", !["r11"] = IF IF_flag THEN "on" ELSE "off"]
    /\ UNCHANGED <<pageVars, drive, mode, call, frame, stack, args>>

\* A page it may not touch: no handler for the fault, so the double fault panics.
Fault ==
    /\ InTask /\ ~MayGoOn
    /\ mode' = "panic" /\ IF_flag' = FALSE
    /\ UNCHANGED <<pageVars, drive, call, where, ss, frame, regs, stack, args>>

\* After the last call the task spins.
Spin ==
    /\ InTask /\ call = 5 /\ MayGoOn
    /\ mode' = "spin"
    /\ UNCHANGED <<pageVars, drive, call, where, IF_flag, ss, frame, regs, stack, args>>

-----------------------------------------------------------------------------
(* The gate: syscall_entry.                                                 *)

Mov(r, dst, src) == [r EXCEPT ![dst] = r[src]]

\* The call's number and arguments move up one place.
Shuffle(r) == Mov(Mov(Mov(Mov(r, "rcx", "rdx"), "rdx", "rsi"), "rsi", "rdi"), "rdi", "rax")

PushOrder == <<"rcx", "r11", "rax", "rdi", "rsi", "rdx", "r8", "r9", "r10", "ds">>

\* Mutant: rcx and r11 come back in the order they went.
PopOrder_Swapped == <<"ds", "r10", "r9", "r8", "rdx", "rsi", "rdi", "rax", "rcx", "r11">>

PopOrder == <<"ds", "r10", "r9", "r8", "rdx", "rsi", "rdi", "rax", "r11", "rcx">>

\* Save the registers on the stack the task left, and load the kernel's data
\* segments.
GateEntry ==
    /\ where = "entry" /\ where' = "handler"
    /\ stack' = [i \in 1 .. 10 |-> regs[PushOrder[11 - i]]]
    /\ regs' = [Shuffle(regs) EXCEPT !["ds"] = "kernel"]
    /\ UNCHANGED <<pageVars, drive, mode, call, IF_flag, ss, frame, args>>

\* What call n returns: a canvas or a sector is the address of a new box.  The
\* others print, blit or send an ARP request; an unknown call prints as well.
Result(n) ==
    CASE n = 2 -> "canvas"
      [] n = 4 /\ drive -> "sector"
      [] OTHER -> "0"

\* syscall_handler may use every register its caller does not expect back.
SyscallHandler ==
    /\ where = "handler" /\ where' = "exit"
    /\ args' = <<regs["rdi"], regs["rsi"], regs["rdx"], regs["rcx"]>>
    /\ regs' = [r \in Names |->
                  CASE r = "rax" -> Result(Calls[call])
                    [] r \in {"rdi", "rsi", "rdx", "rcx", "r8", "r9", "r10", "r11"} -> "junk"
                    [] OTHER -> regs[r]]
    /\ UNCHANGED <<pageVars, drive, mode, call, IF_flag, ss, frame, stack>>

\* Take the registers back, the result through r12, and sysretq.
GateExit ==
    LET popped == [r \in Names |-> IF \E i \in 1 .. 10 : PopOrder[i] = r
                                   THEN stack[CHOOSE i \in 1 .. 10 : PopOrder[i] = r]
                                   ELSE regs[r]]
        result == regs["rax"]
    IN  /\ where = "exit" /\ where' = "task"
        /\ regs' = [popped EXCEPT !["rax"] = result, !["r12"] = result]
        /\ IF_flag' = (popped["r11"] = "on")
        /\ ss' = SysretSs
        /\ stack' = <<>> /\ call' = call + 1
        /\ UNCHANGED <<pageVars, drive, mode, frame, args>>

gate == GateEntry \/ SyscallHandler \/ GateExit

-----------------------------------------------------------------------------
(* Interrupts.                                                              *)

Interrupt ==
    /\ IF_flag /\ frame = 0 /\ mode # "panic"
    /\ frame' = ss /\ IF_flag' = FALSE
    /\ UNCHANGED <<pageVars, drive, mode, call, where, ss, regs, stack, args>>

\* The handler's iretq: a stack segment that is no data segment is a fault.
Iretq ==
    /\ frame # 0
    /\ frame' = 0
    /\ IF DataSegment(frame) THEN IF_flag' = TRUE /\ UNCHANGED mode
                             ELSE IF_flag' = FALSE /\ mode' = "panic"
    /\ UNCHANGED <<pageVars, drive, call, where, ss, regs, stack, args>>

InKernel == mode = "kernel" /\ frame = 0 /\ UNCHANGED <<drive, gateVars>>

\* The kernel's own way to the drop.
bootAndDrop ==
    \/ InKernel /\ (SkipTrampoline \/ copy_trampoline)
    \/ InKernel /\ (Invlpg \/ unlock_mmu_for_ring3)
    \/ DropToUsermode

callMap == \E va \in Watched \ {image}, f \in NewFrames : InKernel /\ MapPage(va, f)
click == InKernel /\ UnlockBegin
user == Syscall \/ Fault \/ Spin \/ gate
processor == (TlbFill \/ TlbEvict) /\ UNCHANGED <<drive, gateVars>>

Next == bootAndDrop \/ callMap \/ click \/ user \/ processor \/ Interrupt \/ Iretq

\* Code runs; nobody need click and no interrupt need come.
Fairness == SF_vars(bootAndDrop) /\ WF_vars(user) /\ WF_vars(Iretq)

Spec == Init /\ [][Next]_vars /\ Fairness

-----------------------------------------------------------------------------
(* Properties.                                                              *)

\* The handler gets the call's number and arguments in the order the task passed
\* them.  The task gets back its return address and flags, its data segment and
\* every other register as it was, but for two: rax has the call's result, and so
\* has r12, which the gate overwrites and should not.
GateTransparent ==
    /\ where = "exit" => args = <<"rax", "rdi", "rsi", "rdx">>
    /\ where = "task" /\ args # NoArgs =>
          /\ \A r \in Names \ {"rax", "rcx", "r11", "r12"} : regs[r] = r
          /\ regs["rcx"] = "rip" /\ regs["r11"] = "off"
          /\ regs["rax"] = Result(Calls[call - 1]) /\ regs["r12"] = regs["rax"]

\* The null pointer the task reads when there is no drive is not mapped.
NullUnmapped == ~drive /\ walk_page_table(Null) = None

\* A click ends in the task's idle loop for ever: no page of the kernel is still
\* closed to it, and no interrupt ever reloads the stack segment that sysretq
\* made up, which is half of the TSS.  The exception is the read through the
\* null pointer.
TaskCompletes == op = "unlock" ~> ([](mode = "spin") \/ NullUnmapped)
=============================================================================
