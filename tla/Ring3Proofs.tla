---------------------------- MODULE Ring3Proofs ----------------------------
(***************************************************************************)
(* Proofs about the page tables and the drop to user mode.                 *)
(*                                                                         *)
(*   gate    GateInv: interrupts are off from the drop on, and the stack   *)
(*           holds the task's registers while the kernel works.            *)
(*   tables  PageInv: the tables are a tree, so an entry that is written   *)
(*           moves the addresses below it and no other; the TLB is behind  *)
(*           only inside an operation that ends in a flush.                *)
(*   task    TaskInv: on its way down the tables, unlock_mmu_for_ring3     *)
(*           leaves no entry behind, so the task meets no closed page.     *)
(***************************************************************************)
EXTENDS Ring3, Integers, TLAPS

-----------------------------------------------------------------------------
(* The gate.                                                                *)

\* The registers when syscall has been executed: the task's own, but for the two
\* that syscall uses.  The interrupt flag was off.
Entered == [Own EXCEPT !["rcx"] = "rip", !["r11"] = "off"]

\* What the gate has pushed then, top first.
Saved == <<"ds", "r10", "r9", "r8", "rdx", "rsi", "rdi", "rax", "off", "rip">>

\* From the drop on, the interrupt flag is off and stays off, because each call
\* takes it back from the stack as it was.
Masked == mode # "kernel" => ~IF_flag /\ frame = 0

GateInv ==
    /\ Masked
    /\ where \in {"task", "entry", "handler", "exit"}
    /\ where # "task" => mode = "user"
    /\ where = "entry" => regs = Entered
    /\ where \in {"handler", "exit"} => stack = Saved
    /\ where = "handler" => <<regs["rdi"], regs["rsi"], regs["rdx"], regs["rcx"]>> =
                               <<"rax", "rdi", "rsi", "rdx">>
    /\ where = "exit" => regs["rax"] = Result(Calls[call])
    /\ call \in Nat
    /\ GateTransparent

\* Each register comes back from the place it was pushed to.
LEMMA PopPlaces ==
    ASSUME NEW k \in 1 .. 10
    PROVE  (CHOOSE i \in 1 .. 10 : PopOrder[i] = PopOrder[k]) = k
<1>1. 1 .. 10 = {1, 2, 3, 4, 5, 6, 7, 8, 9, 10}
  OBVIOUS
<1>2. \A i \in 1 .. 10 : PopOrder[i] = PopOrder[k] => i = k
  BY <1>1 DEF PopOrder
<1>3. QED
  BY <1>2

\* The stack gives back what each register held when syscall was executed.
LEMMA PopsBack ==
    ASSUME NEW r \in Names \ {"r12"}
    PROVE  /\ \E i \in 1 .. 10 : PopOrder[i] = r
           /\ Saved[CHOOSE i \in 1 .. 10 : PopOrder[i] = r] =
                 IF r = "rcx" THEN "rip" ELSE IF r = "r11" THEN "off" ELSE r
<1>1. PICK k \in 1 .. 10 : PopOrder[k] = r
  <2>1. /\ 1 \in 1 .. 10 /\ 2 \in 1 .. 10 /\ 3 \in 1 .. 10 /\ 4 \in 1 .. 10 /\ 5 \in 1 .. 10
        /\ 6 \in 1 .. 10 /\ 7 \in 1 .. 10 /\ 8 \in 1 .. 10 /\ 9 \in 1 .. 10 /\ 10 \in 1 .. 10
    OBVIOUS
  <2>2. QED
    BY <2>1 DEF PopOrder, Names
<1>2. (CHOOSE i \in 1 .. 10 : PopOrder[i] = r) = k
  BY <1>1, PopPlaces
<1>3. Saved[k] = IF r = "rcx" THEN "rip" ELSE IF r = "r11" THEN "off" ELSE r
  <2>1. 1 .. 10 = {1, 2, 3, 4, 5, 6, 7, 8, 9, 10}
    OBVIOUS
  <2>2. QED
    BY <1>1, <2>1 DEF PopOrder, Saved
<1>4. QED
  BY <1>1, <1>2, <1>3

\* Steps that touch neither the task nor its call keep what is known of both.
LEMMA GateIdle ==
    ASSUME GateInv, UNCHANGED <<where, regs, stack, args, call, drive>>, Masked',
           where # "task" => mode' = "user"
    PROVE  GateInv'
  BY DEF GateInv, GateTransparent, Result

\* A call into the kernel, its handler and the way back.
LEMMA GateStepOK ==
    ASSUME GateInv, Syscall \/ gate
    PROVE  GateInv'
<1>1. CASE Syscall
  <2>1. mode = "user" /\ IF_flag = FALSE /\ frame = 0
    BY <1>1 DEF Syscall, InTask, GateInv, Masked
  <2>2. regs' = Entered
    BY <1>1, <2>1 DEF Syscall, Entered
  <2>3. where' = "entry" /\ mode' = mode /\ IF_flag' = FALSE /\ frame' = frame /\ call' = call
    BY <1>1 DEF Syscall
  <2>4. QED
    BY <2>1, <2>2, <2>3 DEF GateInv, Masked, GateTransparent
<1>2. CASE GateEntry
  <2>1. where = "entry" /\ where' = "handler" /\ UNCHANGED <<mode, IF_flag, frame, call>>
    BY <1>2 DEF GateEntry
  <2>2. regs = Entered /\ Masked
    BY <2>1 DEF GateInv
  <2>3. stack' = Saved
    <3>1. stack' = [i \in 1 .. 10 |-> Entered[PushOrder[11 - i]]]
      BY <1>2, <2>2 DEF GateEntry
    <3>2. Saved = [i \in 1 .. 10 |-> Saved[i]]
      BY DEF Saved
    <3>3. ASSUME NEW i \in 1 .. 10 PROVE Entered[PushOrder[11 - i]] = Saved[i]
      <4>1. i \in {1, 2, 3, 4, 5, 6, 7, 8, 9, 10}
        OBVIOUS
      <4>2. PushOrder[11 - i] = IF i = 9 THEN "r11" ELSE IF i = 10 THEN "rcx" ELSE Saved[i]
        BY <4>1 DEF PushOrder, Saved
      <4>3. i \notin {9, 10} => Saved[i] \in Names \ {"rcx", "r11"}
        BY <4>1 DEF Saved, Names
      <4>4. /\ \A r \in Names \ {"rcx", "r11"} : Entered[r] = r
            /\ Entered["rcx"] = "rip" /\ Entered["r11"] = "off"
        BY DEF Entered, Own, Names
      <4>5. i = 9 \/ i = 10 \/ i \notin {9, 10}
        OBVIOUS
      <4>6. Saved[9] = "off" /\ Saved[10] = "rip"
        BY DEF Saved
      <4>7. QED
        BY <4>2, <4>3, <4>4, <4>5, <4>6
    <3>4. QED
      BY <3>1, <3>2, <3>3
  <2>4. /\ regs'["rdi"] = "rax" /\ regs'["rsi"] = "rdi" /\ regs'["rdx"] = "rsi"
        /\ regs'["rcx"] = "rdx"
    BY <1>2, <2>2 DEF GateEntry, Shuffle, Mov, Entered, Own, Names
  <2>5. QED
    BY <2>1, <2>2, <2>3, <2>4 DEF GateInv, Masked, GateTransparent
<1>3. CASE SyscallHandler
  <2>1. where = "handler" /\ where' = "exit" /\ UNCHANGED <<mode, IF_flag, frame, stack, call, drive>>
    BY <1>3 DEF SyscallHandler
  <2>2. args' = <<"rax", "rdi", "rsi", "rdx">>
    BY <1>3, <2>1 DEF SyscallHandler, GateInv
  <2>3. stack' = Saved /\ Masked' /\ mode' = "user"
    BY <2>1 DEF GateInv, Masked
  <2>4. regs'["rax"] = Result(Calls[call])' /\ call' \in Nat
    <3>1. regs'["rax"] = Result(Calls[call])
      BY <1>3 DEF SyscallHandler, Names
    <3>2. QED
      BY <2>1, <3>1 DEF Result, GateInv
  <2>5. QED
    BY <2>1, <2>2, <2>3, <2>4 DEF GateInv, GateTransparent
<1>4. CASE GateExit
  <2>1. PICK popped : popped = [r \in Names |-> IF \E i \in 1 .. 10 : PopOrder[i] = r
                                   THEN stack[CHOOSE i \in 1 .. 10 : PopOrder[i] = r]
                                   ELSE regs[r]]
    OBVIOUS
  <2>2. /\ where = "exit" /\ where' = "task" /\ UNCHANGED <<mode, frame, args, drive>>
        /\ call' = call + 1
        /\ regs' = [popped EXCEPT !["rax"] = regs["rax"], !["r12"] = regs["rax"]]
        /\ IF_flag' = (popped["r11"] = "on")
    BY <1>4, <2>1 DEF GateExit
  <2>3. stack = Saved /\ mode = "user" /\ Masked
    BY <2>2 DEF GateInv
  <2>4. ASSUME NEW r \in Names \ {"r12"}
        PROVE  popped[r] = IF r = "rcx" THEN "rip" ELSE IF r = "r11" THEN "off" ELSE r
    BY <2>1, <2>3, PopsBack
  <2>5. {"rcx", "r11"} \subseteq Names \ {"r12"}
    BY DEF Names
  <2>6. popped["rcx"] = "rip" /\ popped["r11"] = "off"
    BY <2>4, <2>5
  <2>7. DOMAIN popped = Names /\ popped = [r \in Names |-> popped[r]]
    BY <2>1
  <2>8. \A r \in Names \ {"rax", "r12"} : regs'[r] = popped[r]
    BY <2>2, <2>7
  <2>9. GateTransparent'
    <3>1. \A r \in Names \ {"rax", "rcx", "r11", "r12"} : regs'[r] = r
      BY <2>4, <2>8
    <3>2. regs'["rcx"] = "rip" /\ regs'["r11"] = "off"
      BY <2>5, <2>6, <2>8
    <3>3. regs'["rax"] = regs["rax"] /\ regs'["r12"] = regs["rax"]
      BY <2>2, <2>7 DEF Names
    <3>4. regs["rax"] = Result(Calls[call - 1])'
      <4>1. call \in Nat /\ call' - 1 = call
        BY <2>2 DEF GateInv
      <4>2. regs["rax"] = Result(Calls[call])
        BY <2>2 DEF GateInv
      <4>3. QED
        BY <2>2, <4>1, <4>2 DEF Result
    <3>5. QED
      BY <2>2, <3>1, <3>2, <3>3, <3>4 DEF GateTransparent
  <2>10. IF_flag' = FALSE
    BY <2>2, <2>6
  <2>11. call' \in Nat
    BY <2>2 DEF GateInv
  <2>12. QED
    BY <2>2, <2>3, <2>9, <2>10, <2>11 DEF GateInv, Masked
<1>5. QED
  BY <1>1, <1>2, <1>3, <1>4 DEF gate

\* The gate: interrupts stay masked in the task, the stack holds its registers while
\* the kernel works, and they come back as they were.
THEOREM GateCorrect == Spec => []GateInv
<1>1. Init => GateInv
  BY DEF Init, GateInv, Masked, GateTransparent
<1>2. GateInv /\ [Next]_vars => GateInv'
  <2> SUFFICES ASSUME GateInv, [Next]_vars PROVE GateInv'
    OBVIOUS
  <2>1. CASE UNCHANGED <<drive, gateVars>>
    <3>1. UNCHANGED <<where, regs, stack, args, call, mode, IF_flag, frame>>
      BY <2>1 DEF gateVars
    <3>2. QED
      BY <2>1, <3>1, GateIdle DEF GateInv, Masked
  <2>2. CASE DropToUsermode
    BY <2>2, GateIdle DEF DropToUsermode, GateInv, Masked, PushedIF
  <2>3. CASE Syscall \/ gate
    BY <2>3, GateStepOK
  <2>4. CASE Fault \/ Spin
    <3>1. where = "task" /\ mode = "user" /\ frame = 0
      BY <2>4 DEF Fault, Spin, InTask
    <3>2. UNCHANGED <<where, regs, stack, args, call, drive, frame>> /\ (IF_flag' = FALSE \/ IF_flag' = IF_flag)
      BY <2>4 DEF Fault, Spin
    <3>3. Masked'
      BY <3>1, <3>2 DEF GateInv, Masked
    <3>4. QED
      BY <3>1, <3>2, <3>3, GateIdle
  <2>5. CASE Interrupt \/ Iretq
    <3>1. mode = "kernel"
      BY <2>5 DEF Interrupt, Iretq, GateInv, Masked
    <3>2. UNCHANGED <<where, regs, stack, args, call, drive>> /\ where = "task"
      BY <2>5, <3>1 DEF Interrupt, Iretq, GateInv
    <3>3. Masked'
      BY <2>5, <3>1 DEF Interrupt, Iretq, Masked
    <3>4. QED
      BY <3>2, <3>3, GateIdle
  <2>6. QED
    BY <2>3, <2>4, <2>5, <2>1, <2>2
    DEF Next, vars, bootAndDrop, callMap, click, user, processor, InKernel
<1>3. QED
  BY <1>1, <1>2, PTL DEF Spec

\* syscall_handler gets the call's number and arguments in order, and syscall_entry
\* gives the task its result, in rax and r12, and every other register back.
THEOREM GateIsTransparent == Spec => []GateTransparent
<1>1. GateInv => GateTransparent
  BY DEF GateInv
<1>2. QED
  BY <1>1, GateCorrect, PTL

-----------------------------------------------------------------------------
(* The tables.                                                              *)

Tables == {"PML4", "PDPT", "PD", "PT0", "PT1", "HIGH", "SMP_PDPT", "SMP_PD"}
Pages == 0 .. 15
EntryRecords == [p : BOOLEAN, u : BOOLEAN, huge : BOOLEAN, table : Tables \cup {"none"},
                 page : Pages]

\* Present entries that point to one of T, or end the walk.
PointsInto(e, T) == e.p => ~e.huge /\ e.table \in T
Ends(e) == e.p => e.huge
Either(e, T) == e.p => e.huge \/ e.table \in T

\* The tables are a tree: no two addresses share an entry of a page table.
Shape ==
    /\ mem \in [Tables -> [Idx -> EntryRecords]]
    /\ PointsInto(mem["PML4"][0], {"PDPT", "SMP_PDPT"}) /\ PointsInto(mem["PML4"][1], {"HIGH"})
    /\ Either(mem["PDPT"][0], {"PD", "SMP_PD"}) /\ Ends(mem["PDPT"][1])
    /\ mem["PDPT"][0].huge => mem["PDPT"][0].page = 0
    /\ Ends(mem["HIGH"][0]) /\ Ends(mem["HIGH"][1])
    /\ Either(mem["PD"][0], {"PT0"}) /\ Either(mem["PD"][1], {"PT1"})
    /\ PointsInto(mem["SMP_PDPT"][0], {"SMP_PD"}) /\ ~mem["SMP_PDPT"][1].p
    /\ Ends(mem["SMP_PD"][0]) /\ ~mem["SMP_PD"][1].p

\* How far copy_trampoline has come.
Injected ==
    /\ op = "boot" => ~mem["SMP_PDPT"][0].p
    /\ op \in {"pdpt", "pd"} => mem["PML4"][0].p
    /\ op \in {"boot", "pdpt", "pd"} => ~mem["SMP_PD"][0].p
    /\ op = "pd" => Pdpt0.p

Exact == \A va \in Addrs : walk_page_table(va).page = intent[va]

\* What map_page has still to take out of the TLB.
Stale == IF op = "invlpg" THEN {Head(todo)} ELSE {}

Coherent == \A va \in Watched \ Stale : tlb[va] \in {None, walk_page_table(va)}

Translations == [page : Nat, user : BOOLEAN]

PageInv ==
    /\ op \in {"boot", "pdpt", "pd", "reload", "copy", "kernel", "invlpg", "unlock", "unlocked"}
    /\ tlb \in [Watched -> Translations] /\ intent \in [Addrs -> Nat]
    /\ op = "invlpg" => todo \in Seq(Addrs) /\ todo # <<>>
    /\ op = "unlock" => todo \in Seq(Tables \X Idx)
    /\ Shape /\ Injected /\ Exact
    /\ op \in {"boot", "copy", "kernel", "invlpg", "unlocked"} => Coherent

\* The entries a walk meets.
First(va) == mem["PML4"][va[1]]
Second(va) == mem[First(va).table][va[2]]
Third(va) == mem[Second(va).table][va[3]]
Fourth(va) == mem[Third(va).table][va[4]]

\* Whether it goes on behind the second and the third.
Deeper(e) == e.p /\ ~e.huge

\* walk_page_table, entry by entry.
LEMMA Walk ==
    ASSUME NEW va
    PROVE  walk_page_table(va) =
             IF ~First(va).p THEN None
             ELSE IF ~Deeper(Second(va)) THEN Leaf(Second(va), 2 * va[3] + va[4], First(va).u)
             ELSE IF ~Deeper(Third(va))
                  THEN Leaf(Third(va), va[4], First(va).u /\ Second(va).u)
             ELSE Leaf(Fourth(va), 0, First(va).u /\ Second(va).u /\ Third(va).u)
  BY DEF walk_page_table, First, Second, Third, Fourth, Deeper

\* The indices of an address.
LEMMA Indices ==
    ASSUME NEW va \in Addrs
    PROVE  /\ va[1] \in {0, 1} /\ va[2] \in {0, 1} /\ va[3] \in {0, 1} /\ va[4] \in {0, 1}
           /\ va = <<va[1], va[2], va[3], va[4]>>
  BY DEF Addrs, Idx

\* Where a walk can lead.
LEMMA Paths ==
    ASSUME Shape, NEW va \in Addrs
    PROVE  /\ First(va) \in EntryRecords
           /\ First(va).p => /\ ~First(va).huge /\ Second(va) \in EntryRecords
                             /\ First(va).table \in IF va[1] = 0 THEN {"PDPT", "SMP_PDPT"}
                                                                 ELSE {"HIGH"}
           /\ First(va).p /\ Deeper(Second(va)) =>
                 /\ va[1] = 0 /\ va[2] = 0
                 /\ Second(va).table \in {"PD", "SMP_PD"} /\ Third(va) \in EntryRecords
           /\ First(va).p /\ Deeper(Second(va)) /\ Deeper(Third(va)) =>
                 /\ First(va).table = "PDPT" /\ Second(va).table = "PD"
                 /\ Third(va).table = (IF va[3] = 0 THEN "PT0" ELSE "PT1")
                 /\ Fourth(va) \in EntryRecords
<1>1. va[1] \in {0, 1} /\ va[2] \in {0, 1} /\ va[3] \in {0, 1} /\ va[4] \in {0, 1}
  BY Indices
<1>2. \A t \in Tables : \A i \in {0, 1} : mem[t][i] \in EntryRecords
  BY DEF Shape, Idx
<1>3. First(va) \in EntryRecords
  BY <1>1, <1>2 DEF First, Tables
<1>4. First(va).p => /\ ~First(va).huge /\ Second(va) \in EntryRecords
                     /\ First(va).table \in IF va[1] = 0 THEN {"PDPT", "SMP_PDPT"} ELSE {"HIGH"}
  <2>1. First(va).p => /\ ~First(va).huge
                       /\ First(va).table \in IF va[1] = 0 THEN {"PDPT", "SMP_PDPT"} ELSE {"HIGH"}
    BY <1>1 DEF First, Shape, PointsInto
  <2>2. QED
    BY <1>1, <1>2, <2>1 DEF Second, Tables
<1>5. ASSUME First(va).p, Deeper(Second(va))
      PROVE  /\ va[1] = 0 /\ va[2] = 0
             /\ Second(va).table \in {"PD", "SMP_PD"} /\ Third(va) \in EntryRecords
             /\ First(va).table = "SMP_PDPT" => Second(va).table = "SMP_PD"
  <2>1. CASE va[1] = 1
    BY <1>1, <1>4, <1>5, <2>1 DEF Second, Shape, Ends, Deeper
  <2>2. CASE va[1] = 0 /\ First(va).table = "PDPT"
    <3>1. va[2] = 0
      BY <1>1, <1>5, <2>2 DEF Second, Shape, Ends, Deeper
    <3>2. Second(va).table \in {"PD", "SMP_PD"}
      BY <1>5, <2>2, <3>1 DEF Second, Shape, Either, Deeper
    <3>3. QED
      BY <1>1, <1>2, <2>2, <3>1, <3>2 DEF Third, Tables
  <2>3. CASE va[1] = 0 /\ First(va).table = "SMP_PDPT"
    <3>1. va[2] = 0
      BY <1>1, <1>5, <2>3 DEF Second, Shape, Deeper
    <3>2. Second(va).table = "SMP_PD"
      BY <1>5, <2>3, <3>1 DEF Second, Shape, PointsInto, Deeper
    <3>3. QED
      BY <1>1, <1>2, <2>3, <3>1, <3>2 DEF Third, Tables
  <2>4. QED
    BY <1>1, <1>4, <1>5, <2>1, <2>2, <2>3
<1>6. ASSUME First(va).p, Deeper(Second(va)), Deeper(Third(va))
      PROVE  /\ First(va).table = "PDPT" /\ Second(va).table = "PD"
             /\ Third(va).table = (IF va[3] = 0 THEN "PT0" ELSE "PT1")
             /\ Fourth(va) \in EntryRecords
  <2>1. Second(va).table = "PD"
    BY <1>1, <1>5, <1>6 DEF Third, Shape, Ends, Deeper
  <2>2. First(va).table = "PDPT"
    BY <1>4, <1>5, <1>6, <2>1
  <2>3. Third(va).table = (IF va[3] = 0 THEN "PT0" ELSE "PT1")
    BY <1>1, <1>6, <2>1 DEF Third, Shape, Either, Deeper
  <2>4. QED
    BY <1>1, <1>2, <2>1, <2>2, <2>3 DEF Fourth, Tables
<1>7. QED
  BY <1>3, <1>4, <1>5, <1>6

\* A walk whose entries are as they were.
LEMMA WalkSame ==
    ASSUME NEW va, First(va)' = First(va), First(va).p => Second(va)' = Second(va),
           First(va).p /\ Deeper(Second(va)) => Third(va)' = Third(va),
           First(va).p /\ Deeper(Second(va)) /\ Deeper(Third(va)) => Fourth(va)' = Fourth(va)
    PROVE  walk_page_table(va)' = walk_page_table(va)
<1>1. walk_page_table(va)' =
             IF ~First(va)'.p THEN None
             ELSE IF ~Deeper(Second(va)') THEN Leaf(Second(va)', 2 * va[3] + va[4], First(va)'.u)
             ELSE IF ~Deeper(Third(va)')
                  THEN Leaf(Third(va)', va[4], First(va)'.u /\ Second(va)'.u)
             ELSE Leaf(Fourth(va)', 0, First(va)'.u /\ Second(va)'.u /\ Third(va)'.u)
  BY DEF walk_page_table, First, Second, Third, Fourth, Deeper, Leaf
<1>2. QED
  BY <1>1, Walk

\* One entry is written.
LEMMA Written ==
    ASSUME mem \in [Tables -> [Idx -> EntryRecords]], NEW t \in Tables, NEW i \in Idx,
           NEW e \in EntryRecords, mem' = [mem EXCEPT ![t][i] = e]
    PROVE  /\ mem' \in [Tables -> [Idx -> EntryRecords]]
           /\ mem'[t][i] = e
           /\ \A s \in Tables : \A j \in Idx : s # t \/ j # i => mem'[s][j] = mem[s][j]
<1>1. mem[t] \in [Idx -> EntryRecords]
  OBVIOUS
<1>2. PICK f : f = [mem[t] EXCEPT ![i] = e]
  OBVIOUS
<1>3. f \in [Idx -> EntryRecords] /\ f[i] = e /\ \A j \in Idx : j # i => f[j] = mem[t][j]
  BY <1>1, <1>2
<1>4. mem' = [mem EXCEPT ![t] = f]
  BY <1>2
<1>5. QED
  BY <1>3, <1>4

\* The pages of sixteen addresses.
LEMMA PageNumbers ==
    /\ 0 \in Pages /\ 1 \in Pages /\ 2 \in Pages /\ 3 \in Pages /\ 4 \in Pages /\ 8 \in Pages
  BY DEF Pages

\* The entries that are written.
LEMMA NewEntries ==
    /\ \A t \in Tables : /\ Points(t) \in EntryRecords /\ Points(t).p /\ ~Points(t).huge
                          /\ Points(t).table = t
    /\ \A n \in Pages, h \in BOOLEAN : /\ Maps(n, h) \in EntryRecords /\ Maps(n, h).p
                                         /\ Maps(n, h).huge = h /\ Maps(n, h).page = n
  BY PageNumbers DEF Points, Maps, Absent, EntryRecords

\* A walk that meets an absent entry finds nothing.
LEMMA NoLeaf == \A e, n, u : ~e.p => Leaf(e, n, u) = None
  BY DEF Leaf

\* Nothing is written.
LEMMA TablesSame ==
    ASSUME Shape, mem' = mem
    PROVE  Shape' /\ \A va : walk_page_table(va)' = walk_page_table(va)
<1>1. Shape'
  BY DEF Shape
<1>2. QED
  BY <1>1 DEF walk_page_table

\* PML4[0] and PDPT[0] are given empty tables: an address that was not mapped is not
\* mapped, and no other one is touched.
LEMMA InjectPdptOK ==
    ASSUME PageInv, InjectPdpt
    PROVE  PageInv'
<1>1. op = "boot" /\ op' = "pdpt" /\ UNCHANGED <<tlb, intent>>
  BY DEF InjectPdpt, Goto
<1>2. Shape /\ Exact /\ ~mem["SMP_PDPT"][0].p /\ ~mem["SMP_PDPT"][1].p /\ ~mem["SMP_PD"][0].p
  BY <1>1 DEF PageInv, Shape, Injected
<1>3. Shape' /\ Injected' /\ \A va \in Addrs : walk_page_table(va)' = walk_page_table(va)
  <2>1. CASE mem["PML4"][0].p
    <3>1. mem' = mem
      BY <2>1 DEF InjectPdpt
    <3>2. Injected'
      BY <1>1, <1>2, <2>1, <3>1 DEF Injected
    <3>3. QED
      BY <1>2, <3>1, <3>2, TablesSame
  <2>2. CASE ~mem["PML4"][0].p
    <3>1. PICK e : e = Points("SMP_PDPT")
      OBVIOUS
    <3>2. e \in EntryRecords /\ e.p /\ ~e.huge /\ e.table = "SMP_PDPT"
      BY <3>1, NewEntries DEF Tables
    <3>3. mem' = [mem EXCEPT !["PML4"][0] = e]
      BY <2>2, <3>1 DEF InjectPdpt
    <3>4. /\ mem' \in [Tables -> [Idx -> EntryRecords]] /\ mem'["PML4"][0] = e
          /\ \A s \in Tables : \A j \in Idx : s # "PML4" \/ j # 0 => mem'[s][j] = mem[s][j]
      <4>1. "PML4" \in Tables /\ 0 \in Idx /\ mem \in [Tables -> [Idx -> EntryRecords]]
        BY <1>2 DEF Tables, Idx, Shape
      <4>2. QED
        BY <3>2, <3>3, <4>1, Written
    <3>5. \A s \in Tables \ {"PML4"} : mem'[s][0] = mem[s][0] /\ mem'[s][1] = mem[s][1]
      BY <3>4 DEF Idx
    <3>6. mem'["PML4"][1] = mem["PML4"][1]
      BY <3>4 DEF Idx, Tables
    <3>7. Shape'
      BY <1>2, <3>2, <3>4, <3>5, <3>6 DEF Shape, Tables, PointsInto, Ends, Either
    <3>8. Injected'
      BY <1>1, <1>2, <3>2, <3>4, <3>5 DEF Injected, Tables
    <3>9. ASSUME NEW va \in Addrs PROVE walk_page_table(va)' = walk_page_table(va)
      <4>1. va[1] \in {0, 1} /\ va[2] \in {0, 1}
        BY Indices
      <4>2. CASE va[1] = 0
        <5>1. walk_page_table(va) = None
          BY <2>2, <4>2, Walk DEF First
        <5>2. First(va)' = e
          BY <3>4, <4>2 DEF First
        <5>3. Second(va)' = mem'["SMP_PDPT"][va[2]]
          BY <3>2, <5>2 DEF Second
        <5>4. ~Second(va)'.p
          BY <1>2, <3>5, <4>1, <5>3 DEF Tables
        <5>5. walk_page_table(va)' = None
          <6>1. walk_page_table(va)' = IF ~First(va)'.p THEN None ELSE
                    IF ~Second(va)'.p THEN None ELSE walk_page_table(va)'
            BY NoLeaf DEF walk_page_table, First, Second, Leaf
          <6>2. QED
            BY <5>4, <6>1
        <5>6. QED
          BY <5>1, <5>5
      <4>3. CASE va[1] = 1
        <5>1. First(va)' = First(va)
          BY <3>6, <4>3 DEF First
        <5>2. First(va).p => First(va).table = "HIGH" /\ ~Deeper(Second(va))
          BY <1>2, <4>3, Paths
        <5>3. First(va).p => Second(va)' = Second(va)
          BY <3>5, <4>1, <5>1, <5>2 DEF Second, Tables
        <5>4. QED
          BY <5>1, <5>2, <5>3, WalkSame
      <4>4. QED
        BY <4>1, <4>2, <4>3
    <3>10. QED
      BY <3>7, <3>8, <3>9
  <2>3. QED
    BY <2>1, <2>2
<1>4. Exact'
  BY <1>1, <1>2, <1>3 DEF Exact
<1>5. QED
  BY <1>1, <1>3, <1>4 DEF PageInv

\* The same, one level down.
LEMMA InjectPdOK ==
    ASSUME PageInv, InjectPd
    PROVE  PageInv'
<1>1. op = "pdpt" /\ op' = "pd" /\ UNCHANGED <<tlb, intent>>
  BY DEF InjectPd, Goto
<1>2. Shape /\ Exact /\ mem["PML4"][0].p /\ ~mem["SMP_PD"][0].p /\ ~mem["SMP_PD"][1].p
  BY <1>1 DEF PageInv, Shape, Injected
<1>3. PICK t : t = mem["PML4"][0].table
  OBVIOUS
<1>4. t \in {"PDPT", "SMP_PDPT"}
  BY <1>2, <1>3 DEF Shape, PointsInto
<1>5. Shape' /\ Injected' /\ \A va \in Addrs : walk_page_table(va)' = walk_page_table(va)
  <2>1. CASE Pdpt0.p
    <3>1. mem' = mem
      BY <2>1 DEF InjectPd
    <3>2. Injected'
      BY <1>1, <1>2, <2>1, <3>1 DEF Injected, Pdpt0
    <3>3. QED
      BY <1>2, <3>1, <3>2, TablesSame
  <2>2. CASE ~Pdpt0.p
    <3>1. PICK e : e = Points("SMP_PD")
      OBVIOUS
    <3>2. e \in EntryRecords /\ e.p /\ ~e.huge /\ e.table = "SMP_PD"
      BY <3>1, NewEntries DEF Tables
    <3>3. mem' = [mem EXCEPT ![t][0] = e] /\ ~mem[t][0].p
      BY <1>3, <2>2, <3>1 DEF InjectPd, Pdpt0
    <3>4. /\ mem' \in [Tables -> [Idx -> EntryRecords]] /\ mem'[t][0] = e
          /\ \A s \in Tables : \A j \in Idx : s # t \/ j # 0 => mem'[s][j] = mem[s][j]
      <4>1. t \in Tables /\ 0 \in Idx /\ mem \in [Tables -> [Idx -> EntryRecords]]
        BY <1>2, <1>4 DEF Tables, Idx, Shape
      <4>2. QED
        BY <3>2, <3>3, <4>1, Written
    <3>5. /\ \A s \in Tables \ {t} : mem'[s][0] = mem[s][0] /\ mem'[s][1] = mem[s][1]
          /\ mem'[t][1] = mem[t][1]
      BY <1>4, <3>4 DEF Idx, Tables
    <3>6. /\ \A s \in Tables \ {"PDPT", "SMP_PDPT"} :
                mem'[s][0] = mem[s][0] /\ mem'[s][1] = mem[s][1]
          /\ \A s \in {"PDPT", "SMP_PDPT"} : /\ mem'[s][1] = mem[s][1]
                                             /\ mem'[s][0] = e \/ mem'[s][0] = mem[s][0]
      BY <1>4, <3>4, <3>5 DEF Tables
    <3>7. Shape'
      BY <1>2, <3>2, <3>4, <3>6 DEF Shape, Tables, PointsInto, Ends, Either
    <3>8. Injected'
      <4>1. mem'["PML4"][0] = mem["PML4"][0] /\ mem'["SMP_PD"][0] = mem["SMP_PD"][0]
        BY <3>6 DEF Tables
      <4>2. Pdpt0' = e
        BY <1>3, <3>4, <4>1 DEF Pdpt0
      <4>3. QED
        BY <1>1, <1>2, <3>2, <4>1, <4>2 DEF Injected
    <3>9. ASSUME NEW va \in Addrs PROVE walk_page_table(va)' = walk_page_table(va)
      <4>1. va[1] \in {0, 1} /\ va[2] \in {0, 1} /\ va[3] \in {0, 1}
        BY Indices
      <4>2. First(va)' = First(va)
        BY <3>6, <4>1 DEF First, Tables
      <4>3. CASE va[1] = 0 /\ va[2] = 0
        <5>1. Second(va) = mem[t][0] /\ First(va).p
          BY <1>2, <1>3, <4>3 DEF First, Second
        <5>2. ~Second(va).p /\ ~Deeper(Second(va))
          BY <3>3, <5>1 DEF Deeper
        <5>3. walk_page_table(va) = None
          BY <5>1, <5>2, Walk, NoLeaf
        <5>4. Second(va)' = e
          BY <1>3, <3>4, <4>2, <4>3 DEF First, Second
        <5>5. Third(va)' = mem'["SMP_PD"][va[3]]
          BY <3>2, <5>4 DEF Third
        <5>6. ~Third(va)'.p
          BY <1>2, <3>6, <4>1, <5>5 DEF Tables
        <5>7. walk_page_table(va)' = None
          <6>1. walk_page_table(va)' =
                  IF First(va)'.p /\ Second(va)'.p /\ ~Second(va)'.huge /\ ~Third(va)'.p
                  THEN None ELSE walk_page_table(va)'
            BY DEF walk_page_table, First, Second, Third, Leaf
          <6>2. QED
            BY <3>2, <4>2, <5>1, <5>4, <5>6, <6>1
        <5>8. QED
          BY <5>3, <5>7
      <4>4. CASE va[1] = 1 \/ va[2] = 1
        <5>1. First(va).p => First(va).table \in Tables
          BY <1>2, <4>1, Paths DEF Tables
        <5>2. First(va).p => /\ ~Deeper(Second(va))
                             /\ First(va).table \in IF va[1] = 0 THEN {"PDPT", "SMP_PDPT"} ELSE {"HIGH"}
          BY <1>2, <4>4, Paths
        <5>3. First(va).p => Second(va)' = Second(va)
          BY <3>6, <4>1, <4>2, <4>4, <5>2 DEF Second, Tables
        <5>4. QED
          BY <4>2, <5>2, <5>3, WalkSame
      <4>5. QED
        BY <4>1, <4>3, <4>4
    <3>10. QED
      BY <3>7, <3>8, <3>9
  <2>3. QED
    BY <2>1, <2>2
<1>6. Exact'
  BY <1>1, <1>2, <1>5 DEF Exact
<1>7. QED
  BY <1>1, <1>5, <1>6 DEF PageInv

\* The page a walk ends in.
LEMMA PageFound ==
    ASSUME NEW va
    PROVE  walk_page_table(va).page =
             IF ~First(va).p \/ ~Second(va).p THEN 99
             ELSE IF Second(va).huge THEN Second(va).page + (2 * va[3] + va[4])
             ELSE IF ~Third(va).p THEN 99
             ELSE IF Third(va).huge THEN Third(va).page + va[4]
             ELSE IF ~Fourth(va).p THEN 99 ELSE Fourth(va).page + 0
  BY DEF walk_page_table, First, Second, Third, Fourth, Leaf, None

\* The first 2 MB.
LEMMA LowPages ==
    ASSUME NEW va \in Addrs
    PROVE  /\ va \in Low2MB <=> va[1] = 0 /\ va[2] = 0 /\ va[3] = 0
           /\ Page(va) \in Nat
           /\ va[1] = 0 /\ va[2] = 0 => Page(va) = 2 * va[3] + va[4]
  BY Indices DEF Low2MB, Page

\* The first 2 MB become themselves, and no other address is touched.
LEMMA MapLowOK ==
    ASSUME PageInv, MapLow
    PROVE  PageInv'
<1>1. op = "pd" /\ op' = "reload" /\ tlb' = tlb
  BY DEF MapLow, Goto
<1>2. Shape /\ Exact /\ mem["PML4"][0].p /\ Pdpt0.p /\ ~mem["SMP_PD"][1].p
  BY <1>1 DEF PageInv, Shape, Injected
<1>3. intent \in [Addrs -> Nat]
  BY DEF PageInv
<1>4. intent' = [va \in Addrs |-> IF va \in Low2MB THEN Page(va) ELSE intent[va]]
  BY DEF MapLow
<1>5. intent' \in [Addrs -> Nat]
  BY <1>3, <1>4, LowPages
<1>6. PICK t : t = mem["PML4"][0].table
  OBVIOUS
<1>7. t \in {"PDPT", "SMP_PDPT"} /\ Pdpt0 = mem[t][0]
  BY <1>2, <1>6 DEF Shape, PointsInto, Pdpt0
<1>8. ASSUME NEW va \in Addrs, va[1] = 0, va[2] = 0 PROVE First(va).p /\ Second(va) = Pdpt0
  BY <1>2, <1>6, <1>7, <1>8 DEF First, Second
<1>9. Injected'
  BY <1>1 DEF Injected
<1>10. Shape' /\ \A va \in Addrs : walk_page_table(va).page' =
                     IF va \in Low2MB THEN Page(va) ELSE walk_page_table(va).page
  <2>1. CASE Pdpt0.huge
    <3>1. mem' = mem
      BY <2>1 DEF MapLow
    <3>2. Pdpt0.page = 0
      BY <1>2, <1>7, <2>1 DEF Shape, PointsInto
    <3>3. ASSUME NEW va \in Addrs, va \in Low2MB PROVE walk_page_table(va).page = Page(va)
      <4>1. va[1] = 0 /\ va[2] = 0 /\ Page(va) = 2 * va[3] + va[4] /\ Page(va) \in Nat
        BY <3>3, LowPages
      <4>2. walk_page_table(va).page = 0 + (2 * va[3] + va[4])
        BY <1>2, <1>8, <2>1, <3>2, <4>1, PageFound
      <4>3. QED
        BY <4>1, <4>2
    <3>4. QED
      BY <1>2, <3>1, <3>3, TablesSame
  <2>2. CASE ~Pdpt0.huge
    <3>1. PICK d : d = Pdpt0.table
      OBVIOUS
    <3>2. d \in {"PD", "SMP_PD"}
      BY <1>2, <1>7, <2>2, <3>1 DEF Shape, PointsInto, Either
    <3>3. PICK e : e = Maps(0, TRUE)
      OBVIOUS
    <3>4. e \in EntryRecords /\ e.p /\ e.huge = TRUE /\ e.page = 0
      BY <3>3, NewEntries, PageNumbers
    <3>5. mem' = [mem EXCEPT ![d][0] = e]
      BY <2>2, <3>1, <3>3 DEF MapLow
    <3>6. /\ mem' \in [Tables -> [Idx -> EntryRecords]] /\ mem'[d][0] = e
          /\ \A s \in Tables : \A j \in Idx : s # d \/ j # 0 => mem'[s][j] = mem[s][j]
      <4>1. d \in Tables /\ 0 \in Idx /\ mem \in [Tables -> [Idx -> EntryRecords]]
        BY <1>2, <3>2 DEF Tables, Idx, Shape
      <4>2. QED
        BY <3>4, <3>5, <4>1, Written
    <3>7. /\ \A s \in Tables \ {"PD", "SMP_PD"} :
                mem'[s][0] = mem[s][0] /\ mem'[s][1] = mem[s][1]
          /\ \A s \in {"PD", "SMP_PD"} : /\ mem'[s][1] = mem[s][1]
                                         /\ mem'[s][0] = e \/ mem'[s][0] = mem[s][0]
      BY <3>2, <3>6 DEF Tables, Idx
    <3>8. Shape'
      BY <1>2, <3>4, <3>6, <3>7 DEF Shape, Tables, PointsInto, Ends, Either
    <3>9. ASSUME NEW va \in Addrs
          PROVE  walk_page_table(va).page' =
                     IF va \in Low2MB THEN Page(va) ELSE walk_page_table(va).page
      <4>1. va[1] \in {0, 1} /\ va[2] \in {0, 1} /\ va[3] \in {0, 1} /\ va[4] \in {0, 1}
        BY Indices
      <4>2. First(va)' = First(va)
        BY <3>7, <4>1 DEF First, Tables
      <4>3. First(va).p => Second(va)' = Second(va)
        <5>1. First(va).p => First(va).table \in Tables \ {"PD", "SMP_PD"}
          BY <1>2, <4>1, Paths DEF Tables
        <5>2. QED
          BY <3>7, <4>1, <4>2, <5>1 DEF Second
      <4>4. CASE va \in Low2MB
        <5>1. va[1] = 0 /\ va[2] = 0 /\ va[3] = 0
          BY <4>4, LowPages
        <5>2. First(va).p /\ Second(va) = Pdpt0
          BY <1>8, <5>1
        <5>3. First(va)'.p /\ Second(va)' = Pdpt0
          BY <4>2, <4>3, <5>2
        <5>4. Third(va)' = e
          BY <3>1, <3>6, <5>1, <5>3 DEF Third
        <5>5. walk_page_table(va).page' =
                IF First(va)'.p /\ Second(va)'.p /\ ~Second(va)'.huge /\ Third(va)'.p
                     /\ Third(va)'.huge
                THEN Third(va)'.page + va[4] ELSE walk_page_table(va).page'
          BY DEF walk_page_table, First, Second, Third, Leaf
        <5>6. walk_page_table(va).page' = 0 + va[4]
          BY <1>2, <2>2, <3>4, <5>3, <5>4, <5>5
        <5>7. Page(va) = va[4]
          BY <4>1, <5>1, LowPages
        <5>8. QED
          BY <4>1, <4>4, <5>6, <5>7
      <4>5. CASE va \notin Low2MB
        <5>1. ~(va[1] = 0 /\ va[2] = 0 /\ va[3] = 0)
          BY <4>5, LowPages
        <5>2. First(va).p /\ Deeper(Second(va)) =>
                 va[1] = 0 /\ va[2] = 0 /\ Second(va).table \in {"PD", "SMP_PD"}
          BY <1>2, Paths
        <5>3. First(va).p /\ Deeper(Second(va)) => Third(va)' = Third(va)
          BY <3>7, <4>1, <4>3, <5>1, <5>2 DEF Third
        <5>4. First(va).p /\ Deeper(Second(va)) /\ Deeper(Third(va)) =>
                Third(va).table \in Tables \ {"PD", "SMP_PD"}
          BY <1>2, Paths DEF Tables
        <5>5. First(va).p /\ Deeper(Second(va)) /\ Deeper(Third(va)) => Fourth(va)' = Fourth(va)
          BY <3>7, <4>1, <5>3, <5>4 DEF Fourth
        <5>6. walk_page_table(va)' = walk_page_table(va)
          BY <4>2, <4>3, <5>3, <5>5, WalkSame
        <5>7. QED
          BY <4>5, <5>6
      <4>6. QED
        BY <4>4, <4>5
    <3>10. QED
      BY <3>8, <3>9
  <2>3. QED
    BY <2>1, <2>2
<1>11. Exact'
  BY <1>2, <1>4, <1>10 DEF Exact
<1>12. QED
  BY <1>1, <1>5, <1>9, <1>10, <1>11 DEF PageInv

\* No translation is a translation.
LEMMA NoneType == None \in Translations
  BY DEF None, Translations

\* What a walk returns.
LEMMA WalkType ==
    ASSUME Shape, NEW va \in Addrs
    PROVE  walk_page_table(va) \in Translations
<1>1. va[3] \in {0, 1} /\ va[4] \in {0, 1}
  BY Indices
<1>2. ASSUME NEW e \in EntryRecords, NEW n \in Nat, NEW u PROVE Leaf(e, n, u) \in Translations
  <2>1. e.page \in Pages
    BY DEF EntryRecords
  <2>2. e.page + n \in Nat
    BY <2>1 DEF Pages
  <2>3. QED
    BY <2>2, NoneType DEF Leaf, Translations
<1>3. None \in Translations
  BY DEF None, Translations
<1>4. 2 * va[3] + va[4] \in Nat /\ va[4] \in Nat /\ 0 \in Nat
  BY <1>1
<1>5. QED
  BY <1>2, <1>3, <1>4, Walk, Paths

\* Steps that write no entry: what is left to show is about the TLB.
LEMMA NoWrite ==
    ASSUME PageInv, UNCHANGED <<mem, intent>>, Injected',
           op' \in {"boot", "pdpt", "pd", "reload", "copy", "kernel", "invlpg", "unlock", "unlocked"},
           op' = "invlpg" => todo' \in Seq(Addrs) /\ todo' # <<>>,
           op' = "unlock" => todo' \in Seq(Tables \X Idx),
           tlb' \in [Watched -> Translations],
           op' \in {"boot", "copy", "kernel", "invlpg", "unlocked"} => Coherent'
    PROVE  PageInv'
<1>1. Shape' /\ \A va : walk_page_table(va)' = walk_page_table(va)
  BY TablesSame DEF PageInv
<1>2. Exact'
  BY <1>1 DEF PageInv, Exact
<1>3. QED
  BY <1>1, <1>2 DEF PageInv

\* The processor caches a translation, or drops one.
LEMMA TlbOK ==
    ASSUME PageInv, TlbFill \/ TlbEvict
    PROVE  PageInv'
<1>1. UNCHANGED <<mem, intent, op, todo>>
  BY DEF TlbFill, TlbEvict
<1>2. PICK v \in Watched : \E x \in {None, walk_page_table(v)} : tlb' = [tlb EXCEPT ![v] = x]
  BY DEF TlbFill, TlbEvict
<1>3. Shape /\ tlb \in [Watched -> Translations] /\ v \in Addrs
  BY <1>2, PageAssumption DEF PageInv
<1>4. PICK x \in {None, walk_page_table(v)} : tlb' = [tlb EXCEPT ![v] = x]
  BY <1>2
<1>5. x \in Translations
  BY <1>3, <1>4, WalkType, NoneType
<1>6. tlb' \in [Watched -> Translations] /\ tlb'[v] = x
      /\ \A va \in Watched \ {v} : tlb'[va] = tlb[va]
  BY <1>3, <1>4, <1>5
<1>7. Coherent => Coherent'
  <2>1. Stale' = Stale /\ \A va : walk_page_table(va)' = walk_page_table(va)
    BY <1>1, <1>3, TablesSame DEF Stale
  <2>2. QED
    BY <1>4, <1>6, <2>1 DEF Coherent
<1>8. Injected'
  BY <1>1 DEF PageInv, Injected, Pdpt0
<1>9. QED
  BY <1>1, <1>6, <1>7, <1>8, NoWrite DEF PageInv

\* The trampoline is skipped or done; the tables are unlocked.
LEMMA FlushOK ==
    ASSUME PageInv, SkipTrampoline \/ ReloadCr3 \/ RestoreCr0 \/ UnlockEnd \/ UnlockBegin
    PROVE  PageInv'
<1>1. UNCHANGED <<mem, intent>>
  BY DEF SkipTrampoline, ReloadCr3, RestoreCr0, UnlockEnd, UnlockBegin
<1>2. op' \in {"copy", "kernel", "unlocked", "unlock"} /\ Injected'
  BY DEF SkipTrampoline, ReloadCr3, RestoreCr0, UnlockEnd, UnlockBegin, Goto, Injected
<1>3. tlb' = tlb \/ tlb' = Flushed
  BY DEF SkipTrampoline, ReloadCr3, RestoreCr0, UnlockEnd, UnlockBegin
<1>4. tlb' \in [Watched -> Translations]
  BY <1>3, NoneType DEF PageInv, Flushed
<1>5. op' = "unlock" => todo' \in Seq(Tables \X Idx)
  <2>1. <<"PML4", 0>> \in Tables \X Idx /\ <<"PML4", 1>> \in Tables \X Idx
    BY DEF Tables, Idx
  <2>2. Entries("PML4") \in Seq(Tables \X Idx)
    BY <2>1 DEF Entries
  <2>3. QED
    BY <2>2 DEF SkipTrampoline, ReloadCr3, RestoreCr0, UnlockEnd, UnlockBegin, Goto
<1>6. op' \in {"copy", "kernel", "unlocked"} => Coherent'
  <2>1. CASE SkipTrampoline \/ RestoreCr0
    <3>1. Coherent /\ UNCHANGED <<mem, tlb>> /\ op \in {"boot", "copy"} /\ op' = "kernel"
      BY <2>1 DEF SkipTrampoline, RestoreCr0, Goto, PageInv
    <3>2. \A va : walk_page_table(va)' = walk_page_table(va)
      BY <3>1, TablesSame DEF PageInv
    <3>3. QED
      BY <3>1, <3>2 DEF Coherent, Stale
  <2>2. CASE ReloadCr3 \/ UnlockEnd
    <3>1. tlb' = Flushed
      BY <2>2 DEF ReloadCr3, UnlockEnd
    <3>2. QED
      BY <3>1 DEF Coherent, Flushed
  <2>3. CASE UnlockBegin
    BY <2>3 DEF UnlockBegin, Goto
  <2>4. QED
    BY <2>1, <2>2, <2>3
<1>7. QED
  BY <1>1, <1>2, <1>4, <1>5, <1>6, NoWrite

\* invlpg drops the one translation that was stale.
LEMMA InvlpgOK ==
    ASSUME PageInv, Invlpg
    PROVE  PageInv'
<1>1. op = "invlpg" /\ op' = "kernel" /\ UNCHANGED <<mem, intent>>
      /\ tlb' = [va \in Watched |-> IF va = Head(todo) THEN None ELSE tlb[va]]
  BY DEF Invlpg, Goto
<1>2. Shape /\ Coherent /\ tlb \in [Watched -> Translations]
  BY <1>1 DEF PageInv
<1>3. None \in Translations
  BY DEF None, Translations
<1>4. tlb' \in [Watched -> Translations]
  BY <1>1, <1>2, <1>3
<1>5. \A va : walk_page_table(va)' = walk_page_table(va)
  BY <1>1, <1>2, TablesSame
<1>6. Coherent'
  BY <1>1, <1>2, <1>5 DEF Coherent, Stale
<1>7. Injected'
  BY <1>1 DEF Injected
<1>8. QED
  BY <1>1, <1>4, <1>6, <1>7, NoWrite

\* map_page writes the entry of one address, which no other address uses.
LEMMA MapPageOK ==
    ASSUME PageInv, NEW v \in Watched, NEW n \in NewFrames, MapPage(v, n)
    PROVE  PageInv'
<1>1. /\ TableOf(v) # "none" /\ op' = "invlpg" /\ op = "kernel"
      /\ mem' = [mem EXCEPT ![TableOf(v)][v[4]] = Maps(n, FALSE)]
      /\ intent' = [intent EXCEPT ![v] = n] /\ todo' = <<v>> /\ tlb' = tlb
  BY DEF MapPage, Goto
<1>2. v \in Addrs /\ n \in Nat /\ n \in Pages
  BY PageAssumption DEF Pages
<1>3. /\ Shape /\ Exact /\ Coherent /\ intent \in [Addrs -> Nat]
      /\ tlb \in [Watched -> Translations]
  BY <1>1 DEF PageInv
<1>4. v[1] \in {0, 1} /\ v[2] \in {0, 1} /\ v[3] \in {0, 1} /\ v[4] \in {0, 1}
      /\ v = <<v[1], v[2], v[3], v[4]>>
  BY <1>2, Indices
<1>5. /\ First(v).p /\ Deeper(Second(v)) /\ Deeper(Third(v)) /\ TableOf(v) = Third(v).table
  BY <1>1 DEF TableOf, First, Second, Third, Deeper
<1>6. PICK t : t = TableOf(v)
  OBVIOUS
<1>7. t = (IF v[3] = 0 THEN "PT0" ELSE "PT1") /\ v[1] = 0 /\ v[2] = 0
  BY <1>2, <1>3, <1>5, <1>6, Paths
<1>8. PICK e : e = Maps(n, FALSE)
  OBVIOUS
<1>9. e \in EntryRecords /\ e.p /\ e.page = n
  BY <1>2, <1>8, NewEntries
<1>10. /\ mem' \in [Tables -> [Idx -> EntryRecords]] /\ mem'[t][v[4]] = e
       /\ \A s \in Tables : \A j \in Idx : s # t \/ j # v[4] => mem'[s][j] = mem[s][j]
  <2>1. mem' = [mem EXCEPT ![t][v[4]] = e]
    BY <1>1, <1>6, <1>8
  <2>2. t \in Tables /\ v[4] \in Idx /\ mem \in [Tables -> [Idx -> EntryRecords]]
    BY <1>3, <1>4, <1>7 DEF Tables, Idx, Shape
  <2>3. QED
    BY <1>9, <2>1, <2>2, Written
<1>11. \A s \in Tables \ {"PT0", "PT1"} : mem'[s][0] = mem[s][0] /\ mem'[s][1] = mem[s][1]
  BY <1>7, <1>10 DEF Idx
<1>12. Shape'
  BY <1>3, <1>10, <1>11 DEF Shape, Tables
<1>13. ASSUME NEW va \in Addrs
       PROVE  /\ First(va)' = First(va)
              /\ First(va).p => Second(va)' = Second(va)
              /\ First(va).p /\ Deeper(Second(va)) => Third(va)' = Third(va)
  <2>1. va[1] \in {0, 1} /\ va[2] \in {0, 1} /\ va[3] \in {0, 1}
    BY Indices
  <2>2. First(va)' = First(va)
    BY <1>11, <2>1 DEF First, Tables
  <2>3. First(va).p => First(va).table \in Tables \ {"PT0", "PT1"}
    BY <1>3, <2>1, Paths DEF Tables
  <2>4. First(va).p => Second(va)' = Second(va)
    BY <1>11, <2>1, <2>2, <2>3 DEF Second
  <2>5. First(va).p /\ Deeper(Second(va)) => Second(va).table \in Tables \ {"PT0", "PT1"}
    BY <1>3, Paths DEF Tables
  <2>6. First(va).p /\ Deeper(Second(va)) => Third(va)' = Third(va)
    BY <1>11, <2>1, <2>4, <2>5 DEF Third
  <2>7. QED
    BY <2>2, <2>4, <2>6
<1>14. ASSUME NEW va \in Addrs, va # v PROVE walk_page_table(va)' = walk_page_table(va)
  <2>1. /\ va[1] \in {0, 1} /\ va[2] \in {0, 1} /\ va[3] \in {0, 1} /\ va[4] \in {0, 1}
        /\ va = <<va[1], va[2], va[3], va[4]>>
    BY Indices
  <2>2. ASSUME First(va).p, Deeper(Second(va)), Deeper(Third(va)) PROVE Fourth(va)' = Fourth(va)
    <3>1. /\ va[1] = 0 /\ va[2] = 0 /\ Third(va).table = (IF va[3] = 0 THEN "PT0" ELSE "PT1")
      BY <1>3, <2>2, Paths
    <3>2. va[3] # v[3] \/ va[4] # v[4]
      BY <1>4, <1>7, <1>14, <2>1, <3>1
    <3>3. Third(va).table # t \/ va[4] # v[4]
      BY <1>4, <1>7, <2>1, <3>1, <3>2
    <3>4. Third(va)' = Third(va) /\ Third(va).table \in Tables /\ va[4] \in Idx
      BY <1>13, <2>1, <2>2, <3>1 DEF Tables, Idx
    <3>5. QED
      BY <1>10, <3>3, <3>4 DEF Fourth
  <2>3. QED
    BY <1>13, <2>2, WalkSame
<1>15. walk_page_table(v).page' = n
  <2>1. /\ First(v)' = First(v) /\ Second(v)' = Second(v) /\ Third(v)' = Third(v)
    BY <1>2, <1>5, <1>13
  <2>2. Fourth(v)' = e
    BY <1>5, <1>6, <1>10, <2>1 DEF Fourth
  <2>3. walk_page_table(v).page' =
          IF First(v)'.p /\ Second(v)'.p /\ ~Second(v)'.huge /\ Third(v)'.p /\ ~Third(v)'.huge
               /\ Fourth(v)'.p
          THEN Fourth(v)'.page + 0 ELSE walk_page_table(v).page'
    BY DEF walk_page_table, First, Second, Third, Fourth, Leaf
  <2>4. walk_page_table(v).page' = n + 0
    BY <1>5, <1>9, <2>1, <2>2, <2>3 DEF Deeper
  <2>5. QED
    BY <1>2, <2>4
<1>16. Exact'
  BY <1>1, <1>2, <1>3, <1>14, <1>15 DEF Exact
<1>17. Coherent'
  <2>1. Head(todo') = v
    BY <1>1
  <2>2. ASSUME NEW va \in Watched \ {v} PROVE tlb'[va] \in {None, walk_page_table(va)'}
    <3>1. va \in Addrs /\ va # v /\ tlb[va] \in {None, walk_page_table(va)}
      BY <1>1, <1>3, PageAssumption DEF Coherent, Stale
    <3>2. QED
      BY <1>1, <1>14, <3>1
  <2>3. QED
    BY <1>1, <2>1, <2>2 DEF Coherent, Stale
<1>18. Injected' /\ intent' \in [Addrs -> Nat] /\ todo' \in Seq(Addrs) /\ todo' # <<>>
  BY <1>1, <1>2, <1>3 DEF Injected
<1>19. QED
  BY <1>1, <1>3, <1>12, <1>16, <1>17, <1>18 DEF PageInv

\* unlock_mmu_for_ring3 changes the user bit of an entry and nothing else.
LEMMA UnlockEntryOK ==
    ASSUME PageInv, UnlockEntry
    PROVE  PageInv'
<1>1. op = "unlock" /\ op' = op /\ todo # <<>> /\ UNCHANGED <<tlb, intent>>
  BY DEF UnlockEntry
<1>2. Shape /\ Exact /\ todo \in Seq(Tables \X Idx)
  BY <1>1 DEF PageInv
<1>3. Head(todo) \in Tables \X Idx /\ Tail(todo) \in Seq(Tables \X Idx)
  BY <1>1, <1>2
<1>4. PICK t \in Tables, i \in Idx : Head(todo) = <<t, i>>
  BY <1>3
<1>5. PICK e : e = mem[t][i]
  OBVIOUS
<1>6. e \in EntryRecords
  BY <1>2, <1>5 DEF Shape
<1>7. PICK g : g = [e EXCEPT !.u = TRUE]
  OBVIOUS
<1>8. g \in EntryRecords /\ g.p = e.p /\ g.huge = e.huge /\ g.table = e.table /\ g.page = e.page
  BY <1>6, <1>7 DEF EntryRecords
<1>9. Head(todo)[1] = t /\ Head(todo)[2] = i
  BY <1>4
<1>10. /\ mem' = IF e.p THEN [mem EXCEPT ![t][i].u = TRUE] ELSE mem
       /\ todo' = IF e.p /\ ~e.huge /\ t \notin PageTabs
                  THEN Entries(e.table) \o Tail(todo) ELSE Tail(todo)
  BY <1>5, <1>9, Zenon DEF UnlockEntry
<1>11. mem' = mem \/ mem' = [mem EXCEPT ![t][i] = g]
  <2>1. [mem EXCEPT ![t][i].u = TRUE] = [mem EXCEPT ![t][i] = g]
    BY <1>5, <1>7
  <2>2. QED
    BY <1>10, <2>1
<1>12. /\ mem' \in [Tables -> [Idx -> EntryRecords]]
       /\ \A s \in Tables : \A j \in Idx : /\ mem'[s][j].p = mem[s][j].p
                                         /\ mem'[s][j].huge = mem[s][j].huge
                                         /\ mem'[s][j].table = mem[s][j].table
                                         /\ mem'[s][j].page = mem[s][j].page
  <2>1. CASE mem' = mem
    BY <1>2, <2>1 DEF Shape
  <2>2. CASE mem' = [mem EXCEPT ![t][i] = g]
    <3>1. mem \in [Tables -> [Idx -> EntryRecords]]
      BY <1>2 DEF Shape
    <3>2. /\ mem' \in [Tables -> [Idx -> EntryRecords]] /\ mem'[t][i] = g
          /\ \A s \in Tables : \A j \in Idx : s # t \/ j # i => mem'[s][j] = mem[s][j]
      BY <1>8, <2>2, <3>1, Written
    <3>3. ASSUME NEW s \in Tables, NEW j \in Idx
          PROVE  /\ mem'[s][j].p = mem[s][j].p /\ mem'[s][j].huge = mem[s][j].huge
                 /\ mem'[s][j].table = mem[s][j].table /\ mem'[s][j].page = mem[s][j].page
      BY <1>5, <1>8, <3>2
    <3>4. QED
      BY <3>2, <3>3
  <2>3. QED
    BY <1>11, <2>1, <2>2
<1>13. Shape'
  <2>1. 0 \in Idx /\ 1 \in Idx
    BY DEF Idx
  <2>2. QED
    BY <1>2, <1>12, <2>1 DEF Shape, Tables, PointsInto, Ends, Either
<1>14. todo' \in Seq(Tables \X Idx)
  <2>1. CASE e.p /\ ~e.huge /\ t \notin PageTabs
    <3>1. e.table \in Tables
      BY <1>2, <1>5, <2>1 DEF Shape, Tables, Idx, PointsInto, Ends, Either, PageTabs
    <3>2. Entries(e.table) \in Seq(Tables \X Idx)
      <4>1. <<e.table, 0>> \in Tables \X Idx /\ <<e.table, 1>> \in Tables \X Idx
        BY <3>1 DEF Idx
      <4>2. QED
        BY <4>1 DEF Entries
    <3>3. todo' = Entries(e.table) \o Tail(todo)
      BY <1>10, <2>1
    <3>4. QED
      BY <1>3, <3>2, <3>3
  <2>2. CASE ~(e.p /\ ~e.huge /\ t \notin PageTabs)
    <3>1. todo' = Tail(todo)
      BY <1>10, <2>2
    <3>2. QED
      BY <1>3, <3>1
  <2>3. QED
    BY <2>1, <2>2
<1>15. ASSUME NEW va \in Addrs PROVE walk_page_table(va).page' = walk_page_table(va).page
  <2>1. va[1] \in Idx /\ va[2] \in Idx /\ va[3] \in Idx /\ va[4] \in Idx
    BY Indices DEF Idx
  <2>2. First(va)'.p = First(va).p /\ First(va)'.table = First(va).table
    BY <1>12, <2>1 DEF First, Tables
  <2>3. First(va).p => /\ Second(va)'.p = Second(va).p /\ Second(va)'.huge = Second(va).huge
                       /\ Second(va)'.table = Second(va).table
                       /\ Second(va)'.page = Second(va).page
    <3>1. First(va).p => First(va).table \in Tables
      BY <1>2, Paths DEF Tables
    <3>2. QED
      BY <1>12, <2>1, <2>2, <3>1 DEF Second
  <2>4. First(va).p /\ Deeper(Second(va)) =>
            /\ Third(va)'.p = Third(va).p /\ Third(va)'.huge = Third(va).huge
            /\ Third(va)'.table = Third(va).table /\ Third(va)'.page = Third(va).page
    <3>1. First(va).p /\ Deeper(Second(va)) => Second(va).table \in Tables
      BY <1>2, Paths DEF Tables
    <3>2. QED
      BY <1>12, <2>1, <2>3, <3>1 DEF Third
  <2>5. First(va).p /\ Deeper(Second(va)) /\ Deeper(Third(va)) =>
            Fourth(va)'.p = Fourth(va).p /\ Fourth(va)'.page = Fourth(va).page
    <3>1. First(va).p /\ Deeper(Second(va)) /\ Deeper(Third(va)) => Third(va).table \in Tables
      BY <1>2, Paths DEF Tables
    <3>2. QED
      BY <1>12, <2>1, <2>4, <3>1 DEF Fourth
  <2>6. walk_page_table(va).page' =
             IF ~First(va)'.p \/ ~Second(va)'.p THEN 99
             ELSE IF Second(va)'.huge THEN Second(va)'.page + (2 * va[3] + va[4])
             ELSE IF ~Third(va)'.p THEN 99
             ELSE IF Third(va)'.huge THEN Third(va)'.page + va[4]
             ELSE IF ~Fourth(va)'.p THEN 99 ELSE Fourth(va)'.page + 0
    BY DEF walk_page_table, First, Second, Third, Fourth, Leaf, None
  <2>7. QED
    BY <2>2, <2>3, <2>4, <2>5, <2>6, PageFound DEF Deeper
<1>16. Exact'
  BY <1>1, <1>2, <1>15 DEF Exact
<1>17. Injected'
  BY <1>1 DEF Injected
<1>18. QED
  BY <1>1, <1>13, <1>14, <1>16, <1>17 DEF PageInv

\* The pages the firmware maps.
Huge(n) == Maps(n, TRUE)
Small(n) == Maps(n, FALSE)

\* The tables a firmware hands over are a tree, and the static ones are empty.
LEMMA FirmwareShape ==
    ASSUME mem \in Firmware
    PROVE  /\ Shape
           /\ ~mem["SMP_PDPT"][0].p /\ ~mem["SMP_PD"][0].p
<1>1. mem \in [PML4 : PML4s, PDPT : PDPTs \cup {Empty}, PD : PDs \cup {Empty},
               PT0 : PT0s \cup {Empty}, PT1 : PT1s \cup {Empty},
               HIGH : {Pair(Maps(8, TRUE), Absent)}, SMP_PDPT : {Empty}, SMP_PD : {Empty}]
  BY Zenon DEF Firmware
<1>2. /\ mem["PML4"] \in PML4s /\ mem["PDPT"] \in PDPTs \cup {Empty}
      /\ mem["PD"] \in PDs \cup {Empty} /\ mem["PT0"] \in PT0s \cup {Empty}
      /\ mem["PT1"] \in PT1s \cup {Empty} /\ mem["HIGH"] = Pair(Huge(8), Absent)
      /\ mem["SMP_PDPT"] = Empty /\ mem["SMP_PD"] = Empty
  BY <1>1 DEF Huge
<1>3. mem = [t \in Tables |-> mem[t]]
  BY <1>1 DEF Tables
<1>4. Absent \in EntryRecords /\ ~Absent.p /\ ~Absent.huge
  BY PageNumbers DEF Absent, EntryRecords
<1>5. /\ \A t \in Tables : /\ Points(t) \in EntryRecords /\ Points(t).p /\ ~Points(t).huge
                            /\ Points(t).table = t
      /\ \A n \in Pages : Huge(n) \in EntryRecords /\ Huge(n).huge /\ Huge(n).page = n
      /\ \A n \in Pages : Small(n) \in EntryRecords
  BY PageNumbers DEF Points, Huge, Small, Maps, Absent, EntryRecords
<1>6. ASSUME NEW a \in EntryRecords, NEW b \in EntryRecords
      PROVE  Pair(a, b) \in [Idx -> EntryRecords] /\ Pair(a, b)[0] = a /\ Pair(a, b)[1] = b
  BY DEF Pair, Idx
<1>7. PICK a, b : /\ a \in {Absent, Points("PDPT")} /\ b \in {Absent, Points("HIGH")}
                  /\ mem["PML4"] = Pair(a, b)
  BY <1>2 DEF PML4s
<1>8. PICK c, d : /\ c \in {Absent, Points("PD"), Huge(0)} /\ d \in {Absent, Huge(4)}
                  /\ mem["PDPT"] = Pair(c, d)
  BY <1>2 DEF PDPTs, Empty, Huge
<1>9. PICK e, f : /\ e \in {Absent, Points("PT0"), Huge(0)} /\ f \in {Absent, Points("PT1"), Huge(2)}
                  /\ mem["PD"] = Pair(e, f)
  <2>1. PDs = {Pair(e, f) : e \in {Absent, Points("PT0"), Huge(0)}, f \in {Points("PT1"), Huge(2)}}
    BY DEF PDs, Huge
  <2>2. QED
    BY <1>2, <2>1 DEF Empty
<1>10. mem["PT0"] \in [Idx -> EntryRecords] /\ mem["PT1"] \in [Idx -> EntryRecords]
  <2>1. /\ PT0s = {Pair(x, Small(1)) : x \in {Absent, Small(0)}}
        /\ PT1s = {Pair(Small(2), x) : x \in {Absent, Small(3)}}
    BY DEF PT0s, PT1s, Small
  <2>2. {Small(0), Small(1), Small(2), Small(3), Absent} \subseteq EntryRecords
    BY <1>4, <1>5, PageNumbers
  <2>3. ASSUME NEW t, t \in PT0s \cup PT1s \cup {Empty} PROVE t \in [Idx -> EntryRecords]
    <3>1. PICK x \in EntryRecords, y \in EntryRecords : t = Pair(x, y)
      BY <2>1, <2>2, <2>3 DEF Empty
    <3>2. QED
      BY <1>6, <3>1
  <2>4. QED
    BY <1>2, <2>3
<1>11. /\ mem["HIGH"] \in [Idx -> EntryRecords]
       /\ mem["HIGH"][0] = Huge(8) /\ mem["HIGH"][1] = Absent
  <2>1. Huge(8) \in EntryRecords
    BY <1>5, PageNumbers
  <2>2. QED
    BY <1>2, <1>4, <1>6, <2>1
<1>12. /\ mem["SMP_PDPT"] \in [Idx -> EntryRecords] /\ mem["SMP_PD"] \in [Idx -> EntryRecords]
       /\ mem["SMP_PDPT"][0] = Absent /\ mem["SMP_PDPT"][1] = Absent
       /\ mem["SMP_PD"][0] = Absent /\ mem["SMP_PD"][1] = Absent
  BY <1>2, <1>4, <1>6 DEF Empty
<1>13. /\ mem["PML4"] \in [Idx -> EntryRecords] /\ mem["PML4"][0] = a /\ mem["PML4"][1] = b
  <2>1. a \in EntryRecords /\ b \in EntryRecords
    BY <1>4, <1>5, <1>7 DEF Tables
  <2>2. QED
    BY <1>6, <1>7, <2>1
<1>14. /\ mem["PDPT"] \in [Idx -> EntryRecords] /\ mem["PDPT"][0] = c /\ mem["PDPT"][1] = d
  <2>1. c \in EntryRecords /\ d \in EntryRecords
    BY <1>4, <1>5, PageNumbers, <1>8 DEF Tables
  <2>2. QED
    BY <1>6, <1>8, <2>1
<1>15. /\ mem["PD"] \in [Idx -> EntryRecords] /\ mem["PD"][0] = e /\ mem["PD"][1] = f
  <2>1. e \in EntryRecords /\ f \in EntryRecords
    BY <1>4, <1>5, PageNumbers, <1>9 DEF Tables
  <2>2. QED
    BY <1>6, <1>9, <2>1
<1>16. mem \in [Tables -> [Idx -> EntryRecords]]
  <2>1. \A t \in Tables : mem[t] \in [Idx -> EntryRecords]
    BY <1>10, <1>11, <1>12, <1>13, <1>14, <1>15 DEF Tables
  <2>2. QED
    BY <1>3, <2>1
<1>17. PointsInto(a, {"PDPT", "SMP_PDPT"}) /\ PointsInto(b, {"HIGH"})
  BY <1>4, <1>5, PageNumbers, <1>7 DEF PointsInto, Tables
<1>18. Either(c, {"PD", "SMP_PD"}) /\ Ends(d) /\ (c.huge => c.page = 0)
  BY <1>4, <1>5, PageNumbers, <1>8 DEF Either, Ends, Tables
<1>19. Either(e, {"PT0"}) /\ Either(f, {"PT1"})
  BY <1>4, <1>5, PageNumbers, <1>9 DEF Either, Tables
<1>20. Ends(Huge(8)) /\ Ends(Absent) /\ PointsInto(Absent, {"SMP_PD"})
  BY <1>4, <1>5, PageNumbers DEF Ends, PointsInto
<1>21. QED
  BY <1>4, <1>11, <1>12, <1>13, <1>14, <1>15, <1>16, <1>17, <1>18, <1>19, <1>20 DEF Shape

\* The page tables: a tree whose walk gives each address its intended page, and a TLB
\* that is behind it only inside an operation that ends in a flush.
THEOREM TablesCorrect == Spec => []PageInv
<1>1. Init => PageInv
  <2> SUFFICES ASSUME Init PROVE PageInv
    OBVIOUS
  <2>1. /\ mem \in Firmware /\ op = "boot" /\ tlb = [va \in Watched |-> None]
        /\ intent = [va \in Addrs |-> walk_page_table(va).page]
    BY DEF Init, PageInit
  <2>2. Shape /\ Injected
    BY <2>1, FirmwareShape DEF Injected
  <2>3. intent \in [Addrs -> Nat]
    <3>1. \A va \in Addrs : walk_page_table(va).page \in Nat
      BY <2>2, WalkType DEF Translations
    <3>2. QED
      BY <2>1, <3>1
  <2>4. Exact
    BY <2>1 DEF Exact
  <2>5. tlb \in [Watched -> Translations] /\ Coherent
    BY <2>1, NoneType DEF Coherent
  <2>6. QED
    BY <2>3, <2>4, <2>5, <2>1, <2>2 DEF PageInv
<1>2. PageInv /\ [Next]_vars => PageInv'
  <2> SUFFICES ASSUME PageInv, [Next]_vars PROVE PageInv'
    OBVIOUS
  <2>1. CASE UNCHANGED pageVars
    <3>1. UNCHANGED <<mem, tlb, op, todo, intent>>
      BY <2>1 DEF pageVars
    <3>2. \A va : walk_page_table(va)' = walk_page_table(va)
      BY <3>1, TablesSame DEF PageInv
    <3>3. Injected' /\ (Coherent => Coherent')
      BY <3>1, <3>2 DEF PageInv, Injected, Pdpt0, Coherent, Stale
    <3>4. QED
      BY <3>1, <3>3, NoWrite DEF PageInv
  <2>2. CASE bootAndDrop
    <3>1. CASE SkipTrampoline \/ ReloadCr3 \/ RestoreCr0 \/ UnlockEnd
      BY <3>1, FlushOK
    <3>2. CASE InjectPdpt \/ InjectPd \/ MapLow
      BY <3>2, InjectPdptOK, InjectPdOK, MapLowOK
    <3>3. CASE Invlpg \/ UnlockEntry
      BY <3>3, InvlpgOK, UnlockEntryOK
    <3>4. CASE DropToUsermode
      BY <2>1, <3>4 DEF DropToUsermode
    <3>5. QED
      BY <2>2, <3>1, <3>2, <3>3, <3>4 DEF bootAndDrop, copy_trampoline, unlock_mmu_for_ring3
  <2>3. CASE callMap
    BY <2>3, MapPageOK DEF callMap
  <2>4. CASE click
    BY <2>4, FlushOK DEF click
  <2>5. CASE user \/ Interrupt \/ Iretq
    BY <2>1, <2>5 DEF user, Syscall, Fault, Spin, gate, GateEntry, SyscallHandler, GateExit,
       Interrupt, Iretq
  <2>6. CASE processor
    BY <2>6, TlbOK DEF processor
  <2>7. QED
    BY <2>4, <2>5, <2>6, <2>1, <2>2, <2>3 DEF Next, vars
<1>3. QED
  BY <1>1, <1>2, PTL DEF Spec

\* copy_trampoline, map_page and unlock_mmu_for_ring3 give every address the page it is
\* meant to have and move no other one.
THEOREM TranslationsExact == Spec => []TranslationExact
<1>1. PageInv => TranslationExact
  BY DEF PageInv, Exact, TranslationExact
<1>2. QED
  BY <1>1, TablesCorrect, PTL

\* Between operations the TLB holds nothing the tables do not say.
THEOREM TlbIsCoherent == Spec => []TlbCoherent
<1>1. PageInv => TlbCoherent
  BY DEF PageInv, Coherent, Stale, TlbCoherent, Quiet
<1>2. QED
  BY <1>1, TablesCorrect, PTL

-----------------------------------------------------------------------------
(* The task.                                                                *)

\* unlock_mmu_for_ring3 has still to visit an entry.
Pending(t, i) == \E k \in 1 .. Len(todo) : todo[k] = <<t, i>>

\* Down the path of an address, each entry is pending, or open to user mode with the
\* same true of what it points to.
Behind(va) ==
    Deeper(Third(va)) /\ Fourth(va).p => Pending(Third(va).table, va[4]) \/ Fourth(va).u
Below(va) ==
    Deeper(Second(va)) /\ Third(va).p =>
        Pending(Second(va).table, va[3]) \/ (Third(va).u /\ Behind(va))
Under(va) ==
    Second(va).p => Pending(First(va).table, va[2]) \/ (Second(va).u /\ Below(va))
OnTheWay(va) == First(va).p => Pending("PML4", va[1]) \/ (First(va).u /\ Under(va))

Open(va) == walk_page_table(va) = None \/ walk_page_table(va).user

\* The tables when the task runs, the segments interrupts are taken with, and the only
\* fault there can be.
TaskInv ==
    /\ op = "unlock" => \A va \in Addrs : OnTheWay(va)
    /\ op = "unlocked" => \A va \in Addrs : Open(va)
    /\ image \in Watched \ Low2MB /\ intent[image] # None.page
    /\ mode = "kernel" => ss = KernelData /\ frame \in {0, KernelData}
    /\ mode # "kernel" => op = "unlocked"
    /\ mode = "panic" => NullUnmapped

\* What one step of unlock_mmu_for_ring3 does to an entry: it stays pending or is
\* open, and then what it points to is pending.
LEMMA UnlockStep ==
    ASSUME PageInv, UnlockEntry
    PROVE  \A s \in Tables : \A j \in Idx :
             /\ mem'[s][j].p = mem[s][j].p /\ mem'[s][j].huge = mem[s][j].huge
             /\ mem'[s][j].table = mem[s][j].table
             /\ mem[s][j].u => mem'[s][j].u
             /\ Pending(s, j) /\ mem[s][j].p /\ ~Pending(s, j)' =>
                   /\ mem'[s][j].u
                   /\ Deeper(mem[s][j]) /\ s \notin PageTabs =>
                         \A m \in Idx : Pending(mem[s][j].table, m)'
<1>1. op = "unlock" /\ todo # <<>>
  BY DEF UnlockEntry
<1>2. Shape /\ todo \in Seq(Tables \X Idx)
  BY <1>1 DEF PageInv
<1>3. Head(todo) \in Tables \X Idx /\ Tail(todo) \in Seq(Tables \X Idx)
  BY <1>1, <1>2
<1>4. PICK t \in Tables, i \in Idx : Head(todo) = <<t, i>>
  BY <1>3
<1>5. PICK e : e = mem[t][i]
  OBVIOUS
<1>6. e \in EntryRecords /\ mem \in [Tables -> [Idx -> EntryRecords]]
  BY <1>2, <1>5 DEF Shape
<1>7. PICK g : g = [e EXCEPT !.u = TRUE]
  OBVIOUS
<1>8. /\ g \in EntryRecords /\ g.p = e.p /\ g.huge = e.huge /\ g.table = e.table /\ g.u
  BY <1>6, <1>7 DEF EntryRecords
<1>9. Head(todo)[1] = t /\ Head(todo)[2] = i
  BY <1>4
<1>10. /\ mem' = IF e.p THEN [mem EXCEPT ![t][i].u = TRUE] ELSE mem
       /\ todo' = IF e.p /\ ~e.huge /\ t \notin PageTabs
                  THEN Entries(e.table) \o Tail(todo) ELSE Tail(todo)
  BY <1>5, <1>9, Zenon DEF UnlockEntry
<1>11. e.p => mem' = [mem EXCEPT ![t][i] = g]
  BY <1>5, <1>7, <1>10
<1>12. e.p => /\ mem'[t][i] = g
              /\ \A s \in Tables : \A j \in Idx : s # t \/ j # i => mem'[s][j] = mem[s][j]
  BY <1>6, <1>8, <1>11, Written
<1>13. ~e.p => mem' = mem
  BY <1>10
<1>14. Deeper(e) /\ t \notin PageTabs => e.table \in Tables
  BY <1>2, <1>5 DEF Shape, Tables, Idx, PointsInto, Ends, Either, PageTabs, Deeper
<1>15. ASSUME NEW S, NEW q \in Seq(S), q # <<>>, NEW k \in 1 .. Len(q), q[k] # Head(q)
       PROVE  \E m \in 1 .. Len(Tail(q)) : Tail(q)[m] = q[k]
  <2>1. k # 1 /\ k - 1 \in 1 .. Len(Tail(q)) /\ Tail(q)[k - 1] = q[k]
    BY <1>15
  <2>2. QED
    BY <2>1
<1>16. ASSUME NEW S, NEW a \in S, NEW b \in S, NEW q \in Seq(S)
       PROVE  /\ <<a, b>> \o q \in Seq(S) /\ Len(<<a, b>> \o q) = Len(q) + 2
              /\ (<<a, b>> \o q)[1] = a /\ (<<a, b>> \o q)[2] = b
              /\ \A m \in 1 .. Len(q) : (<<a, b>> \o q)[m + 2] = q[m]
  <2>1. <<a, b>> \in Seq(S) /\ Len(<<a, b>>) = 2 /\ Len(q) \in Nat
    OBVIOUS
  <2>2. QED
    BY <2>1
<1>17. ASSUME NEW s \in Tables, NEW j \in Idx, Pending(s, j), ~(s = t /\ j = i)
       PROVE  Pending(s, j)'
  <2>1. PICK k \in 1 .. Len(todo) : todo[k] = <<s, j>>
    BY <1>17 DEF Pending
  <2>2. todo[k] # Head(todo)
    BY <1>4, <1>17, <2>1
  <2>3. PICK m \in 1 .. Len(Tail(todo)) : Tail(todo)[m] = <<s, j>>
    BY <1>1, <1>2, <1>15, <2>1, <2>2
  <2>4. CASE todo' = Tail(todo)
    BY <2>3, <2>4 DEF Pending
  <2>5. CASE Deeper(e) /\ t \notin PageTabs /\ todo' = <<<<e.table, 0>>, <<e.table, 1>>>> \o Tail(todo)
    <3>1. <<e.table, 0>> \in Tables \X Idx /\ <<e.table, 1>> \in Tables \X Idx
      BY <1>14, <2>5 DEF Idx
    <3>2. Len(todo') = Len(Tail(todo)) + 2 /\ todo'[m + 2] = <<s, j>> /\ Len(Tail(todo)) \in Nat
      BY <1>3, <1>16, <2>3, <2>5, <3>1
    <3>3. m + 2 \in 1 .. Len(todo')
      BY <3>2
    <3>4. QED
      BY <3>2, <3>3 DEF Pending
  <2>6. QED
    BY <1>10, <2>4, <2>5 DEF Entries, Deeper
<1>18. ASSUME Deeper(e), t \notin PageTabs, NEW m \in Idx PROVE Pending(e.table, m)'
  <2>1. todo' = <<<<e.table, 0>>, <<e.table, 1>>>> \o Tail(todo)
    BY <1>10, <1>18 DEF Entries, Deeper
  <2>2. <<e.table, 0>> \in Tables \X Idx /\ <<e.table, 1>> \in Tables \X Idx
    BY <1>14, <1>18 DEF Idx
  <2>3. /\ Len(todo') = Len(Tail(todo)) + 2 /\ Len(Tail(todo)) \in Nat
        /\ todo'[1] = <<e.table, 0>> /\ todo'[2] = <<e.table, 1>>
    BY <1>3, <1>16, <2>1, <2>2
  <2>4. 1 \in 1 .. Len(todo') /\ 2 \in 1 .. Len(todo')
    BY <2>3
  <2>5. m = 0 \/ m = 1
    BY DEF Idx
  <2>6. QED
    BY <2>3, <2>4, <2>5 DEF Pending
<1>19. ASSUME NEW s \in Tables, NEW j \in Idx
       PROVE  /\ mem'[s][j].p = mem[s][j].p /\ mem'[s][j].huge = mem[s][j].huge
              /\ mem'[s][j].table = mem[s][j].table
              /\ mem[s][j].u => mem'[s][j].u
  BY <1>5, <1>8, <1>12, <1>13
<1>20. ASSUME NEW s \in Tables, NEW j \in Idx, Pending(s, j), mem[s][j].p, ~Pending(s, j)'
       PROVE  /\ mem'[s][j].u
              /\ Deeper(mem[s][j]) /\ s \notin PageTabs => \A m \in Idx : Pending(mem[s][j].table, m)'
  <2>1. s = t /\ j = i /\ mem[s][j] = e
    BY <1>5, <1>17, <1>20
  <2>2. QED
    BY <1>8, <1>12, <1>18, <1>20, <2>1
<1>21. QED
  BY <1>19, <1>20

\* The same of an entry that points to table d.
LEMMA UnlockAt ==
    ASSUME PageInv, UnlockEntry, NEW s \in Tables, NEW j \in Idx, NEW d, d = mem[s][j].table,
           NEW m \in Idx
    PROVE  /\ mem'[s][j].p = mem[s][j].p /\ mem'[s][j].huge = mem[s][j].huge
           /\ mem'[s][j].table = d
           /\ mem[s][j].u => mem'[s][j].u
           /\ Pending(s, j) /\ mem[s][j].p /\ ~Pending(s, j)' =>
                 /\ mem'[s][j].u
                 /\ Deeper(mem[s][j]) /\ s \notin PageTabs => Pending(d, m)'
<1>1. /\ mem'[s][j].p = mem[s][j].p /\ mem'[s][j].huge = mem[s][j].huge
      /\ mem'[s][j].table = d
      /\ mem[s][j].u => mem'[s][j].u
  BY UnlockStep
<1>2. Pending(mem[s][j].table, m)' <=> Pending(d, m)'
  BY <1>1 DEF Pending
<1>3. ASSUME Pending(s, j), mem[s][j].p, ~Pending(s, j)'
      PROVE  /\ mem'[s][j].u
             /\ Deeper(mem[s][j]) /\ s \notin PageTabs => Pending(mem[s][j].table, m)'
  BY <1>3, UnlockStep
<1>4. QED
  BY <1>1, <1>2, <1>3

\* No entry on the path of an address is left behind.
LEMMA WayOK ==
    ASSUME PageInv, UnlockEntry, NEW va \in Addrs, OnTheWay(va)
    PROVE  OnTheWay(va)'
<1>1. Shape
  BY DEF PageInv
<1>2. va[1] \in Idx /\ va[2] \in Idx /\ va[3] \in Idx /\ va[4] \in Idx
  BY Indices DEF Idx
<1>3. /\ "PML4" \in Tables \ PageTabs
      /\ First(va).p => First(va).table \in Tables \ PageTabs /\ ~First(va).huge
      /\ First(va).p /\ Deeper(Second(va)) => Second(va).table \in Tables \ PageTabs
      /\ First(va).p /\ Deeper(Second(va)) /\ Deeper(Third(va)) => Third(va).table \in Tables
  BY <1>1, Paths DEF Tables, PageTabs
<1>4. /\ First(va)'.p = First(va).p /\ First(va)'.table = First(va).table
      /\ First(va).u => First(va)'.u
      /\ Pending("PML4", va[1]) /\ First(va).p /\ ~Pending("PML4", va[1])' =>
            First(va)'.u /\ Pending(First(va).table, va[2])'
  BY <1>2, <1>3, UnlockStep DEF First, Deeper
<1>5. ASSUME First(va).p
      PROVE  /\ Second(va)'.p = Second(va).p
             /\ Second(va)'.huge = Second(va).huge /\ Second(va)'.table = Second(va).table
             /\ Second(va).u => Second(va)'.u
             /\ Pending(First(va).table, va[2]) /\ Second(va).p /\ ~Pending(First(va).table, va[2])' =>
                   Second(va)'.u /\ (Deeper(Second(va)) => Pending(Second(va).table, va[3])')
  <2>1. PICK s, d : s = First(va).table /\ d = Second(va).table
    OBVIOUS
  <2>2. /\ s \in Tables \ PageTabs /\ First(va)'.table = s
        /\ Second(va) = mem[s][va[2]] /\ Second(va)' = mem'[s][va[2]]
    BY <1>3, <1>4, <1>5, <2>1 DEF Second
  <2>3. /\ Second(va)'.p = Second(va).p /\ Second(va)'.huge = Second(va).huge /\ Second(va)'.table = d
        /\ Second(va).u => Second(va)'.u
        /\ Pending(s, va[2]) /\ Second(va).p /\ ~Pending(s, va[2])' =>
              Second(va)'.u /\ (Deeper(Second(va)) => Pending(d, va[3])')
    BY <1>2, <2>1, <2>2, UnlockAt
  <2>4. /\ Pending(First(va).table, va[2]) <=> Pending(s, va[2])
        /\ Pending(First(va).table, va[2])' <=> Pending(s, va[2])'
        /\ Pending(Second(va).table, va[3])' <=> Pending(d, va[3])'
    BY <2>1, <2>2, <2>3 DEF Pending
  <2>5. QED
    BY <2>1, <2>3, <2>4
<1>6. ASSUME First(va).p, Deeper(Second(va))
      PROVE  /\ Third(va)'.p = Third(va).p
             /\ Third(va)'.huge = Third(va).huge /\ Third(va)'.table = Third(va).table
             /\ Third(va).u => Third(va)'.u
             /\ Pending(Second(va).table, va[3]) /\ Third(va).p /\ ~Pending(Second(va).table, va[3])' =>
                   Third(va)'.u /\ (Deeper(Third(va)) => Pending(Third(va).table, va[4])')
  <2>1. PICK s, d : s = Second(va).table /\ d = Third(va).table
    OBVIOUS
  <2>2. /\ s \in Tables \ PageTabs /\ Second(va)'.table = s
        /\ Third(va) = mem[s][va[3]] /\ Third(va)' = mem'[s][va[3]]
    BY <1>3, <1>5, <1>6, <2>1 DEF Third
  <2>3. /\ Third(va)'.p = Third(va).p /\ Third(va)'.huge = Third(va).huge /\ Third(va)'.table = d
        /\ Third(va).u => Third(va)'.u
        /\ Pending(s, va[3]) /\ Third(va).p /\ ~Pending(s, va[3])' =>
              Third(va)'.u /\ (Deeper(Third(va)) => Pending(d, va[4])')
    BY <1>2, <2>1, <2>2, UnlockAt
  <2>4. /\ Pending(Second(va).table, va[3]) <=> Pending(s, va[3])
        /\ Pending(Second(va).table, va[3])' <=> Pending(s, va[3])'
        /\ Pending(Third(va).table, va[4])' <=> Pending(d, va[4])'
    BY <2>1, <2>2, <2>3 DEF Pending
  <2>5. QED
    BY <2>1, <2>3, <2>4
<1>7. ASSUME First(va).p, Deeper(Second(va)), Deeper(Third(va))
      PROVE  /\ Fourth(va)'.p = Fourth(va).p
             /\ Fourth(va).u => Fourth(va)'.u
             /\ Pending(Third(va).table, va[4]) /\ Fourth(va).p /\ ~Pending(Third(va).table, va[4])' =>
                   Fourth(va)'.u
  <2>1. PICK s, d : s = Third(va).table /\ d = Fourth(va).table
    OBVIOUS
  <2>2. /\ s \in Tables /\ Third(va)'.table = s
        /\ Fourth(va) = mem[s][va[4]] /\ Fourth(va)' = mem'[s][va[4]]
    BY <1>3, <1>6, <1>7, <2>1 DEF Fourth
  <2>3. /\ Fourth(va)'.p = Fourth(va).p /\ Fourth(va)'.huge = Fourth(va).huge /\ Fourth(va)'.table = d
        /\ Fourth(va).u => Fourth(va)'.u
        /\ Pending(s, va[4]) /\ Fourth(va).p /\ ~Pending(s, va[4])' =>
              Fourth(va)'.u
    BY <1>2, <2>1, <2>2, UnlockAt
  <2>4. /\ Pending(Third(va).table, va[4]) <=> Pending(s, va[4])
        /\ Pending(Third(va).table, va[4])' <=> Pending(s, va[4])'
    BY <2>1, <2>2, <2>3 DEF Pending
  <2>5. QED
    BY <2>1, <2>3, <2>4
<1>8. /\ First(va).p => (Deeper(Second(va)') <=> Deeper(Second(va)))
      /\ First(va).p /\ Deeper(Second(va)) => (Deeper(Third(va)') <=> Deeper(Third(va)))
  BY <1>5, <1>6 DEF Deeper
<1>9. ASSUME First(va).p, Deeper(Second(va)), Deeper(Third(va)), Fourth(va).p,
             Pending(Third(va).table, va[4]) \/ Fourth(va).u
      PROVE  Pending(Third(va).table, va[4])' \/ Fourth(va)'.u
  BY <1>7, <1>9
<1>10. ASSUME First(va).p, Deeper(Second(va)), Third(va).p,
              Pending(Second(va).table, va[3]) \/ (Third(va).u /\ Behind(va))
       PROVE  \/ Pending(Second(va).table, va[3])'
              \/ /\ Third(va)'.u
                 /\ Deeper(Third(va)) /\ Fourth(va).p =>
                       Pending(Third(va).table, va[4])' \/ Fourth(va)'.u
  BY <1>6, <1>9, <1>10 DEF Behind
<1>11. ASSUME First(va).p, Second(va).p,
              Pending(First(va).table, va[2]) \/ (Second(va).u /\ Below(va))
       PROVE  \/ Pending(First(va).table, va[2])'
              \/ /\ Second(va)'.u
                 /\ Deeper(Second(va)) /\ Third(va).p =>
                       \/ Pending(Second(va).table, va[3])'
                       \/ /\ Third(va)'.u
                          /\ Deeper(Third(va)) /\ Fourth(va).p =>
                                Pending(Third(va).table, va[4])' \/ Fourth(va)'.u
  BY <1>5, <1>10, <1>11 DEF Below
<1>12. First(va).p =>
         \/ Pending("PML4", va[1])'
         \/ /\ First(va)'.u
            /\ Second(va).p =>
                 \/ Pending(First(va).table, va[2])'
                 \/ /\ Second(va)'.u
                    /\ Deeper(Second(va)) /\ Third(va).p =>
                          \/ Pending(Second(va).table, va[3])'
                          \/ /\ Third(va)'.u
                             /\ Deeper(Third(va)) /\ Fourth(va).p =>
                                   Pending(Third(va).table, va[4])' \/ Fourth(va)'.u
  BY <1>4, <1>11 DEF OnTheWay, Under
<1>13. QED
  BY <1>4, <1>5, <1>6, <1>7, <1>8, <1>12 DEF OnTheWay, Under, Below, Behind, Deeper

\* With nothing left to visit, user mode may use the address.
LEMMA WayEnds ==
    ASSUME Shape, todo = <<>>, NEW va \in Addrs, OnTheWay(va)
    PROVE  Open(va)
<1>1. \A t, i : ~Pending(t, i)
  BY DEF Pending
<1>2. First(va).p => First(va).u /\ (Second(va).p => Second(va).u /\ Below(va))
  BY <1>1 DEF OnTheWay, Under
<1>3. First(va).p /\ Deeper(Second(va)) /\ Third(va).p => Third(va).u /\ Behind(va)
  BY <1>1, <1>2 DEF Below, Deeper
<1>4. First(va).p /\ Deeper(Second(va)) /\ Deeper(Third(va)) /\ Fourth(va).p => Fourth(va).u
  BY <1>1, <1>3 DEF Behind, Deeper
<1>5. ASSUME NEW e, NEW n, NEW u, u, e.p => e.u
      PROVE  Leaf(e, n, u) = None \/ Leaf(e, n, u).user
  BY <1>5 DEF Leaf
<1>6. CASE ~First(va).p
  BY <1>6, Walk DEF Open
<1>7. CASE First(va).p /\ ~Deeper(Second(va))
  BY <1>2, <1>5, <1>7, Walk DEF Open
<1>8. CASE First(va).p /\ Deeper(Second(va)) /\ ~Deeper(Third(va))
  BY <1>2, <1>3, <1>5, <1>8, Walk DEF Open, Deeper
<1>9. CASE First(va).p /\ Deeper(Second(va)) /\ Deeper(Third(va))
  BY <1>2, <1>3, <1>4, <1>5, <1>9, Walk DEF Open, Deeper
<1>10. QED
  BY <1>6, <1>7, <1>8, <1>9

\* An address without a translation has no page, and only such an address.
LEMMA NoPage ==
    ASSUME Shape, NEW va \in Addrs, walk_page_table(va) # None
    PROVE  walk_page_table(va).page # None.page
<1>1. va[3] \in {0, 1} /\ va[4] \in {0, 1}
  BY Indices
<1>2. ASSUME NEW e \in EntryRecords, NEW n \in 0 .. 3, NEW u, Leaf(e, n, u) # None
      PROVE  Leaf(e, n, u).page # None.page
  <2>1. e.page \in Pages
    BY DEF EntryRecords
  <2>2. e.page + n < 99 /\ e.page + n \in Nat
    BY <2>1 DEF Pages
  <2>3. Leaf(e, n, u).page = e.page + n
    BY <1>2 DEF Leaf
  <2>4. None.page = 99
    BY DEF None
  <2>5. QED
    BY <2>2, <2>3, <2>4
<1>3. 2 * va[3] + va[4] \in 0 .. 3 /\ va[4] \in 0 .. 3 /\ 0 \in 0 .. 3
  BY <1>1
<1>4. QED
  BY <1>2, <1>3, Walk, Paths

\* Steps that leave the tables and the walk through them alone.
LEMMA TaskIdle ==
    ASSUME TaskInv, UNCHANGED <<mem, op, todo, image, intent>>,
           mode' = "kernel" => ss' = KernelData /\ frame' \in {0, KernelData},
           mode' # "kernel" => op = "unlocked",
           mode' = "panic" => NullUnmapped'
    PROVE  TaskInv'
<1>1. \A va : OnTheWay(va)' <=> OnTheWay(va)
  BY DEF OnTheWay, Under, Below, Behind, First, Second, Third, Fourth, Deeper, Pending
<1>2. \A va : walk_page_table(va)' = walk_page_table(va)
  BY DEF walk_page_table
<1>3. QED
  BY <1>1, <1>2 DEF TaskInv, Open

\* The task can only fault at the null pointer it got when there is no drive.
LEMMA FaultsAtNull ==
    ASSUME PageInv, TaskInv, Fault
    PROVE  NullUnmapped
<1>1. op = "unlocked" /\ ~MayGoOn
  BY DEF Fault, InTask, TaskInv
<1>2. Coherent /\ Exact /\ Stale = {} /\ \A va \in Addrs : Open(va)
  BY <1>1 DEF PageInv, TaskInv, Stale
<1>3. ASSUME NEW va \in Addrs, walk_page_table(va) # None PROVE Allowed(va)
  <2>1. PICK t : t = IF va \in Watched /\ tlb[va] # None THEN tlb[va] ELSE walk_page_table(va)
    OBVIOUS
  <2>2. t = walk_page_table(va)
    BY <1>2, <2>1 DEF Coherent
  <2>3. t # None /\ t.user
    BY <1>2, <1>3, <2>2 DEF Open
  <2>4. QED
    BY <2>1, <2>3 DEF Allowed
<1>4. Allowed(image)
  <2>1. image \in Addrs /\ intent[image] # None.page
    BY PageAssumption DEF TaskInv
  <2>2. walk_page_table(image) # None
    BY <1>2, <2>1 DEF Exact
  <2>3. QED
    BY <1>3, <2>1, <2>2
<1>5. ~drive /\ ~Allowed(Null)
  BY <1>1, <1>4 DEF MayGoOn, Reads
<1>6. Null \in Addrs
  BY DEF Null, Addrs, Idx
<1>7. QED
  BY <1>3, <1>5, <1>6 DEF NullUnmapped

\* The kernel's own steps, before the drop.
LEMMA KernelStepOK ==
    ASSUME PageInv, TaskInv, InKernel,
           \/ SkipTrampoline \/ copy_trampoline \/ Invlpg \/ unlock_mmu_for_ring3 \/ UnlockBegin
           \/ \E v \in Watched \ {image}, n \in NewFrames : MapPage(v, n)
    PROVE  TaskInv'
<1>1. UNCHANGED <<mode, ss, frame>> /\ mode = "kernel" /\ ss = KernelData /\ frame = 0
  BY DEF InKernel, gateVars, TaskInv
<1>2. image' = image /\ image \in Watched /\ image \notin Low2MB
  BY DEF SkipTrampoline, copy_trampoline, InjectPdpt, InjectPd, MapLow, ReloadCr3, RestoreCr0, Invlpg,
     unlock_mmu_for_ring3, UnlockEntry, UnlockEnd, UnlockBegin, MapPage, TaskInv
<1>3. intent'[image] = intent[image]
  <2>1. CASE MapLow
    <3>1. intent' = [va \in Addrs |-> IF va \in Low2MB THEN Page(va) ELSE intent[va]]
      BY <2>1 DEF MapLow
    <3>2. QED
      BY <1>2, <3>1, PageAssumption
  <2>2. CASE \E v \in Watched \ {image}, n \in NewFrames : MapPage(v, n)
    <3>1. PICK v \in Watched \ {image}, n \in NewFrames : intent' = [intent EXCEPT ![v] = n]
      BY <2>2 DEF MapPage
    <3>2. intent \in [Addrs -> Nat] /\ image \in Addrs
      BY <1>2, PageAssumption DEF PageInv
    <3>3. QED
      BY <3>1, <3>2
  <2>3. CASE SkipTrampoline \/ InjectPdpt \/ InjectPd \/ ReloadCr3 \/ RestoreCr0 \/ Invlpg \/ UnlockEntry
               \/ UnlockEnd \/ UnlockBegin
    BY <2>3 DEF SkipTrampoline, InjectPdpt, InjectPd, ReloadCr3, RestoreCr0, Invlpg, UnlockEntry, UnlockEnd,
       UnlockBegin
  <2>4. QED
    BY <2>1, <2>2, <2>3 DEF copy_trampoline, unlock_mmu_for_ring3
<1>4. op' = "unlock" => \A va \in Addrs : OnTheWay(va)'
  <2>1. CASE UnlockEntry
    <3>1. \A va \in Addrs : OnTheWay(va)
      BY <2>1 DEF UnlockEntry, TaskInv
    <3>2. QED
      BY <2>1, <3>1, WayOK
  <2>2. CASE UnlockBegin
    <3>1. todo' = <<<<"PML4", 0>>, <<"PML4", 1>>>>
      BY <2>2 DEF UnlockBegin, Entries
    <3>2. Len(todo') = 2 /\ todo'[1] = <<"PML4", 0>> /\ todo'[2] = <<"PML4", 1>>
      BY <3>1
    <3>3. 1 \in 1 .. Len(todo') /\ 2 \in 1 .. Len(todo')
      BY <3>2
    <3>4. Pending("PML4", 0)' /\ Pending("PML4", 1)'
      BY <3>2, <3>3 DEF Pending
    <3>5. ASSUME NEW va \in Addrs PROVE OnTheWay(va)'
      <4>1. va[1] = 0 \/ va[1] = 1
        BY Indices
      <4>2. Pending("PML4", va[1])'
        BY <3>4, <4>1
      <4>3. QED
        BY <4>2 DEF OnTheWay
    <3>6. QED
      BY <3>5
  <2>3. CASE SkipTrampoline \/ copy_trampoline \/ Invlpg \/ UnlockEnd
               \/ \E v \in Watched \ {image}, n \in NewFrames : MapPage(v, n)
    BY <2>3 DEF SkipTrampoline, copy_trampoline, InjectPdpt, InjectPd, MapLow, ReloadCr3, RestoreCr0, Invlpg,
       UnlockEnd, MapPage, Goto
  <2>4. QED
    BY <2>1, <2>2, <2>3 DEF unlock_mmu_for_ring3
<1>5. op' = "unlocked" => \A va \in Addrs : Open(va)'
  <2>1. CASE UnlockEnd
    <3>1. op = "unlock" /\ todo = <<>> /\ mem' = mem
      BY <2>1 DEF UnlockEnd
    <3>2. Shape /\ \A va \in Addrs : OnTheWay(va)
      BY <3>1 DEF PageInv, TaskInv
    <3>3. \A va \in Addrs : Open(va)
      BY <3>1, <3>2, WayEnds
    <3>4. \A va : walk_page_table(va)' = walk_page_table(va)
      BY <3>1 DEF walk_page_table
    <3>5. QED
      BY <3>3, <3>4 DEF Open
  <2>2. CASE SkipTrampoline \/ copy_trampoline \/ Invlpg \/ UnlockEntry \/ UnlockBegin
               \/ \E v \in Watched \ {image}, n \in NewFrames : MapPage(v, n)
    BY <2>2 DEF SkipTrampoline, copy_trampoline, InjectPdpt, InjectPd, MapLow, ReloadCr3, RestoreCr0, Invlpg,
       UnlockEntry, UnlockBegin, MapPage, Goto
  <2>3. QED
    BY <2>1, <2>2 DEF unlock_mmu_for_ring3
<1>6. QED
  BY <1>1, <1>2, <1>3, <1>4, <1>5 DEF TaskInv

\* When the task runs every mapped page is open to it, and interrupts are only ever
\* taken with a data segment on the stack.
THEOREM TaskCorrect == Spec => []TaskInv
<1>1. Init => TaskInv
  <2> SUFFICES ASSUME Init PROVE TaskInv
    OBVIOUS
  <2>1. /\ mem \in Firmware /\ op = "boot" /\ image \in Watched \ Low2MB
        /\ walk_page_table(image) # None
        /\ intent = [va \in Addrs |-> walk_page_table(va).page]
        /\ mode = "kernel" /\ ss = KernelData /\ frame = 0
    BY DEF Init, PageInit
  <2>2. image \in Addrs /\ Shape
    BY <2>1, PageAssumption, FirmwareShape
  <2>3. intent[image] # None.page
    BY <2>1, <2>2, NoPage
  <2>4. QED
    BY <2>1, <2>3 DEF TaskInv
<1>2. GateInv /\ PageInv /\ TaskInv /\ [Next]_vars => TaskInv'
  <2> SUFFICES ASSUME GateInv, PageInv, TaskInv, [Next]_vars PROVE TaskInv'
    OBVIOUS
  <2>1. CASE UNCHANGED vars \/ processor
    <3>1. UNCHANGED <<mem, op, todo, image, intent, drive, mode, ss, frame>>
      BY <2>1 DEF vars, pageVars, gateVars, processor, TlbFill, TlbEvict
    <3>2. NullUnmapped' <=> NullUnmapped
      BY <3>1 DEF NullUnmapped, walk_page_table
    <3>3. QED
      BY <3>1, <3>2, TaskIdle DEF TaskInv
  <2>2. CASE Fault
    <3>1. UNCHANGED <<mem, op, todo, image, intent, drive>> /\ mode' = "panic" /\ mode = "user"
      BY <2>2 DEF Fault, InTask, pageVars
    <3>2. NullUnmapped'
      BY <2>2, <3>1, FaultsAtNull DEF NullUnmapped, walk_page_table
    <3>3. QED
      BY <3>1, <3>2, TaskIdle DEF TaskInv
  <2>3. CASE DropToUsermode \/ Syscall \/ Spin \/ gate
    <3>1. UNCHANGED <<mem, op, todo, image, intent>>
      BY <2>3 DEF DropToUsermode, Syscall, Spin, gate, GateEntry, SyscallHandler, GateExit, pageVars
    <3>2. mode' \in {"user", "spin"}
      BY <2>3 DEF DropToUsermode, Syscall, Spin, gate, GateEntry, SyscallHandler, GateExit,
         InTask, GateInv
    <3>3. op = "unlocked"
      BY <2>3 DEF DropToUsermode, Syscall, Spin, gate, GateEntry, SyscallHandler, GateExit,
         InTask, GateInv, TaskInv
    <3>4. QED
      BY <3>1, <3>2, <3>3, TaskIdle
  <2>4. CASE Interrupt \/ Iretq
    <3>1. UNCHANGED <<mem, op, todo, image, intent, ss>>
      BY <2>4 DEF Interrupt, Iretq, pageVars
    <3>2. mode = "kernel" /\ ss = KernelData
      BY <2>4 DEF Interrupt, Iretq, GateInv, Masked, TaskInv
    <3>3. mode' = mode /\ frame' \in {0, KernelData}
      <4>1. CASE Interrupt
        BY <3>2, <4>1 DEF Interrupt
      <4>2. CASE Iretq
        <5>1. frame = KernelData /\ DataSegment(KernelData)
          BY <3>2, <4>2 DEF Iretq, TaskInv, DataSegment, KernelData, GDT
        <5>2. QED
          BY <4>2, <5>1 DEF Iretq
      <4>3. QED
        BY <2>4, <4>1, <4>2
    <3>4. QED
      BY <3>1, <3>2, <3>3, TaskIdle
  <2>5. CASE bootAndDrop \/ callMap \/ click
    BY <2>3, <2>5, KernelStepOK DEF bootAndDrop, callMap, click
  <2>6. QED
    BY <2>3, <2>4, <2>5, <2>1, <2>2 DEF Next, user
<1>3. QED
  BY <1>1, <1>2, GateCorrect, TablesCorrect, PTL DEF Spec

\* The task ends in a fault only by reading the null pointer it was given because there
\* is no drive: unlock_mmu_for_ring3 leaves no mapped page closed to it, and no iretq
\* reloads the stack segment that sysretq made up.
FaultExplained == mode = "panic" => NullUnmapped

\* No other page fault and no fault of iretq stops the ring-3 task.
THEOREM FaultsExplained == Spec => []FaultExplained
<1>1. TaskInv => FaultExplained
  BY DEF TaskInv, FaultExplained
<1>2. QED
  BY <1>1, TaskCorrect, PTL
=============================================================================
