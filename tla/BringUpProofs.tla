--------------------------- MODULE BringUpProofs ---------------------------
(***************************************************************************)
(* Proofs about what _start brings up before any driver: the frame         *)
(* allocator and the application processors.                               *)
(*                                                                         *)
(* The frame allocator, for every capacity and every memory map of         *)
(* disjoint descriptors.  The inductive invariant adds to the properties   *)
(* that no bit lies beyond highest_frame, where the search ends, and that  *)
(* a refusal is only ever given with no bit left.                          *)
(*                                                                         *)
(* The processors, for every number of them and of stacks.  The inductive  *)
(* invariant adds that the word at 0x8600 stays 0, so that every AP is on  *)
(* a stack of the array, and that a stack holds the address of one call    *)
(* site at each depth, whoever pushed it.                                  *)
(***************************************************************************)
EXTENDS FrameAllocator, Smp, FiniteSetTheorems, WellFoundedInduction, TLAPS

USE CapacityAssumption

\* The maximum of a set of numbers that has a bound is one of them and no
\* smaller than any.
LEMMA MaxIn ==
    ASSUME NEW S \in SUBSET Nat, S # {}, NEW b \in Nat, \A s \in S : s <= b
    PROVE  Max(S) \in S /\ \A s \in S : s <= Max(S)
<1> DEFINE U == {n \in Nat : \A s \in S : s <= n}
<1>1. U \in SUBSET Nat /\ U # {}
  OBVIOUS
<1>2. PICK m \in U : \A n \in U : ~ (<<n, m>> \in OpToRel(<, Nat))
  BY <1>1, NatLessThanWellFounded, WFMin
<1>3. \A n \in U : m <= n
  <2>1. \A n \in U : ~ (n < m)
    BY <1>2 DEF OpToRel
  <2>2. QED
    BY <2>1
<1>4. m \in S
  <2>1. SUFFICES ASSUME m \notin S
                 PROVE  FALSE
    OBVIOUS
  <2>2. \A s \in S : s <= m - 1
    BY <2>1
  <2>3. m - 1 \in Nat
    <3>1. PICK s \in S : TRUE
      OBVIOUS
    <3>2. s \in Nat /\ s <= m - 1
      BY <2>2
    <3>3. QED
      BY <3>2
  <2>4. m - 1 \in U
    BY <2>2, <2>3
  <2>5. QED
    BY <1>3, <2>4
<1>5. \A s \in S : m >= s
  OBVIOUS
<1>6. QED
  BY <1>4, <1>5 DEF Max

\* A descriptor's trackable frames are few and lie within the bitmap.
LEMMA FramesType ==
    ASSUME TypeOK, i <= Len(MemoryMap)
    PROVE  /\ i \in DOMAIN MemoryMap /\ MemoryMap[i] \in Descriptor
           /\ Frames(MemoryMap[i]) \subseteq 0 .. Capacity - 1
           /\ IsFiniteSet(Frames(MemoryMap[i]))
<1>1. MemoryMap \in Seq(Descriptor)
  BY MapAssumption DEF TypeOK
<1>2. i \in DOMAIN MemoryMap /\ MemoryMap[i] \in Descriptor
  BY <1>1 DEF TypeOK
<1>3. Frames(MemoryMap[i]) \subseteq 0 .. Capacity - 1
  BY <1>2 DEF Frames, Span, Descriptor
<1>4. IsFiniteSet(Frames(MemoryMap[i]))
  <2>1. IsFiniteSet(0 .. Capacity - 1)
    BY FS_Interval
  <2>2. Frames(MemoryMap[i]) \in SUBSET (0 .. Capacity - 1)
    BY <1>3
  <2>3. QED
    BY <2>1, <2>2, FS_Subset
<1>5. QED
  BY <1>2, <1>3, <1>4

\* No bit lies beyond the end of the search.
Covered == \A f \in bitmap : f <= highest_frame

\* A refusal is given only once init is over, with no bit left.
RefusedWhenEmpty == refused => Online /\ bitmap = {}

AllocInv == TypeOK /\ Partition /\ NeverTwice /\ Accounting /\ Covered /\ RefusedWhenEmpty

\* The bitmap can be counted.
LEMMA BitmapFinite ==
    ASSUME TypeOK
    PROVE  IsFiniteSet(bitmap) /\ Cardinality(bitmap) \in Nat
<1>1. IsFiniteSet(0 .. Capacity - 1)
  BY FS_Interval
<1>2. bitmap \in SUBSET (0 .. Capacity - 1)
  BY DEF TypeOK
<1>3. IsFiniteSet(bitmap)
  BY <1>1, <1>2, FS_Subset
<1>4. QED
  BY <1>3, FS_CardinalityType

\* A descriptor adds frames that were neither free nor handed out.
LEMMA NewFrames ==
    ASSUME AllocInv, i <= Len(MemoryMap), MemoryMap[i].ty = EfiConventionalMemory
    PROVE  /\ Conventional(i + 1) = Conventional(i) \cup Frames(MemoryMap[i])
           /\ Conventional(i) \cap Frames(MemoryMap[i]) = {}
<1>1. MemoryMap \in Seq(Descriptor) /\ i \in Nat \ {0} /\ i \in DOMAIN MemoryMap
  BY MapAssumption, FramesType DEF AllocInv, TypeOK
<1>2. \A k \in 1 .. i - 1 : k \in DOMAIN MemoryMap /\ k # i
  BY <1>1
<1>3. \A k \in 1 .. i - 1 : Span(MemoryMap[k]) \cap Span(MemoryMap[i]) = {}
  BY <1>1, <1>2, MapAssumption DEF AllocInv, TypeOK
<1>4. Conventional(i) \cap Frames(MemoryMap[i]) = {}
  BY <1>3 DEF Conventional, Frames
<1>5. 1 .. (i + 1) - 1 = (1 .. i - 1) \cup {i}
  BY <1>1
<1>6. Frames(MemoryMap[i]) = {f \in 0 .. Capacity - 1 : f \in Span(MemoryMap[i])}
  BY FramesType DEF Frames, AllocInv
<1>7. Conventional(i + 1) = Conventional(i) \cup Frames(MemoryMap[i])
  BY <1>5, <1>6 DEF Conventional
<1>8. QED
  BY <1>4, <1>7

\* One more descriptor of conventional memory keeps the invariant.
LEMMA InitFreeStep == ASSUME AllocInv, InitFree PROVE AllocInv'
<1> DEFINE fs == Frames(MemoryMap[i])
<1>1. /\ i <= Len(MemoryMap) /\ MemoryMap[i].ty = EfiConventionalMemory
      /\ bitmap' = bitmap \cup fs
      /\ free_frames' = free_frames + Cardinality(fs)
      /\ highest_frame' = Max(fs \cup {highest_frame})
      /\ i' = i + 1 /\ MemoryMap' = MemoryMap /\ handed' = handed /\ refused' = refused
  BY DEF InitFree
<1>2. fs \subseteq 0 .. Capacity - 1 /\ IsFiniteSet(fs)
  BY <1>1, FramesType DEF AllocInv
<1>3. highest_frame' \in fs \cup {highest_frame}
      /\ \A s \in fs \cup {highest_frame} : s <= highest_frame'
  <2> DEFINE S == fs \cup {highest_frame}
  <2>1. highest_frame \in Nat
    BY DEF AllocInv, TypeOK
  <2>2. S \in SUBSET Nat /\ S # {}
    BY <1>2, <2>1
  <2>3. \A s \in S : s <= Capacity + highest_frame
    BY <1>2, <2>1
  <2>4. Capacity + highest_frame \in Nat
    BY <2>1
  <2>5. Max(S) \in S /\ \A s \in S : s <= Max(S)
    <3> HIDE DEF S
    <3> QED  BY <2>2, <2>3, <2>4, MaxIn
  <2>6. QED
    BY <1>1, <2>5
<1>4. bitmap \cap fs = {} /\ fs \cap HandedOut = {}
      /\ Conventional(i + 1) = Conventional(i) \cup fs
  BY <1>1, NewFrames DEF AllocInv, Partition
<1>5. TypeOK'
  <2>1. Len(MemoryMap) \in Nat
    BY MapAssumption DEF AllocInv, TypeOK
  <2>2. i' \in 1 .. Len(MemoryMap') + 1
    BY <1>1, <2>1 DEF AllocInv, TypeOK
  <2>3. Cardinality(fs) \in Nat
    BY <1>2, FS_CardinalityType
  <2>4. highest_frame' \in Nat
    BY <1>2, <1>3 DEF AllocInv, TypeOK
  <2>5. bitmap' \subseteq 0 .. Capacity - 1
    BY <1>1, <1>2 DEF AllocInv, TypeOK
  <2>6. free_frames' \in Nat
    BY <1>1, <2>3 DEF AllocInv, TypeOK
  <2>7. QED
    BY <1>1, <2>2, <2>4, <2>5, <2>6 DEF AllocInv, TypeOK
<1>6. Partition'
  <2>1. HandedOut' = HandedOut
    BY <1>1 DEF HandedOut
  <2>2. Conventional(i)' = Conventional(i + 1)
    BY <1>1 DEF Conventional
  <2>3. QED
    BY <1>1, <1>4, <2>1, <2>2 DEF AllocInv, Partition
<1>7. NeverTwice'
  BY <1>1 DEF AllocInv, NeverTwice
<1>8. Accounting'
  <2>1. IsFiniteSet(bitmap) /\ Cardinality(bitmap) \in Nat
    BY BitmapFinite DEF AllocInv
  <2>2. Cardinality(bitmap \cup fs) = Cardinality(bitmap) + Cardinality(fs) - Cardinality(bitmap \cap fs)
    BY <1>2, <2>1, FS_Union
  <2>3. Cardinality(bitmap \cap fs) = 0
    BY <1>4, FS_EmptySet
  <2>4. Cardinality(fs) \in Nat
    BY <1>2, FS_CardinalityType
  <2>5. QED
    BY <1>1, <2>1, <2>2, <2>3, <2>4 DEF AllocInv, Accounting
<1>9. Covered'
  <2>1. \A f \in bitmap : f <= highest_frame'
    <3>1. highest_frame <= highest_frame' /\ highest_frame \in Nat /\ highest_frame' \in Nat
      BY <1>2, <1>3 DEF AllocInv, TypeOK
    <3>2. \A f \in bitmap : f \in Nat /\ f <= highest_frame
      BY DEF AllocInv, TypeOK, Covered
    <3>3. QED
      BY <3>1, <3>2
  <2>2. QED
    BY <1>1, <1>3, <2>1 DEF Covered
<1>10. RefusedWhenEmpty'
  <2>1. ~refused
    <3>1. Len(MemoryMap) \in Nat /\ i \in Nat
      BY MapAssumption DEF AllocInv, TypeOK
    <3>2. QED
      BY <1>1, <3>1 DEF AllocInv, RefusedWhenEmpty, Online
  <2>2. QED
    BY <1>1, <2>1 DEF RefusedWhenEmpty
<1>11. QED
  BY <1>5, <1>6, <1>7, <1>8, <1>9, <1>10 DEF AllocInv

\* A descriptor of any other kind keeps the invariant.
LEMMA InitSkipStep == ASSUME AllocInv, InitSkip PROVE AllocInv'
<1>1. /\ i <= Len(MemoryMap) /\ MemoryMap[i].ty # EfiConventionalMemory /\ i' = i + 1
      /\ UNCHANGED <<MemoryMap, bitmap, highest_frame, free_frames, handed, refused>>
  BY DEF InitSkip
<1>2. MemoryMap \in Seq(Descriptor) /\ Len(MemoryMap) \in Nat /\ i \in Nat \ {0}
  BY MapAssumption DEF AllocInv, TypeOK
<1>3. Conventional(i)' = Conventional(i)
  <2>1. 1 .. i' - 1 = (1 .. i - 1) \cup {i}
    BY <1>1, <1>2
  <2>2. QED
    BY <1>1, <2>1 DEF Conventional
<1>4. TypeOK'
  BY <1>1, <1>2 DEF AllocInv, TypeOK
<1>5. HandedOut' = HandedOut
  BY <1>1 DEF HandedOut
<1>6. ~refused
  BY <1>1, <1>2 DEF AllocInv, RefusedWhenEmpty, Online
<1>7. Partition' /\ NeverTwice' /\ Accounting' /\ Covered' /\ RefusedWhenEmpty'
  BY <1>1, <1>3, <1>5, <1>6 DEF AllocInv, Partition, NeverTwice, Accounting, Covered, RefusedWhenEmpty
<1>8. QED
  BY <1>4, <1>7 DEF AllocInv

\* Handing out a frame keeps the invariant.
LEMMA AllocateStep == ASSUME AllocInv, allocate_frame PROVE AllocInv'
<1>1. PICK f \in bitmap : /\ bitmap' = bitmap \ {f}
                          /\ free_frames' = free_frames - 1
                          /\ handed' = Append(handed, f)
  BY DEF allocate_frame
<1>2. /\ Online /\ UNCHANGED <<MemoryMap, i, highest_frame, refused>>
  BY DEF allocate_frame
<1>3. f \in 0 .. Capacity - 1 /\ handed \in Seq(0 .. Capacity - 1) /\ Len(handed) \in Nat
  BY DEF AllocInv, TypeOK
<1>4. f \notin HandedOut
  BY DEF AllocInv, Partition
<1>5. /\ DOMAIN handed = 1 .. Len(handed) /\ DOMAIN handed' = 1 .. Len(handed) + 1
      /\ \A k \in DOMAIN handed : handed'[k] = handed[k]
      /\ handed'[Len(handed) + 1] = f
  BY <1>1, <1>3
<1>6. HandedOut' = HandedOut \cup {f}
  <2>1. DOMAIN handed' = DOMAIN handed \cup {Len(handed) + 1}
    BY <1>3, <1>5
  <2>2. QED
    BY <1>5, <2>1 DEF HandedOut
<1>7. free_frames = Cardinality(bitmap) /\ Cardinality(bitmap) \in Nat /\ Cardinality(bitmap) # 0
      /\ Cardinality(bitmap') = Cardinality(bitmap) - 1
  <2>1. IsFiniteSet(bitmap) /\ Cardinality(bitmap) \in Nat
    BY BitmapFinite DEF AllocInv
  <2>2. Cardinality(bitmap \ {f}) = Cardinality(bitmap) - 1
    BY <2>1, FS_RemoveElement
  <2>3. Cardinality(bitmap) # 0
    BY <2>1, FS_EmptySet
  <2>4. QED
    BY <1>1, <2>1, <2>2, <2>3 DEF AllocInv, Accounting
<1>8. TypeOK'
  <2>1. free_frames' \in Nat
    BY <1>1, <1>7
  <2>2. handed' \in Seq(0 .. Capacity - 1)
    BY <1>1, <1>3
  <2>3. bitmap' \subseteq 0 .. Capacity - 1
    BY <1>1 DEF AllocInv, TypeOK
  <2>4. QED
    BY <1>2, <2>1, <2>2, <2>3 DEF AllocInv, TypeOK
<1>9. Partition'
  <2>1. Conventional(i)' = Conventional(i)
    BY <1>2 DEF Conventional
  <2>2. bitmap' \cup HandedOut' = bitmap \cup HandedOut
    BY <1>1, <1>6
  <2>3. bitmap' \cap HandedOut' = {}
    BY <1>1, <1>4, <1>6 DEF AllocInv, Partition
  <2>4. QED
    BY <2>1, <2>2, <2>3 DEF AllocInv, Partition
<1>10. NeverTwice'
  <2>1. \A k \in DOMAIN handed : handed[k] # f
    BY <1>4 DEF HandedOut
  <2>2. \A k \in DOMAIN handed' : k \in DOMAIN handed \/ k = Len(handed) + 1
    BY <1>3, <1>5
  <2>3. QED
    BY <1>5, <2>1, <2>2 DEF AllocInv, NeverTwice
<1>11. Accounting'
  BY <1>1, <1>7 DEF Accounting
<1>12. Covered'
  BY <1>1, <1>2 DEF AllocInv, Covered
<1>13. RefusedWhenEmpty'
  BY <1>1, <1>2 DEF AllocInv, RefusedWhenEmpty
<1>14. QED
  BY <1>8, <1>9, <1>10, <1>11, <1>12, <1>13 DEF AllocInv

\* A refusal keeps the invariant: the search saw every bit.
LEMMA RefuseStep == ASSUME AllocInv, OutOfMemory PROVE AllocInv'
<1>1. /\ Online /\ refused' = TRUE /\ bitmap \cap (0 .. highest_frame) = {}
      /\ UNCHANGED <<MemoryMap, i, bitmap, highest_frame, free_frames, handed>>
  BY DEF OutOfMemory
<1>2. bitmap = {}
  <2>1. \A f \in bitmap : f \in Nat /\ f <= highest_frame /\ highest_frame \in Nat
    BY DEF AllocInv, TypeOK, Covered
  <2>2. QED
    BY <1>1, <2>1
<1>3. TypeOK'
  BY <1>1 DEF AllocInv, TypeOK
<1>4. Conventional(i)' = Conventional(i) /\ HandedOut' = HandedOut
  BY <1>1 DEF Conventional, HandedOut
<1>5. Partition' /\ NeverTwice' /\ Accounting' /\ Covered'
  BY <1>1, <1>4 DEF AllocInv, Partition, NeverTwice, Accounting, Covered
<1>6. RefusedWhenEmpty'
  BY <1>1, <1>2 DEF RefusedWhenEmpty, Online
<1>7. QED
  BY <1>3, <1>5, <1>6 DEF AllocInv

\* Every tracked conventional frame is free or handed out once, the count of
\* free frames is exact, and the search misses none.
THEOREM AllocatorCorrect == Spec => []AllocInv
<1>1. Init => AllocInv
  <2>1. SUFFICES ASSUME Init
                 PROVE  AllocInv
    OBVIOUS
  <2>2. Len(MemoryMap) \in Nat
    BY <2>1, MapAssumption DEF Init
  <2>3. TypeOK
    <3>1. <<>> \in Seq(0 .. Capacity - 1)
      OBVIOUS
    <3>2. i \in 1 .. Len(MemoryMap) + 1
      BY <2>1, <2>2 DEF Init
    <3>3. QED
      BY <2>1, <3>1, <3>2 DEF Init, TypeOK
  <2>4. HandedOut = {} /\ Conventional(i) = {}
    BY <2>1 DEF Init, HandedOut, Conventional
  <2>5. Cardinality(bitmap) = 0
    BY <2>1, FS_EmptySet DEF Init
  <2>6. QED
    BY <2>1, <2>3, <2>4, <2>5
    DEF Init, AllocInv, Partition, NeverTwice, Accounting, Covered, RefusedWhenEmpty
<1>2. AllocInv /\ [Next]_vars => AllocInv'
  <2>1. SUFFICES ASSUME AllocInv, [Next]_vars
                 PROVE  AllocInv'
    OBVIOUS
  <2>2. CASE UNCHANGED vars
    <3>1. /\ MemoryMap' = MemoryMap /\ i' = i /\ bitmap' = bitmap /\ handed' = handed
          /\ highest_frame' = highest_frame /\ free_frames' = free_frames /\ refused' = refused
      BY <2>2 DEF vars
    <3>2. Conventional(i)' = Conventional(i) /\ HandedOut' = HandedOut
      BY <3>1 DEF Conventional, HandedOut
    <3>3. QED
      BY <2>1, <3>1, <3>2 DEF AllocInv, TypeOK, Partition, NeverTwice, Accounting, Covered,
                               RefusedWhenEmpty, Online
  <2>3. QED
    BY <2>1, <2>2, InitFreeStep, InitSkipStep, AllocateStep, RefuseStep DEF Next
<1>3. QED
  BY <1>1, <1>2, PTL DEF Spec

\* allocate_frame never gives two callers the same frame.
THEOREM Exclusive == Spec => []NeverTwice
<1>1. AllocInv => NeverTwice
  BY DEF AllocInv
<1>2. QED
  BY <1>1, AllocatorCorrect, PTL

\* free_frames is the number of bits set and never underflows.
THEOREM CountExact == Spec => []Accounting
<1>1. AllocInv => Accounting
  BY DEF AllocInv
<1>2. QED
  BY <1>1, AllocatorCorrect, PTL

\* allocate_frame answers None only when every tracked conventional frame is out.
THEOREM RefusalHonest == Spec => []NoneMeansNone
<1>1. AllocInv => NoneMeansNone
  <2>1. SUFFICES ASSUME AllocInv, refused
                 PROVE  HandedOut = Conventional(Len(MemoryMap) + 1)
    BY DEF NoneMeansNone
  <2>2. i = Len(MemoryMap) + 1 /\ bitmap = {}
    <3>1. Len(MemoryMap) \in Nat /\ i \in 1 .. Len(MemoryMap) + 1
      BY <2>1, MapAssumption DEF AllocInv, TypeOK
    <3>2. QED
      BY <2>1, <3>1 DEF AllocInv, RefusedWhenEmpty, Online
  <2>3. QED
    BY <2>1, <2>2 DEF AllocInv, Partition
<1>2. QED
  BY <1>1, AllocatorCorrect, PTL

-----------------------------------------------------------------------------
(* The application processors.                                              *)

\* The stages of an AP, and the return addresses a stack may hold at each depth.
Stages == {"firmware", "waiting", "trampoline", "long", "stacked", "ap_main",
           "fetch_add", "counted", "halted"}
Stacks == 0 .. NumStacks - 1
Counted == {a \in APs : ap[a] \in {"counted", "halted"}}

SmpTypeOK ==
    /\ ap \in [APs -> Stages]
    /\ stack \in [APs -> 0 .. NumStacks]
    /\ slots \in [Stacks -> [1 .. 2 -> {None, "trampoline", "ap_main"}]]
    /\ AP_COUNT \in Nat /\ active_aps \in Nat

\* The counter on 0x8600 never leaves 0, and whoever is past the xadd has a stack of
\* the array.
OnAStack ==
    /\ next_stack = 0
    /\ \A a \in APs : ap[a] \in Running => stack[a] \in Stacks

\* At each depth a stack holds one call site's address or nothing.
OneSite ==
    \A s \in Stacks : slots[s][1] \in {None, "trampoline"} /\ slots[s][2] \in {None, "ap_main"}

SmpInv == SmpTypeOK /\ OnAStack /\ OneSite /\ ReturnsHome /\ CountHonest

\* The APs counted so far are finitely many, and one more makes one more.
LEMMA CountOneMore ==
    ASSUME SmpTypeOK, NEW a \in APs, a \notin Counted
    PROVE  /\ Cardinality(Counted) \in Nat
           /\ Cardinality(Counted \cup {a}) = Cardinality(Counted) + 1
<1>1. IsFiniteSet(Counted)
  BY SmpAssumption, FS_Subset DEF Counted
<1>2. QED
  BY <1>1, FS_AddElement, FS_CardinalityType

\* Every started AP is on a stack of the array, finds its own return addresses on it
\* and is counted once, although all of them take the same stack.
THEOREM BringUpCorrect == SmpSpec => []SmpInv
<1> USE SmpAssumption
<1>1. ASSUME SmpInit PROVE SmpInv
  <2> USE <1>1 DEF SmpInit
  <2>1. SmpTypeOK
    BY DEF SmpTypeOK, Stages, Stacks, None
  <2>2. OnAStack /\ OneSite /\ ReturnsHome
    BY DEF OnAStack, OneSite, ReturnsHome, Running, Stacks
  <2>3. CountHonest
    <3>1. {a \in APs : ap[a] \in {"counted", "halted"}} = {}
      OBVIOUS
    <3>2. Cardinality({a \in APs : ap[a] \in {"counted", "halted"}}) = 0
      BY <3>1, FS_EmptySet, Zenon
    <3>3. AP_COUNT = 0 /\ active_aps <= AP_COUNT
      OBVIOUS
    <3>4. QED
      BY <3>2, <3>3, Zenon DEF CountHonest
  <2>4. QED
    BY <2>1, <2>2, <2>3 DEF SmpInv
<1>2. ASSUME SmpInv, [SmpNext]_smpVars PROVE SmpInv'
  <2> USE <1>2 DEF SmpInv
  <2>1. Cardinality(Counted) = AP_COUNT /\ active_aps <= AP_COUNT
    BY DEF CountHonest, Counted
  <2>2. ASSUME Counted' = Counted, AP_COUNT' = AP_COUNT, active_aps' \in {active_aps, AP_COUNT}
        PROVE  CountHonest'
    <3>1. Cardinality(Counted') = AP_COUNT'
      BY <2>1, <2>2
    <3>2. active_aps' <= AP_COUNT'
      BY <2>1, <2>2 DEF SmpTypeOK
    <3>3. QED
      BY <3>1, <3>2 DEF CountHonest, Counted
  <2>3. ASSUME UNCHANGED <<ap, next_stack, stack, slots, AP_COUNT>>,
               active_aps' \in {active_aps, AP_COUNT}
        PROVE  SmpInv'
    <3>1. Counted' = Counted
      BY <2>3 DEF Counted
    <3>2. QED
      BY <2>2, <2>3, <3>1 DEF SmpTypeOK, OnAStack, OneSite, ReturnsHome
  <2>Boot. CASE copy_trampoline \/ FireInit \/ ReadCount
    BY <2>3, <2>Boot DEF copy_trampoline, FireInit, ReadCount, OnAStack
  <2>Sipi. CASE FireSipi
    <3> USE <2>Sipi DEF FireSipi
    <3>1. Counted' = Counted
      BY DEF Counted
    <3>2. SmpTypeOK'
      BY DEF SmpTypeOK, Stages
    <3>3. OnAStack' /\ OneSite' /\ ReturnsHome'
      BY DEF SmpTypeOK, OnAStack, OneSite, ReturnsHome, Running
    <3>4. QED
      BY <2>2, <3>1, <3>2, <3>3
  <2>Early. ASSUME NEW a \in APs, TakeInit(a) \/ EnterLongMode(a) PROVE SmpInv'
    <3> USE <2>Early DEF TakeInit, EnterLongMode, Goto
    <3>1. Counted' = Counted
      BY DEF Counted, SmpTypeOK
    <3>2. SmpTypeOK'
      BY DEF SmpTypeOK, Stages
    <3>3. OnAStack' /\ OneSite' /\ ReturnsHome'
      BY DEF SmpTypeOK, OnAStack, OneSite, ReturnsHome, Running
    <3>4. QED
      BY <2>2, <3>1, <3>2, <3>3
  <2>TakeStack. ASSUME NEW a \in APs, TakeStack(a) PROVE SmpInv'
    <3> USE <2>TakeStack DEF TakeStack, Goto
    <3>1. Counted' = Counted
      BY DEF Counted, SmpTypeOK
    <3>2. next_stack = 0 /\ next_stack' = 0 /\ 0 \in Stacks /\ 0 \in 0 .. NumStacks
      BY DEF OnAStack, Stacks
    <3>3. SmpTypeOK'
      BY <3>2 DEF SmpTypeOK, Stages
    <3>4. OnAStack' /\ OneSite' /\ ReturnsHome'
      BY <3>2 DEF SmpTypeOK, OnAStack, OneSite, ReturnsHome, Running
    <3>5. QED
      BY <2>2, <3>1, <3>3, <3>4
  <2>CallMain. ASSUME NEW a \in APs, CallMain(a) PROVE SmpInv'
    <3> USE <2>CallMain DEF CallMain, Goto, Push
    <3>1. Counted' = Counted
      BY DEF Counted, SmpTypeOK
    <3>2. stack[a] \in Stacks
      BY DEF OnAStack, Running
    <3>3. SmpTypeOK'
      BY <3>2 DEF SmpTypeOK, Stages
    <3>4. \A s \in Stacks : /\ slots'[s][1] = IF s = stack[a] THEN "trampoline" ELSE slots[s][1]
                            /\ slots'[s][2] = slots[s][2]
      BY <3>2 DEF SmpTypeOK
    <3>5. OnAStack' /\ OneSite'
      BY <3>4 DEF SmpTypeOK, OnAStack, OneSite, Running
    <3>6. ReturnsHome'
      BY <3>2, <3>4 DEF SmpTypeOK, OnAStack, ReturnsHome, Running
    <3>7. QED
      BY <2>2, <3>1, <3>3, <3>5, <3>6
  <2>CallFetchAdd. ASSUME NEW a \in APs, CallFetchAdd(a) PROVE SmpInv'
    <3> USE <2>CallFetchAdd DEF CallFetchAdd, Goto, Push
    <3>1. Counted' = Counted
      BY DEF Counted, SmpTypeOK
    <3>2. stack[a] \in Stacks
      BY DEF OnAStack, Running
    <3>3. SmpTypeOK'
      BY <3>2 DEF SmpTypeOK, Stages
    <3>4. \A s \in Stacks : /\ slots'[s][2] = IF s = stack[a] THEN "ap_main" ELSE slots[s][2]
                            /\ slots'[s][1] = slots[s][1]
      BY <3>2 DEF SmpTypeOK
    <3>5. OnAStack' /\ OneSite'
      BY <3>4 DEF SmpTypeOK, OnAStack, OneSite, Running
    <3>6. ReturnsHome'
      BY <3>2, <3>4 DEF SmpTypeOK, OnAStack, ReturnsHome, Running
    <3>7. QED
      BY <2>2, <3>1, <3>3, <3>5, <3>6
  <2>FetchAdd. ASSUME NEW a \in APs, FetchAdd(a) PROVE SmpInv'
    <3> USE <2>FetchAdd DEF FetchAdd, Goto
    <3>1. a \notin Counted /\ Counted' = Counted \cup {a}
      BY DEF Counted, SmpTypeOK
    <3>2. SmpTypeOK'
      BY DEF SmpTypeOK, Stages
    <3>3. OnAStack' /\ OneSite' /\ ReturnsHome'
      BY DEF SmpTypeOK, OnAStack, OneSite, ReturnsHome, Running
    <3>4. Cardinality(Counted') = AP_COUNT'
      BY <2>1, <3>1, CountOneMore
    <3>5. active_aps' <= AP_COUNT'
      BY <2>1 DEF SmpTypeOK
    <3>6. QED
      BY <3>2, <3>3, <3>4, <3>5 DEF CountHonest, Counted
  <2>Return. ASSUME NEW a \in APs, Return(a) PROVE SmpInv'
    <3> USE <2>Return DEF Return, Goto
    <3>1. ap' = [ap EXCEPT ![a] = "halted"] /\ ap[a] = "counted"
      BY DEF ReturnsHome
    <3>2. Counted' = Counted
      BY <3>1 DEF Counted, SmpTypeOK
    <3>3. SmpTypeOK'
      BY <3>1 DEF SmpTypeOK, Stages
    <3>4. OnAStack' /\ OneSite' /\ ReturnsHome'
      BY <3>1 DEF SmpTypeOK, OnAStack, OneSite, ReturnsHome, Running
    <3>5. QED
      BY <2>2, <3>2, <3>3, <3>4
  <2>Stutter. CASE UNCHANGED smpVars
    BY <2>3, <2>Stutter DEF smpVars
  <2>12. QED
    BY <2>Boot, <2>Sipi, <2>Early, <2>TakeStack, <2>CallMain, <2>CallFetchAdd,
       <2>FetchAdd, <2>Return, <2>Stutter DEF SmpNext, bspStep, apStep
<1>3. QED
  BY <1>1, <1>2, PTL DEF SmpSpec

\* The number _start prints is never more than the processors that reached ap_main,
\* and the atomic counter counts each once.
THEOREM CountIsHonest == SmpSpec => []CountHonest
  BY BringUpCorrect, PTL DEF SmpInv

\* No AP returns to an address it did not push, however many share a stack.
THEOREM EveryReturnHome == SmpSpec => []ReturnsHome
  BY BringUpCorrect, PTL DEF SmpInv
=============================================================================
