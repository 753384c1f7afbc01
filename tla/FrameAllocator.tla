--------------------------- MODULE FrameAllocator ---------------------------
(***************************************************************************)
(* The physical frame allocator (frame_allocator.rs).  init walks the      *)
(* firmware's memory map and sets a bit for every frame of conventional    *)
(* memory that the bitmap can track; allocate_frame hands out the first    *)
(* frame whose bit is set.  Nothing gives a frame back.                    *)
(*                                                                         *)
(* bitmap is the set of frames whose bit is 1: frame i is bit i % 64 of    *)
(* word i / 64.                                                            *)
(***************************************************************************)
EXTENDS Naturals, Sequences, FiniteSets, FiniteSetsExt

CONSTANTS Capacity,    \* BITMAP_SIZE * 64: the frames the bitmap tracks
          MemoryMaps   \* the maps a firmware may report

Descriptor == [ty : Nat, start_frame : Nat, number_of_pages : Nat]
EfiConventionalMemory == 7

\* The frames of a descriptor.
Span(d) == d.start_frame .. d.start_frame + d.number_of_pages - 1

ASSUME CapacityAssumption == Capacity \in Nat
\* UEFI describes a frame at most once.
ASSUME MapAssumption ==
    \A m \in MemoryMaps :
        /\ m \in Seq(Descriptor)
        /\ \A j, k \in DOMAIN m : j # k => Span(m[j]) \cap Span(m[k]) = {}

VARIABLES MemoryMap,      \* the map BootInfo points to
          i,              \* the next descriptor of init
          bitmap, highest_frame, free_frames,
          handed,         \* history: the frames handed out, in order
          refused         \* history: allocate_frame has returned None

vars == <<MemoryMap, i, bitmap, highest_frame, free_frames, handed, refused>>

Init ==
    /\ MemoryMap \in MemoryMaps /\ i = 1
    /\ bitmap = {} /\ highest_frame = 0 /\ free_frames = 0
    /\ handed = <<>> /\ refused = FALSE

\* Mutant: the end of a descriptor is inclusive.
Frames_EndInclusive(d) ==
    {f \in d.start_frame .. d.start_frame + d.number_of_pages : f < Capacity}

\* The frames of a descriptor that the bitmap can track.
Frames(d) == {f \in Span(d) : f < Capacity}

\* Mutant: the highest frame is that of the last descriptor.
InitFree_LastHighest ==
    /\ i <= Len(MemoryMap) /\ MemoryMap[i].ty = EfiConventionalMemory
    /\ LET fs == Frames(MemoryMap[i])
       IN  /\ bitmap' = bitmap \cup fs
           /\ free_frames' = free_frames + Cardinality(fs)
           /\ highest_frame' = Max(fs \cup {0})
    /\ i' = i + 1
    /\ UNCHANGED <<MemoryMap, handed, refused>>

\* A descriptor of conventional memory: its frames are free.
InitFree ==
    /\ i <= Len(MemoryMap) /\ MemoryMap[i].ty = EfiConventionalMemory
    /\ LET fs == Frames(MemoryMap[i])
       IN  /\ bitmap' = bitmap \cup fs
           /\ free_frames' = free_frames + Cardinality(fs)
           /\ highest_frame' = Max(fs \cup {highest_frame})
    /\ i' = i + 1
    /\ UNCHANGED <<MemoryMap, handed, refused>>

\* Any other descriptor is passed over.
InitSkip ==
    /\ i <= Len(MemoryMap) /\ MemoryMap[i].ty # EfiConventionalMemory
    /\ i' = i + 1
    /\ UNCHANGED <<MemoryMap, bitmap, highest_frame, free_frames, handed, refused>>

Online == i > Len(MemoryMap)

\* Mutant: the bit of the frame is left set.
allocate_frame_BitStays ==
    /\ Online
    /\ \E f \in bitmap \cap (0 .. highest_frame) :
          /\ \A g \in bitmap : f <= g
          /\ free_frames' = free_frames - 1
          /\ handed' = Append(handed, f)
    /\ UNCHANGED <<MemoryMap, i, bitmap, highest_frame, refused>>

\* The first frame whose bit is set is handed out.
allocate_frame ==
    /\ Online
    /\ \E f \in bitmap \cap (0 .. highest_frame) :
          /\ \A g \in bitmap : f <= g
          /\ bitmap' = bitmap \ {f}
          /\ free_frames' = free_frames - 1
          /\ handed' = Append(handed, f)
    /\ UNCHANGED <<MemoryMap, i, highest_frame, refused>>

\* No bit is set up to highest_frame: None.
OutOfMemory ==
    /\ Online
    /\ bitmap \cap (0 .. highest_frame) = {}
    /\ refused' = TRUE
    /\ UNCHANGED <<MemoryMap, i, bitmap, highest_frame, free_frames, handed>>

Next == InitFree \/ InitSkip \/ allocate_frame \/ OutOfMemory

Spec == Init /\ [][Next]_vars

-----------------------------------------------------------------------------
(* Properties.                                                              *)

HandedOut == {handed[k] : k \in DOMAIN handed}

\* The tracked conventional frames of the descriptors before j.
Conventional(j) ==
    {f \in 0 .. Capacity - 1 :
        \E k \in 1 .. j - 1 : /\ MemoryMap[k].ty = EfiConventionalMemory
                              /\ f \in Span(MemoryMap[k])}

TypeOK ==
    /\ MemoryMap \in MemoryMaps
    /\ i \in 1 .. Len(MemoryMap) + 1
    /\ bitmap \subseteq 0 .. Capacity - 1
    /\ highest_frame \in Nat /\ free_frames \in Nat
    /\ handed \in Seq(0 .. Capacity - 1)
    /\ refused \in BOOLEAN

\* Every tracked conventional frame is free or has been handed out, never both;
\* no other frame is either.
Partition ==
    /\ bitmap \cup HandedOut = Conventional(i)
    /\ bitmap \cap HandedOut = {}

\* No two callers of allocate_frame get the same frame.
NeverTwice == \A j, k \in DOMAIN handed : handed[j] = handed[k] => j = k

\* The count is the number of bits set: the reported total is right, and
\* decrementing it never underflows.
Accounting == free_frames = Cardinality(bitmap)

\* "Out of memory!" means it: every tracked conventional frame has been handed
\* out.  The search ends at highest_frame, so no bit may lie beyond it.
NoneMeansNone == refused => HandedOut = Conventional(Len(MemoryMap) + 1)
=============================================================================
