-------------------------- MODULE MCFrameAllocator --------------------------
(***************************************************************************)
(* Every map of three descriptors, in any order, over seven frames of      *)
(* which five can be tracked: holes, empty descriptors, descriptors across *)
(* and beyond the capacity.                                                *)
(***************************************************************************)
EXTENDS FrameAllocator

MCDescriptors == {d \in [ty : {4, 7}, start_frame : 0 .. 6, number_of_pages : {0, 2, 3}] :
                    d.start_frame + d.number_of_pages <= 7}
Apart(d, e) == Span(d) \cap Span(e) = {}
MCMemoryMaps ==
    {m \in [1 .. 3 -> MCDescriptors] :
        Apart(m[1], m[2]) /\ Apart(m[1], m[3]) /\ Apart(m[2], m[3])}
=============================================================================
