------------------------------ MODULE MCRing3 ------------------------------
(* Tables of two entries; the TLB is followed for the null page, one page    *)
(* of a page table and a page of the second half.                            *)
EXTENDS Ring3

MCWatched == {<<0, 0, 0, 0>>, <<0, 0, 1, 1>>, <<1, 0, 0, 0>>}
=============================================================================
