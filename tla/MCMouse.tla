------------------------------ MODULE MCMouse ------------------------------
(***************************************************************************)
(* Reports as the hardware sends them: at rest, left button, one unit      *)
(* right, one unit left and up; and nine units up, whose last byte also    *)
(* looks like a first byte.                                                *)
(***************************************************************************)
EXTENDS Mouse

MCPackets == {<<8, 0, 0>>, <<9, 0, 0>>, <<8, 1, 0>>, <<24, 255, 1>>, <<9, 0, 9>>}
=============================================================================
