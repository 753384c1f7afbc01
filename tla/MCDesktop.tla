----------------------------- MODULE MCDesktop -----------------------------
(***************************************************************************)
(* A screen of 4 by 5 units with a window of 2 by 3: it can be dragged     *)
(* over three columns and two rows.  The mouse reports: at rest, left      *)
(* button held, and with the button held one unit right and down, or one   *)
(* unit left and up.                                                       *)
(***************************************************************************)
EXTENDS Desktop

MCPackets == {<<8, 0, 0>>, <<9, 0, 0>>, <<41, 1, 255>>, <<25, 255, 1>>}
=============================================================================
