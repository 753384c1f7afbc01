------------------------------ MODULE MCRxRing ------------------------------
(* The receive ring with few descriptors: it fills up and wraps around.     *)
EXTENDS RxRing
=============================================================================
