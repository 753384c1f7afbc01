----------------------------- MODULE MCConsole -----------------------------
(* A terminal of three columns and three lines, a heap of nine allocations. *)
EXTENDS Console
=============================================================================
