----------------------------- MODULE MCNetStack -----------------------------
(* The web server, two clients and a gateway that changes its address, with *)
(* an ARP table that is one entry too short.                                *)
EXTENDS NetStack
=============================================================================
