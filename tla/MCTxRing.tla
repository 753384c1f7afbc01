------------------------------ MODULE MCTxRing ------------------------------
(* The transmit ring with few descriptors: sends wrap around it.            *)
EXTENDS TxRing
=============================================================================
