-------------------------------- MODULE MCSmp --------------------------------
(* Three APs and two stacks: more processors than AP_STACKS has room for.   *)
EXTENDS Smp
=============================================================================
