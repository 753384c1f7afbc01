-------------------------------- MODULE Boot --------------------------------
(***************************************************************************)
(* The second half of _start (main.rs 312-371): storage, then audio, on    *)
(* one thread, while both controllers go on with what they were given; at  *)
(* its end the main loop, from which the ring-3 task reads the drive once  *)
(* more.                                                                   *)
(***************************************************************************)
EXTENDS Storage, Hda

vars == <<storageVars, hdaVars>>

Init == StorageInit /\ HdaInit

\* No audio controller on the bus.
NoAudio ==
    /\ boot = "audio" /\ hda = "reset" /\ CRST = "off"
    /\ boot' = "loop"
    /\ UNCHANGED <<nvmeVars, disk, HTTP_PAYLOAD, hdaVars>>

\* "READY: WAITING FOR INCOMING TCP CONNECTIONS".
Ready ==
    /\ boot = "audio" /\ hda = "done"
    /\ boot' = "loop"
    /\ UNCHANGED <<nvmeVars, disk, HTTP_PAYLOAD, hdaVars>>

\* The kernel's only thread.
Kernel ==
    \/ StorageStep /\ UNCHANGED hdaVars
    \/ boot = "audio" /\ hdaStep /\ UNCHANGED storageVars
    \/ NoAudio \/ Ready

Next ==
    \/ Kernel
    \/ SysRead /\ UNCHANGED hdaVars
    \/ Controller /\ UNCHANGED <<disk, boot, HTTP_PAYLOAD, hdaVars>>
    \/ AudioDevice /\ UNCHANGED storageVars

\* The kernel runs; the controllers need not.
Spec == Init /\ [][Next]_vars /\ WF_vars(Kernel)

-----------------------------------------------------------------------------
(* Properties.                                                              *)

\* The kernel panics at boot only where a driver's init gave up before it had
\* allocated its rings, or where a cluster really lies beyond the last block
\* number: never because of what a read that timed out left in its buffer.
PanicExplained ==
    /\ pc = "panic" => ~mapped \/ disk.rootAt >= U32 \/ disk.fileAt >= U32
    /\ hda = "panic" => ~corb_ptr

\* The boot comes to its end, or to a panic, even when no controller ever answers.
BootEnds == <>(boot = "loop" \/ pc = "panic" \/ hda = "panic")
=============================================================================
