--------------------------------- MODULE Hda ---------------------------------
(***************************************************************************)
(* The audio driver (hda.rs): init() wakes the controller and starts the   *)
(* CORB, the ring of commands ("verbs") to the codec; play_tone() resets   *)
(* the output stream, describes the buffer to it, sends seven verbs and    *)
(* sets it running.  Nothing waits for a verb to be executed, and every    *)
(* wait for a register gives up after a count.                             *)
(***************************************************************************)
EXTENDS Naturals, Sequences

CONSTANTS CorbSize,      \* entries of the CORB (256)
          NumVerbs       \* verbs play_tone sends (7)

ASSUME HdaAssumption == CorbSize \in Nat /\ NumVerbs \in Nat \ {0} /\ NumVerbs < CorbSize

VARIABLES
    \* the driver
    hda,           \* where the kernel is in init and play_tone
    corb_ptr,      \* the ring is allocated (not null)
    next_verb,     \* the verb play_tone sends next
    wp,            \* send_corb_cmd's local: the entry of the verb
    patient,       \* history: the wait for the end of the stream reset saw it
    \* memory and registers
    corb,          \* the ring; 0 is an entry that was never written
    CRST, CORBWP, CORBRP,
    SRST,          \* the stream's reset bit as written
    inReset,       \* ... and as read back
    set,           \* the stream registers hold buffer list, length and format
    RUN,
    executed       \* history: what the codec was told

ctrlVars == <<CRST, CORBRP, executed>>
streamVars == <<SRST, inReset, set, RUN>>
driverVars == <<hda, corb_ptr, next_verb, wp, patient>>
hdaVars == <<driverVars, ctrlVars, streamVars, corb, CORBWP>>

\* The firmware may have woken the controller and left a stream in use.
HdaInit ==
    /\ hda = "reset" /\ corb_ptr = FALSE /\ next_verb = 1 /\ wp = 0 /\ patient = FALSE
    /\ corb = [i \in 0 .. CorbSize - 1 |-> 0]
    /\ CRST \in {"off", "on"} /\ CORBWP = 0 /\ CORBRP = 0
    /\ SRST = FALSE /\ inReset = FALSE /\ set = FALSE /\ RUN \in BOOLEAN
    /\ executed = <<>>

HdaGoto(from, to) == hda = from /\ hda' = to

-----------------------------------------------------------------------------
(* init.                                                                    *)

LeaveReset ==
    /\ HdaGoto("reset", "wake")
    /\ CRST' = IF CRST = "off" THEN "asked" ELSE CRST
    /\ UNCHANGED <<corb_ptr, next_verb, wp, patient, CORBRP, executed, streamVars, corb, CORBWP>>

\* The controller is awake: allocate the rings, reset both pointers, start the DMA.
StartRings ==
    /\ CRST = "on" /\ HdaGoto("wake", "stop")
    /\ corb_ptr' = TRUE
    /\ CORBWP' = 0 /\ CORBRP' = 0
    /\ UNCHANGED <<next_verb, wp, patient, CRST, executed, streamVars, corb>>

\* It is not, and the count runs out: init returns, and _start calls play_tone.
WakeTimeout ==
    /\ CRST # "on" /\ HdaGoto("wake", "stop")
    /\ UNCHANGED <<corb_ptr, next_verb, wp, patient, ctrlVars, streamVars, corb, CORBWP>>

-----------------------------------------------------------------------------
(* play_tone.                                                               *)

\* Stop the stream and ask for its reset.
StopStream ==
    /\ HdaGoto("stop", "enter")
    /\ RUN' = FALSE /\ SRST' = TRUE
    /\ UNCHANGED <<corb_ptr, next_verb, wp, patient, ctrlVars, inReset, set, corb, CORBWP>>

\* The reset has begun, or the count has run out: ask for its end.
EndReset ==
    /\ HdaGoto("enter", "leave")
    /\ SRST' = FALSE
    /\ UNCHANGED <<corb_ptr, next_verb, wp, patient, ctrlVars, inReset, set, RUN, corb, CORBWP>>

\* The reset has ended, or the count has run out: buffer list, length, last index
\* and format.  A stream in reset does not take them.
DescribeBuffer ==
    /\ HdaGoto("leave", "verb")
    /\ patient' = ~inReset
    /\ set' = ~inReset
    /\ UNCHANGED <<corb_ptr, next_verb, wp, ctrlVars, SRST, inReset, RUN, corb, CORBWP>>

\* send_corb_cmd on a ring that init did not allocate: a slice is made of a null
\* pointer, and the debug build panics.
VerbNull ==
    /\ ~corb_ptr /\ HdaGoto("verb", "panic")
    /\ UNCHANGED <<corb_ptr, next_verb, wp, patient, ctrlVars, streamVars, corb, CORBWP>>

\* Mutant: the verb goes to the entry of the write pointer, not to the next one.
StoreVerb_SameEntry ==
    /\ corb_ptr /\ HdaGoto("verb", "doorbell")
    /\ wp' = (CORBWP + 1) % CorbSize
    /\ corb' = [corb EXCEPT ![CORBWP] = next_verb]
    /\ UNCHANGED <<corb_ptr, next_verb, patient, ctrlVars, streamVars, CORBWP>>

\* Store the verb in the entry after the write pointer ...
StoreVerb ==
    /\ corb_ptr /\ HdaGoto("verb", "doorbell")
    /\ wp' = (CORBWP + 1) % CorbSize
    /\ corb' = [corb EXCEPT ![(CORBWP + 1) % CorbSize] = next_verb]
    /\ UNCHANGED <<corb_ptr, next_verb, patient, ctrlVars, streamVars, CORBWP>>

\* ... and let the controller have it.
RingCorb ==
    /\ HdaGoto("doorbell", IF next_verb = NumVerbs THEN "fire" ELSE "verb")
    /\ CORBWP' = wp
    /\ next_verb' = next_verb + 1
    /\ UNCHANGED <<corb_ptr, wp, patient, ctrlVars, streamVars, corb>>

\* Mutant: bit 0 for bit 1, as the code once had it.
Fire_Bit0 ==
    /\ HdaGoto("fire", "done")
    /\ SRST' = TRUE
    /\ UNCHANGED <<corb_ptr, next_verb, wp, patient, ctrlVars, inReset, set, RUN, corb, CORBWP>>

\* After a fixed delay, read the control byte, reset bit and all, and write it back
\* with RUN.  A stream in reset does not run.
Fire ==
    /\ HdaGoto("fire", "done")
    /\ SRST' = inReset
    /\ RUN' = ~inReset
    /\ UNCHANGED <<corb_ptr, next_verb, wp, patient, ctrlVars, inReset, set, corb, CORBWP>>

hdaStep == LeaveReset \/ StartRings \/ WakeTimeout \/ StopStream \/ EndReset
             \/ DescribeBuffer \/ VerbNull \/ StoreVerb \/ RingCorb \/ Fire

-----------------------------------------------------------------------------
(* The controller.                                                          *)

Wakes ==
    /\ CRST = "asked" /\ CRST' = "on"
    /\ UNCHANGED <<driverVars, CORBRP, executed, streamVars, corb, CORBWP>>

\* The stream follows its reset bit; going into reset it forgets everything.
StreamReset ==
    /\ SRST # inReset
    /\ inReset' = SRST
    /\ set' = (set /\ ~SRST) /\ RUN' = (RUN /\ ~SRST)
    /\ UNCHANGED <<driverVars, ctrlVars, SRST, corb, CORBWP>>

\* Take the next verb from the ring, once it runs.
Execute ==
    /\ corb_ptr /\ CORBRP # CORBWP
    /\ CORBRP' = (CORBRP + 1) % CorbSize
    /\ executed' = Append(executed, corb[CORBRP'])
    /\ UNCHANGED <<driverVars, CRST, streamVars, corb, CORBWP>>

AudioDevice == Wakes \/ StreamReset \/ Execute

-----------------------------------------------------------------------------
(* Properties.                                                              *)

\* The codec is told the verbs in play_tone's order, each once, although nothing
\* waits for it: it never reads an entry that is not written yet.
VerbsInOrder == executed = [i \in 1 .. Len(executed) |-> i]

\* When play_tone has fired, the stream runs and knows its buffer and format,
\* however late the resets are, provided the last wait saw the reset end.
StreamPlays == hda = "done" /\ patient => RUN /\ set
=============================================================================
