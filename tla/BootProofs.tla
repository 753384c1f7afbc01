----------------------------- MODULE BootProofs -----------------------------
(***************************************************************************)
(* Proofs about the second half of _start: the NVMe driver, the page read  *)
(* from the FAT32 volume and the audio driver, on one thread beside two    *)
(* controllers that work in any order.                                     *)
(*                                                                         *)
(*   audio    HdaInv: the verbs the codec has got are the first of the     *)
(*            list, and the stream that runs is the one that was set up.   *)
(*   buffers  NvmeInv: a command names the buffer and the block of its own *)
(*            read, so every half of a buffer is blank or that block's.    *)
(*   page     StorageInv: the block each read was asked for is the one the *)
(*            volume's layout gives, or the boot has ended in a message.   *)
(*   status   SeenInv: in the first round of the queues, the p completions *)
(*            posted stand for p reads that are complete.                  *)
(***************************************************************************)
EXTENDS Boot, FiniteSetTheorems, TLAPS

-----------------------------------------------------------------------------
(* Audio.                                                                   *)

\* The places of init and play_tone before the first verb, and from it on.
Before == {"reset", "wake", "stop", "enter", "leave"}
Sending == {"verb", "doorbell", "fire", "done"}

HdaTypeOK ==
    /\ hda \in Before \cup Sending \cup {"panic"}
    /\ {corb_ptr, patient, SRST, inReset, set, RUN} \subseteq BOOLEAN
    /\ next_verb \in 1 .. NumVerbs + 1 /\ wp \in Nat
    /\ corb \in [0 .. CorbSize - 1 -> Nat]
    /\ executed \in Seq(Nat)

\* The write pointer stands at the last verb sent, the read pointer at the last one
\* executed, and every entry up to the write pointer holds the verb of its number.
CorbInv ==
    /\ CORBWP = next_verb - 1 /\ CORBRP = Len(executed) /\ CORBRP <= CORBWP
    /\ \A i \in 1 .. CORBWP : corb[i] = i
    /\ \A i \in 1 .. Len(executed) : executed[i] = i
    /\ hda \in Before => next_verb = 1
    /\ hda \in {"verb", "doorbell"} => next_verb <= NumVerbs
    /\ hda = "doorbell" => wp = next_verb /\ corb[next_verb] = next_verb

\* Once the wait has seen the reset end, the stream can only run.
StreamInv ==
    /\ hda = "leave" => ~SRST
    /\ hda \in Sending /\ patient => ~SRST /\ ~inReset /\ set
    /\ hda = "done" /\ patient => RUN

\* play_tone panics only on a ring that was never allocated.
NullInv == hda = "panic" => ~corb_ptr

HdaInv == HdaTypeOK /\ CorbInv /\ StreamInv /\ NullInv

\* The ring is longer than the tone: no index wraps.
LEMMA RingSize ==
    /\ \A n \in 0 .. NumVerbs - 1 : (n + 1) % CorbSize = n + 1
    /\ NumVerbs \in Nat /\ 1 <= NumVerbs
    /\ \A n \in 0 .. NumVerbs : n \in 0 .. CorbSize - 1
  BY HdaAssumption

\* What sending a verb does to the ring.
LEMMA VerbSent ==
    ASSUME HdaTypeOK, CorbInv, StoreVerb
    PROVE  /\ next_verb \in 1 .. NumVerbs /\ wp' = next_verb
           /\ corb' \in [0 .. CorbSize - 1 -> Nat] /\ corb'[next_verb] = next_verb
           /\ \A i \in 1 .. CORBWP : corb'[i] = i
<1>1. hda = "verb" /\ wp' = (CORBWP + 1) % CorbSize
  BY DEF StoreVerb, HdaGoto
<1>2. corb' = [corb EXCEPT ![(CORBWP + 1) % CorbSize] = next_verb]
  BY DEF StoreVerb
<1>3. next_verb <= NumVerbs
  BY <1>1 DEF CorbInv
<1>4. next_verb \in 1 .. NumVerbs + 1 /\ corb \in [0 .. CorbSize - 1 -> Nat]
  BY DEF HdaTypeOK
<1>5. next_verb \in 1 .. NumVerbs
  BY <1>3, <1>4, RingSize
<1>6. CORBWP = next_verb - 1 /\ \A i \in 1 .. CORBWP : corb[i] = i
  BY DEF CorbInv
<1>7. CORBWP \in 0 .. NumVerbs - 1 /\ CORBWP + 1 = next_verb
  BY <1>5, <1>6, RingSize
<1>8. (CORBWP + 1) % CorbSize = next_verb
  BY <1>7, RingSize
<1>9. next_verb \in 0 .. CorbSize - 1
  BY <1>5, RingSize
<1>10. corb' = [corb EXCEPT ![next_verb] = next_verb]
  BY <1>2, <1>8
<1>11. corb' \in [0 .. CorbSize - 1 -> Nat] /\ corb'[next_verb] = next_verb
  BY <1>4, <1>9, <1>10
<1>12. ASSUME NEW i \in 1 .. CORBWP PROVE corb'[i] = i
  <2>1. i # next_verb /\ i \in 0 .. NumVerbs
    BY <1>7, RingSize
  <2>2. corb'[i] = corb[i]
    BY <1>4, <1>10, <2>1, RingSize
  <2>3. QED
    BY <1>6, <2>2
<1>13. QED
  BY <1>1, <1>5, <1>8, <1>11, <1>12

\* Steps that leave the ring, its pointers and the verb alone.
LEMMA RingIdle ==
    ASSUME HdaTypeOK, CorbInv, UNCHANGED <<next_verb, corb, CORBWP, CORBRP, executed>>,
           hda' \in Before => hda \in Before,
           hda' \in {"verb", "doorbell"} => hda = hda' \/ hda \in Before,
           hda' = "doorbell" => hda = "doorbell" /\ wp' = wp
    PROVE  CorbInv'
<1>1. CORBWP' = next_verb' - 1 /\ CORBRP' = Len(executed') /\ CORBRP' <= CORBWP'
  BY DEF CorbInv
<1>2. /\ \A i \in 1 .. CORBWP' : corb'[i] = i
      /\ \A i \in 1 .. Len(executed') : executed'[i] = i
  BY DEF CorbInv
<1>3. hda' \in Before => next_verb' = 1
  BY DEF CorbInv
<1>4. hda' \in {"verb", "doorbell"} => next_verb' <= NumVerbs
  <2>1. hda \in Before => next_verb <= NumVerbs
    BY RingSize DEF CorbInv
  <2>2. QED
    BY <2>1 DEF CorbInv
<1>5. hda' = "doorbell" => wp' = next_verb' /\ corb'[next_verb'] = next_verb'
  BY DEF CorbInv
<1>6. QED
  BY <1>1, <1>2, <1>3, <1>4, <1>5 DEF CorbInv

\* The ring, whatever the kernel and the controller do.
LEMMA CorbStep ==
    ASSUME HdaTypeOK, CorbInv, hdaStep \/ AudioDevice
    PROVE  CorbInv'
<1>1. CASE \/ LeaveReset \/ WakeTimeout \/ StopStream \/ EndReset \/ DescribeBuffer
           \/ VerbNull \/ Fire \/ Wakes \/ StreamReset
  <2>1. UNCHANGED <<next_verb, corb, CORBWP, CORBRP, executed, wp>>
    BY <1>1 DEF LeaveReset, WakeTimeout, StopStream, EndReset, DescribeBuffer, VerbNull,
                Fire, Wakes, StreamReset, driverVars, ctrlVars
  <2>2. \/ hda \in Before /\ hda' \in (Before \ {"reset"}) \cup {"verb"}
        \/ hda' \in {"panic", "done"}
        \/ hda' = hda
    BY <1>1 DEF LeaveReset, WakeTimeout, StopStream, EndReset, DescribeBuffer, VerbNull,
                Fire, Wakes, StreamReset, driverVars, HdaGoto, Before
  <2>3. QED
    BY <2>1, <2>2, RingIdle DEF Before
<1>2. CASE StartRings
  <2>1. hda = "wake" /\ hda' = "stop" /\ UNCHANGED <<next_verb, corb, executed, wp>>
    BY <1>2 DEF StartRings, HdaGoto
  <2>2. CORBWP' = 0 /\ CORBRP' = 0
    BY <1>2 DEF StartRings
  <2>3. next_verb = 1
    BY <2>1 DEF CorbInv, Before
  <2>4. CORBWP = 0 /\ CORBRP = 0
    <3>1. CORBWP = next_verb - 1 /\ CORBRP = Len(executed) /\ CORBRP <= CORBWP
      BY DEF CorbInv
    <3>2. Len(executed) \in Nat
      BY DEF HdaTypeOK
    <3>3. QED
      BY <2>3, <3>1, <3>2
  <2>5. QED
    BY <2>1, <2>2, <2>4, RingIdle DEF Before
<1>3. CASE StoreVerb
  <2>1. hda' = "doorbell" /\ UNCHANGED <<next_verb, CORBWP, CORBRP, executed>>
    BY <1>3 DEF StoreVerb, HdaGoto, ctrlVars
  <2>2. /\ next_verb \in 1 .. NumVerbs /\ wp' = next_verb
        /\ corb'[next_verb] = next_verb /\ \A i \in 1 .. CORBWP : corb'[i] = i
    BY <1>3, VerbSent
  <2>3. next_verb <= NumVerbs
    BY <2>2, RingSize
  <2>4. CORBWP' = next_verb' - 1 /\ CORBRP' = Len(executed') /\ CORBRP' <= CORBWP'
    BY <2>1 DEF CorbInv
  <2>5. \A i \in 1 .. Len(executed') : executed'[i] = i
    BY <2>1 DEF CorbInv
  <2>6. QED
    BY <2>3, <2>4, <2>5, <2>1, <2>2 DEF CorbInv, Before
<1>4. CASE RingCorb
  <2>1. hda = "doorbell" /\ hda' = IF next_verb = NumVerbs THEN "fire" ELSE "verb"
    BY <1>4 DEF RingCorb, HdaGoto
  <2>2. UNCHANGED <<wp, corb, CORBRP, executed>>
    BY <1>4 DEF RingCorb, ctrlVars
  <2>3. CORBWP' = wp
    BY <1>4 DEF RingCorb
  <2>4. next_verb' = next_verb + 1
    BY <1>4 DEF RingCorb
  <2>5. next_verb <= NumVerbs /\ wp = next_verb /\ corb[next_verb] = next_verb
    BY <2>1 DEF CorbInv
  <2>6. next_verb \in Nat /\ Len(executed) \in Nat
    BY RingSize DEF HdaTypeOK
  <2>7. CORBWP = next_verb - 1 /\ CORBRP = Len(executed) /\ CORBRP <= CORBWP
    BY DEF CorbInv
  <2>8. CORBWP' = next_verb' - 1 /\ CORBRP' = Len(executed') /\ CORBRP' <= CORBWP'
    BY <2>5, <2>6, <2>7, <2>2, <2>3, <2>4
  <2>9. \A i \in 1 .. next_verb - 1 : corb[i] = i
    BY <2>7 DEF CorbInv
  <2>10. \A i \in 1 .. next_verb : corb[i] = i
    BY <2>5, <2>6, <2>9
  <2>11. \A i \in 1 .. CORBWP' : corb'[i] = i
    BY <2>2, <2>3, <2>5, <2>10
  <2>12. \A i \in 1 .. Len(executed') : executed'[i] = i
    BY <2>2 DEF CorbInv
  <2>13. hda' = "verb" => next_verb # NumVerbs
    BY <2>1
  <2>14. hda' = "verb" => next_verb' <= NumVerbs
    BY <2>4, <2>5, <2>6, <2>13, RingSize
  <2>15. hda' \in {"fire", "verb"}
    BY <2>1
  <2>16. QED
    BY <2>8, <2>11, <2>12, <2>14, <2>15 DEF CorbInv, Before
<1>5. CASE Execute
  <2>1. UNCHANGED <<hda, next_verb, wp, corb, CORBWP>> /\ CORBRP # CORBWP
    BY <1>5 DEF Execute, driverVars
  <2>2. CORBRP' = (CORBRP + 1) % CorbSize
    BY <1>5 DEF Execute
  <2>3. executed' = Append(executed, corb[CORBRP'])
    BY <1>5 DEF Execute
  <2>4. next_verb \in 1 .. NumVerbs + 1 /\ executed \in Seq(Nat) /\ Len(executed) \in Nat
    BY DEF HdaTypeOK
  <2>5. CORBWP = next_verb - 1 /\ CORBRP = Len(executed) /\ CORBRP <= CORBWP
    BY DEF CorbInv
  <2>6. CORBRP \in 0 .. NumVerbs - 1 /\ CORBRP < CORBWP
    BY <2>1, <2>4, <2>5, RingSize
  <2>7. CORBRP' = CORBRP + 1
    BY <2>2, <2>6, RingSize
  <2>8. CORBRP + 1 \in 1 .. CORBWP
    BY <2>4, <2>5, <2>6
  <2>9. corb[CORBRP + 1] = CORBRP + 1
    BY <2>8 DEF CorbInv
  <2>10. executed' = Append(executed, CORBRP + 1)
    BY <2>3, <2>7, <2>9
  <2>11. CORBRP + 1 \in Nat
    BY <2>4, <2>5
  <2>12. Len(executed') = Len(executed) + 1
    BY <2>4, <2>10, <2>11
  <2>13. \A i \in 1 .. Len(executed) : executed'[i] = executed[i]
    BY <2>4, <2>10, <2>11
  <2>14. executed'[Len(executed) + 1] = Len(executed) + 1
    BY <2>4, <2>5, <2>10, <2>11
  <2>15. \A i \in 1 .. Len(executed) : executed[i] = i
    BY DEF CorbInv
  <2>16. \A i \in 1 .. Len(executed') : executed'[i] = i
    BY <2>4, <2>12, <2>13, <2>14, <2>15
  <2>17. CORBWP' = next_verb' - 1 /\ CORBRP' = Len(executed') /\ CORBRP' <= CORBWP'
    BY <2>1, <2>4, <2>5, <2>6, <2>7, <2>12
  <2>18. \A i \in 1 .. CORBWP' : corb'[i] = i
    BY <2>1 DEF CorbInv
  <2>19. /\ hda' \in Before => next_verb' = 1
         /\ hda' \in {"verb", "doorbell"} => next_verb' <= NumVerbs
         /\ hda' = "doorbell" => wp' = next_verb' /\ corb'[next_verb'] = next_verb'
    BY <2>1 DEF CorbInv
  <2>20. QED
    BY <2>16, <2>17, <2>18, <2>19 DEF CorbInv
<1>6. QED
  BY <1>1, <1>2, <1>3, <1>4, <1>5 DEF hdaStep, AudioDevice

\* The stream, however late its resets are.
LEMMA StreamStep ==
    ASSUME HdaTypeOK, StreamInv, hdaStep \/ AudioDevice
    PROVE  StreamInv'
<1>0. {corb_ptr, patient, SRST, inReset, set, RUN} \subseteq BOOLEAN
  BY DEF HdaTypeOK
<1>1. CASE LeaveReset \/ WakeTimeout \/ StartRings \/ StopStream \/ VerbNull
  <2>1. hda' \notin Sending /\ hda' # "leave"
    BY <1>1 DEF LeaveReset, WakeTimeout, StartRings, StopStream, VerbNull, HdaGoto, Sending
  <2>2. QED
    BY <2>1 DEF StreamInv, Sending
<1>2. CASE EndReset
  BY <1>2 DEF EndReset, HdaGoto, StreamInv, Sending
<1>3. CASE DescribeBuffer
  <2>1. hda = "leave" /\ hda' = "verb" /\ UNCHANGED <<SRST, inReset>>
    BY <1>3 DEF DescribeBuffer, HdaGoto
  <2>2. patient' = ~inReset /\ set' = ~inReset
    BY <1>3 DEF DescribeBuffer
  <2>3. ~SRST
    BY <2>1 DEF StreamInv
  <2>4. QED
    BY <2>1, <2>2, <2>3 DEF StreamInv
<1>4. CASE StoreVerb \/ RingCorb
  <2>1. UNCHANGED <<SRST, inReset, set, RUN, patient>> /\ hda \in Sending /\ hda' \in Sending \ {"done"}
    BY <1>4 DEF StoreVerb, RingCorb, HdaGoto, streamVars, Sending
  <2>2. QED
    BY <2>1 DEF StreamInv, Sending
<1>5. CASE Fire
  <2>1. hda = "fire" /\ hda' = "done" /\ UNCHANGED <<inReset, set, patient>>
    BY <1>5 DEF Fire, HdaGoto
  <2>2. SRST' = inReset /\ RUN' = ~inReset
    BY <1>5 DEF Fire
  <2>3. patient => ~inReset /\ set
    BY <2>1 DEF StreamInv, Sending
  <2>4. QED
    BY <2>1, <2>2, <2>3 DEF StreamInv
<1>6. CASE Wakes \/ Execute
  <2>1. UNCHANGED <<hda, patient, SRST, inReset, set, RUN>>
    BY <1>6 DEF Wakes, Execute, driverVars, streamVars
  <2>2. QED
    BY <2>1 DEF StreamInv
<1>7. CASE StreamReset
  <2>1. UNCHANGED <<hda, patient, SRST>> /\ SRST # inReset
    BY <1>7 DEF StreamReset, driverVars
  <2>2. ~(hda \in Sending /\ patient)
    BY <1>0, <2>1 DEF StreamInv
  <2>3. hda = "done" => hda \in Sending
    BY DEF Sending
  <2>4. QED
    BY <2>1, <2>2, <2>3 DEF StreamInv
<1>8. QED
  BY <1>4, <1>5, <1>6, <1>7, <1>1, <1>2, <1>3 DEF hdaStep, AudioDevice

\* Nothing allocates the ring after the panic.
LEMMA NullStep ==
    ASSUME NullInv, hdaStep \/ AudioDevice
    PROVE  NullInv'
<1>1. CASE VerbNull
  BY <1>1 DEF VerbNull, NullInv
<1>2. CASE AudioDevice
  BY <1>2 DEF AudioDevice, Wakes, StreamReset, Execute, driverVars, NullInv
<1>3. CASE hdaStep /\ ~VerbNull
  <2>1. hda' # "panic"
    BY <1>3 DEF hdaStep, LeaveReset, StartRings, WakeTimeout, StopStream, EndReset,
       DescribeBuffer, StoreVerb, RingCorb, Fire, HdaGoto
  <2>2. QED
    BY <2>1 DEF NullInv
<1>4. QED
  BY <1>1, <1>2, <1>3

\* The types.
LEMMA HdaTypes ==
    ASSUME HdaTypeOK, CorbInv, hdaStep \/ AudioDevice
    PROVE  HdaTypeOK'
<1>0. /\ {corb_ptr, patient, SRST, inReset, set, RUN} \subseteq BOOLEAN
      /\ hda \in Before \cup Sending \cup {"panic"}
  BY DEF HdaTypeOK
<1>1. hda' \in Before \cup Sending \cup {"panic"}
  BY <1>0 DEF hdaStep, AudioDevice, LeaveReset, StartRings, WakeTimeout, StopStream, EndReset,
     DescribeBuffer, VerbNull, StoreVerb, RingCorb, Fire, Wakes, StreamReset, Execute,
     HdaGoto, driverVars, Before, Sending
<1>2. {corb_ptr, patient, SRST, inReset, set, RUN}' \subseteq BOOLEAN
  BY <1>0 DEF hdaStep, AudioDevice, LeaveReset, StartRings, WakeTimeout, StopStream, EndReset,
     DescribeBuffer, VerbNull, StoreVerb, RingCorb, Fire, Wakes, StreamReset, Execute,
     driverVars, streamVars
<1>3. next_verb' \in 1 .. NumVerbs + 1
  <2>1. CASE RingCorb
    <3>1. hda = "doorbell"
      BY <2>1 DEF RingCorb, HdaGoto
    <3>2. next_verb' = next_verb + 1
      BY <2>1 DEF RingCorb
    <3>3. next_verb <= NumVerbs
      BY <3>1 DEF CorbInv
    <3>4. QED
      BY <3>2, <3>3, RingSize DEF HdaTypeOK
  <2>2. CASE ~RingCorb
    <3>1. next_verb' = next_verb
      BY <2>2 DEF hdaStep, AudioDevice, LeaveReset, StartRings, WakeTimeout, StopStream, EndReset,
         DescribeBuffer, VerbNull, StoreVerb, Fire, Wakes, StreamReset, Execute, driverVars
    <3>2. QED
      BY <3>1 DEF HdaTypeOK
  <2>3. QED
    BY <2>1, <2>2
<1>4. wp' \in Nat /\ corb' \in [0 .. CorbSize - 1 -> Nat]
  <2>1. CASE StoreVerb
    <3>1. next_verb \in 1 .. NumVerbs /\ wp' = next_verb /\ corb' \in [0 .. CorbSize - 1 -> Nat]
      BY <2>1, VerbSent
    <3>2. QED
      BY <3>1, RingSize
  <2>2. CASE ~StoreVerb
    <3>1. wp' = wp /\ corb' = corb
      BY <2>2 DEF hdaStep, AudioDevice, LeaveReset, StartRings, WakeTimeout, StopStream, EndReset,
         DescribeBuffer, VerbNull, RingCorb, Fire, Wakes, StreamReset, Execute, driverVars
    <3>2. QED
      BY <3>1 DEF HdaTypeOK
  <2>3. QED
    BY <2>1, <2>2
<1>5. executed' \in Seq(Nat)
  <2>1. CASE Execute
    <3>1. executed' = Append(executed, corb[CORBRP']) /\ CORBRP' = (CORBRP + 1) % CorbSize
      BY <2>1 DEF Execute
    <3>2. CORBRP \in Nat /\ CorbSize \in Nat /\ CorbSize > 0
      BY HdaAssumption DEF CorbInv, HdaTypeOK
    <3>3. CORBRP' \in 0 .. CorbSize - 1
      BY <3>1, <3>2
    <3>4. corb[CORBRP'] \in Nat
      BY <3>3 DEF HdaTypeOK
    <3>5. QED
      BY <3>1, <3>4 DEF HdaTypeOK
  <2>2. CASE ~Execute
    <3>1. executed' = executed
      BY <2>2 DEF hdaStep, AudioDevice, LeaveReset, StartRings, WakeTimeout, StopStream, EndReset,
         DescribeBuffer, VerbNull, StoreVerb, RingCorb, Fire, Wakes, StreamReset, ctrlVars
    <3>2. QED
      BY <3>1 DEF HdaTypeOK
  <2>3. QED
    BY <2>1, <2>2
<1>6. QED
  BY <1>1, <1>2, <1>3, <1>4, <1>5 DEF HdaTypeOK

\* Audio: the ring and the stream, whatever storage does beside them.
THEOREM AudioCorrect == Spec => []HdaInv
<1>1. Init => HdaInv
  <2> SUFFICES ASSUME Init PROVE HdaInv
    OBVIOUS
  <2>1. HdaInit
    BY DEF Init
  <2>2. executed = <<>> /\ executed \in Seq(Nat) /\ Len(executed) = 0
    BY <2>1 DEF HdaInit
  <2>3. next_verb = 1 /\ CORBWP = 0 /\ CORBRP = 0 /\ hda = "reset"
    BY <2>1 DEF HdaInit
  <2>4. HdaTypeOK
    <3>1. next_verb \in 1 .. NumVerbs + 1 /\ wp \in Nat
      BY <2>1, <2>3, RingSize DEF HdaInit
    <3>2. corb \in [0 .. CorbSize - 1 -> Nat]
      BY <2>1 DEF HdaInit
    <3>3. {corb_ptr, patient, SRST, inReset, set, RUN} \subseteq BOOLEAN
      BY <2>1 DEF HdaInit
    <3>4. QED
      BY <2>2, <2>3, <3>1, <3>2, <3>3 DEF HdaTypeOK, Before
  <2>5. CorbInv
    BY <2>2, <2>3 DEF CorbInv
  <2>6. StreamInv
    BY <2>3 DEF StreamInv, Sending
  <2>7. QED
    BY <2>3, <2>4, <2>5, <2>6 DEF HdaInv, NullInv
<1>2. HdaInv /\ [Next]_vars => HdaInv'
  <2> SUFFICES ASSUME HdaInv, [Next]_vars PROVE HdaInv'
    OBVIOUS
  <2>1. CASE hdaStep \/ AudioDevice
    BY <2>1, CorbStep, StreamStep, HdaTypes, NullStep DEF HdaInv
  <2>2. CASE UNCHANGED hdaVars
    BY <2>2 DEF HdaInv, HdaTypeOK, CorbInv, StreamInv, NullInv, hdaVars, driverVars, ctrlVars, streamVars
  <2>3. QED
    BY <2>1, <2>2 DEF Next, Kernel, NoAudio, Ready, vars
<1>3. QED
  BY <1>1, <1>2, PTL DEF Spec

\* The codec is told the verbs in play_tone's order, each once, for every length of
\* the ring above the number of verbs.
THEOREM VerbsAreInOrder == Spec => []VerbsInOrder
<1>1. HdaInv => VerbsInOrder
  <2> SUFFICES ASSUME HdaInv PROVE executed = [i \in 1 .. Len(executed) |-> i]
    BY DEF VerbsInOrder
  <2>1. executed \in Seq(Nat) /\ \A i \in 1 .. Len(executed) : executed[i] = i
    BY DEF HdaInv, HdaTypeOK, CorbInv
  <2>2. QED
    BY <2>1
<1>2. QED
  BY <1>1, AudioCorrect, PTL

\* A stream whose reset was seen to end runs with its buffer and format set.
THEOREM StreamsPlay == Spec => []StreamPlays
<1>1. HdaInv => StreamPlays
  BY DEF HdaInv, StreamInv, StreamPlays, Sending
<1>2. QED
  BY <1>1, AudioCorrect, PTL

-----------------------------------------------------------------------------
(* The drive: what is in a buffer.                                          *)

\* The places of read_sector once its command is written, and from its start.
Issuing == {"wait", "ack", "copy"}
Reading == Issuing \cup {"submit"}

\* The reads whose command was written, and the block each was asked for.
Issued == IF pc \in Issuing THEN Len(results) + 1 ELSE Len(results)
Asked(b) == IF b <= Len(results) THEN results[b].lba ELSE lba

Halves == [1 .. 2 -> Int]
Commands == [buf : Nat, lba : Nat]

NvmeTypeOK ==
    /\ lba \in Nat /\ seen \in BOOLEAN
    /\ iosq_tail \in Entries /\ iocq_head \in Entries /\ sqHead \in Entries
    /\ results \in Seq([lba : Nat, data : Halves, seen : BOOLEAN])
    /\ Len(results) <= MaxReads /\ (pc \in Reading => Len(results) < MaxReads)
    /\ iosq \in [Entries -> Commands]
    /\ inflight \subseteq [cmd : Commands, left : SUBSET {1, 2}]
    /\ mem \in [Reads -> Halves]

\* A command that was ever written names its read's own buffer and block.
CmdOK(c) == c.buf # 0 => c.buf \in 1 .. Issued /\ c.lba = Asked(c.buf)

\* A half of a buffer is blank or holds that block.
HalfOK(b, h) == mem[b][h] = Zero \/ (b <= Issued /\ mem[b][h] = Asked(b))

NvmeInv ==
    /\ NvmeTypeOK
    /\ \A i \in Entries : CmdOK(iosq[i])
    /\ \A r \in inflight : CmdOK(r.cmd)
    /\ \A b \in Reads : \A h \in {1, 2} : HalfOK(b, h)
    /\ NeverWrongSector

\* Steps that leave commands, buffers and results alone, but for completions.
LEMMA NvmeIdle ==
    ASSUME NvmeInv, UNCHANGED <<iosq, mem, lba, results, sqHead>>, inflight' \subseteq inflight,
           iosq_tail' \in Entries, iocq_head' \in Entries, seen' \in BOOLEAN,
           pc' \in Issuing <=> pc \in Issuing, pc' \in Reading => pc \in Reading
    PROVE  NvmeInv'
<1>1. Issued' = Issued /\ \A b : Asked(b)' = Asked(b)
  BY DEF Issued, Asked
<1>2. NvmeTypeOK'
  BY DEF NvmeInv, NvmeTypeOK
<1>3. \A i \in Entries : CmdOK(iosq[i])'
  BY <1>1 DEF NvmeInv, CmdOK
<1>4. \A r \in inflight' : CmdOK(r.cmd)'
  BY <1>1 DEF NvmeInv, CmdOK
<1>5. \A b \in Reads : \A h \in {1, 2} : HalfOK(b, h)'
  BY <1>1 DEF NvmeInv, HalfOK
<1>6. NeverWrongSector'
  BY DEF NvmeInv, NeverWrongSector
<1>7. QED
  BY <1>2, <1>3, <1>4, <1>5, <1>6 DEF NvmeInv

\* A new read: no command names it yet and its buffer is blank.
LEMMA ClearOK ==
    ASSUME NvmeInv, NEW l \in Nat, ReadClear(l)
    PROVE  NvmeInv'
<1>1. pc = "idle" /\ pc' = "submit" /\ lba' = l
  BY DEF ReadClear, Goto
<1>2. UNCHANGED <<iosq, mem, inflight, results, iosq_tail, iocq_head, seen, sqHead>>
  BY DEF ReadClear, ioDevVars
<1>3. Len(results) < MaxReads
  BY DEF ReadClear
<1>4. results \in Seq([lba : Nat, data : Halves, seen : BOOLEAN]) /\ Len(results) \in Nat
  BY DEF NvmeInv, NvmeTypeOK
<1>5. Issued = Len(results) /\ Issued' = Len(results)
  BY <1>1, <1>2 DEF Issued, Issuing
<1>6. ASSUME NEW b, b <= Issued PROVE Asked(b)' = Asked(b)
  BY <1>2, <1>5, <1>6 DEF Asked
<1>7. NvmeTypeOK'
  BY <1>1, <1>2, <1>3 DEF NvmeInv, NvmeTypeOK
<1>8. ASSUME NEW c, CmdOK(c) PROVE CmdOK(c)'
  BY <1>4, <1>5, <1>6, <1>8 DEF CmdOK
<1>9. \A b \in Reads : \A h \in {1, 2} : HalfOK(b, h)'
  BY <1>2, <1>5, <1>6 DEF NvmeInv, HalfOK
<1>10. NeverWrongSector'
  BY <1>2 DEF NvmeInv, NeverWrongSector
<1>11. QED
  BY <1>2, <1>7, <1>8, <1>9, <1>10 DEF NvmeInv

\* The command is written: one more is issued.
LEMMA SubmitOK ==
    ASSUME NvmeInv, ReadSubmit
    PROVE  NvmeInv'
<1>1. pc = "submit" /\ pc' = "wait"
  BY DEF ReadSubmit, Goto
<1>2. UNCHANGED <<mem, inflight, lba, results, iocq_head, seen, sqHead>>
  BY DEF ReadSubmit, ioDevVars
<1>3. iosq' = [iosq EXCEPT ![iosq_tail] = [buf |-> Buffer, lba |-> lba]]
  BY DEF ReadSubmit
<1>4. iosq_tail' = (iosq_tail + 1) % QueueSize
  BY DEF ReadSubmit
<1>5. NvmeTypeOK /\ Len(results) \in Nat
  BY DEF NvmeInv, NvmeTypeOK
<1>6. Len(results) < MaxReads
  BY <1>1, <1>5 DEF NvmeTypeOK, Reading
<1>7. Issued = Len(results) /\ Issued' = Len(results) + 1 /\ Buffer = Len(results) + 1
  BY <1>1, <1>2 DEF Issued, Issuing, Buffer
<1>8. \A b : Asked(b)' = Asked(b)
  BY <1>2 DEF Asked
<1>9. iosq_tail' \in Entries
  BY <1>4, <1>5, NvmeAssumption DEF NvmeTypeOK, Entries
<1>10. [buf |-> Buffer, lba |-> lba] \in Commands
  BY <1>5, <1>7 DEF NvmeTypeOK, Commands
<1>11. iosq' \in [Entries -> Commands]
  BY <1>3, <1>5, <1>10 DEF NvmeTypeOK
<1>12. NvmeTypeOK'
  BY <1>2, <1>5, <1>6, <1>9, <1>11 DEF NvmeTypeOK
<1>13. ASSUME NEW c, CmdOK(c) PROVE CmdOK(c)'
  BY <1>5, <1>7, <1>8, <1>13 DEF CmdOK
<1>14. ASSUME NEW i \in Entries PROVE CmdOK(iosq[i])'
  <2>1. CASE i = iosq_tail
    <3>1. iosq'[i] = [buf |-> Buffer, lba |-> lba]
      BY <1>3, <1>5, <2>1 DEF NvmeTypeOK
    <3>2. Asked(Buffer) = lba /\ Buffer \in 1 .. Issued'
      BY <1>5, <1>7 DEF Asked
    <3>3. QED
      BY <1>8, <3>1, <3>2 DEF CmdOK
  <2>2. CASE i # iosq_tail
    <3>1. iosq'[i] = iosq[i]
      BY <1>3, <1>5, <2>2 DEF NvmeTypeOK
    <3>2. CmdOK(iosq[i])
      BY DEF NvmeInv
    <3>3. QED
      BY <1>5, <1>7, <1>8, <3>1, <3>2 DEF CmdOK
  <2>3. QED
    BY <2>1, <2>2
<1>15. ASSUME NEW r \in inflight PROVE CmdOK(r.cmd)'
  BY <1>13 DEF NvmeInv
<1>16. ASSUME NEW b \in Reads, NEW h \in {1, 2} PROVE HalfOK(b, h)'
  <2>1. HalfOK(b, h) /\ b \in Nat
    BY NvmeAssumption DEF NvmeInv, Reads
  <2>2. b <= Issued => b <= Issued'
    BY <1>5, <1>7, <2>1
  <2>3. QED
    BY <1>2, <1>8, <2>1, <2>2 DEF HalfOK
<1>17. NeverWrongSector'
  BY <1>2 DEF NvmeInv, NeverWrongSector
<1>18. QED
  BY <1>2, <1>12, <1>14, <1>15, <1>16, <1>17 DEF NvmeInv

\* The read returns what its buffer holds.
LEMMA ReturnOK ==
    ASSUME NvmeInv, ReadReturn
    PROVE  NvmeInv'
<1>1. pc = "copy" /\ pc' = "idle"
  BY DEF ReadReturn, Goto
<1>2. UNCHANGED <<mem, iosq, inflight, lba, iosq_tail, iocq_head, seen, sqHead>>
  BY DEF ReadReturn, ioDevVars, queueVars
<1>3. PICK x : x = [lba |-> lba, data |-> mem[Buffer], seen |-> seen]
  OBVIOUS
<1>4. results' = Append(results, x)
  BY <1>3 DEF ReadReturn
<1>5. NvmeTypeOK /\ Len(results) \in Nat /\ results \in Seq([lba : Nat, data : Halves, seen : BOOLEAN])
  BY DEF NvmeInv, NvmeTypeOK
<1>6. Len(results) < MaxReads
  BY <1>1, <1>5 DEF NvmeTypeOK, Reading, Issuing
<1>7. Buffer = Len(results) + 1 /\ Buffer \in Reads
  BY <1>5, <1>6, NvmeAssumption DEF Buffer, Reads
<1>8. x \in [lba : Nat, data : Halves, seen : BOOLEAN]
  BY <1>3, <1>5, <1>7 DEF NvmeTypeOK
<1>9. /\ results' \in Seq([lba : Nat, data : Halves, seen : BOOLEAN])
      /\ Len(results') = Len(results) + 1
  BY <1>4, <1>5, <1>8
<1>10. /\ \A k \in 1 .. Len(results) : results'[k] = results[k]
       /\ results'[Len(results) + 1] = x
  BY <1>4, <1>5, <1>8
<1>11. Issued = Len(results) + 1 /\ Issued' = Len(results) + 1
  BY <1>1, <1>9 DEF Issued, Issuing
<1>12. ASSUME NEW b \in 1 .. Issued PROVE Asked(b)' = Asked(b)
  <2>1. CASE b <= Len(results)
    <3>1. b \in 1 .. Len(results) /\ b <= Len(results')
      BY <1>5, <1>9, <2>1
    <3>2. QED
      BY <1>10, <2>1, <3>1 DEF Asked
  <2>2. CASE b = Len(results) + 1
    <3>1. b <= Len(results') /\ ~(b <= Len(results))
      BY <1>5, <1>9, <2>2
    <3>2. x.lba = lba
      BY <1>3
    <3>3. QED
      BY <1>10, <2>2, <3>1, <3>2 DEF Asked
  <2>3. QED
    BY <1>5, <1>11, <2>1, <2>2
<1>13. NvmeTypeOK'
  <2>1. pc' \notin Reading
    BY <1>1 DEF Reading, Issuing
  <2>2. Len(results') <= MaxReads
    BY <1>5, <1>6, <1>9, NvmeAssumption
  <2>3. QED
    BY <1>2, <1>5, <1>9, <2>1, <2>2 DEF NvmeTypeOK
<1>14. ASSUME NEW c, CmdOK(c) PROVE CmdOK(c)'
  BY <1>11, <1>12, <1>14 DEF CmdOK
<1>15. ASSUME NEW i \in Entries PROVE CmdOK(iosq[i])'
  <2>1. CmdOK(iosq[i])
    BY DEF NvmeInv
  <2>2. QED
    BY <1>2, <1>11, <1>12, <2>1 DEF CmdOK
<1>16. ASSUME NEW r \in inflight PROVE CmdOK(r.cmd)'
  BY <1>14 DEF NvmeInv
<1>17. ASSUME NEW b \in Reads, NEW h \in {1, 2} PROVE HalfOK(b, h)'
  <2>1. HalfOK(b, h)
    BY DEF NvmeInv
  <2>2. b <= Issued => b \in 1 .. Issued
    BY <1>5, <1>11, NvmeAssumption DEF Reads
  <2>3. QED
    BY <1>2, <1>11, <1>12, <2>1, <2>2 DEF HalfOK
<1>18. NeverWrongSector'
  <2> SUFFICES ASSUME NEW k \in DOMAIN results', NEW h \in {1, 2}
               PROVE  results'[k].data[h] \in {Zero, results'[k].lba}
    BY DEF NeverWrongSector
  <2>1. k \in 1 .. Len(results) + 1
    BY <1>9
  <2>2. CASE k \in 1 .. Len(results)
    <3>1. k \in DOMAIN results
      BY <1>5, <2>2
    <3>2. results[k].data[h] \in {Zero, results[k].lba}
      BY <3>1 DEF NvmeInv, NeverWrongSector
    <3>3. QED
      BY <1>10, <2>2, <3>2
  <2>3. CASE k = Len(results) + 1
    <3>1. HalfOK(Buffer, h)
      BY <1>7 DEF NvmeInv
    <3>2. Asked(Buffer) = lba
      BY <1>5, <1>7 DEF Asked
    <3>3. results'[k].data = mem[Buffer] /\ results'[k].lba = lba
      BY <1>3, <1>10, <2>3
    <3>4. QED
      BY <3>1, <3>2, <3>3 DEF HalfOK
  <2>4. QED
    BY <1>5, <2>1, <2>2, <2>3
<1>19. QED
  BY <1>2, <1>13, <1>15, <1>16, <1>17, <1>18 DEF NvmeInv

\* The controller takes a command from the queue, whichever lies there.
LEMMA FetchOK ==
    ASSUME NvmeInv, DevFetch
    PROVE  NvmeInv'
<1>1. PICK x : x = [cmd |-> iosq[sqHead], left |-> {1, 2}]
  OBVIOUS
<1>2. inflight' = inflight \cup {x}
  BY <1>1 DEF DevFetch
<1>3. UNCHANGED <<pc, iosq, mem, lba, results, iosq_tail, iocq_head, seen>>
  BY DEF DevFetch, readVars, queueVars
<1>4. Issued' = Issued /\ \A b : Asked(b)' = Asked(b)
  BY <1>3 DEF Issued, Asked
<1>5. iosq[sqHead] \in Commands /\ CmdOK(iosq[sqHead])
  BY DEF NvmeInv, NvmeTypeOK
<1>6. x \in [cmd : Commands, left : SUBSET {1, 2}] /\ x.cmd = iosq[sqHead]
  BY <1>1, <1>5
<1>7. NvmeTypeOK'
  <2>1. sqHead' = (sqHead + 1) % QueueSize /\ sqHead \in Entries
    BY DEF DevFetch, NvmeInv, NvmeTypeOK
  <2>2. sqHead' \in Entries
    BY <2>1, NvmeAssumption DEF Entries
  <2>3. QED
    BY <1>2, <1>3, <1>6, <2>2 DEF NvmeInv, NvmeTypeOK
<1>8. \A i \in Entries : CmdOK(iosq[i])'
  BY <1>3, <1>4 DEF NvmeInv, CmdOK
<1>9. \A r \in inflight' : CmdOK(r.cmd)'
  BY <1>2, <1>4, <1>5, <1>6 DEF NvmeInv, CmdOK
<1>10. \A b \in Reads : \A h \in {1, 2} : HalfOK(b, h)'
  BY <1>3, <1>4 DEF NvmeInv, HalfOK
<1>11. NeverWrongSector'
  BY <1>3 DEF NvmeInv, NeverWrongSector
<1>12. QED
  BY <1>7, <1>8, <1>9, <1>10, <1>11 DEF NvmeInv

\* The controller writes half a block, however late, to the buffer of its command.
LEMMA DmaOK ==
    ASSUME NvmeInv, NEW r \in inflight, NEW h \in {1, 2}, DevDma(r, h)
    PROVE  NvmeInv'
<1>1. PICK x : x = [r EXCEPT !.left = r.left \ {h}]
  OBVIOUS
<1>2. inflight' = (inflight \ {r}) \cup {x}
  BY <1>1 DEF DevDma
<1>3. UNCHANGED <<pc, iosq, lba, results, iosq_tail, iocq_head, seen, sqHead>>
  BY DEF DevDma, readVars
<1>4. mem' = [mem EXCEPT ![r.cmd.buf][h] = r.cmd.lba]
  BY DEF DevDma
<1>5. Issued' = Issued /\ \A b : Asked(b)' = Asked(b)
  BY <1>3 DEF Issued, Asked
<1>6. NvmeTypeOK /\ r \in [cmd : Commands, left : SUBSET {1, 2}] /\ CmdOK(r.cmd)
  BY DEF NvmeInv, NvmeTypeOK
<1>7. r.cmd.lba \in Nat /\ r.cmd.buf \in Nat
  BY <1>6 DEF Commands
<1>8. x \in [cmd : Commands, left : SUBSET {1, 2}] /\ x.cmd = r.cmd
  BY <1>1, <1>6
<1>9. mem' \in [Reads -> Halves]
  <2>1. mem \in [Reads -> Halves] /\ r.cmd.lba \in Int
    BY <1>6, <1>7 DEF NvmeTypeOK
  <2>2. ASSUME NEW f \in Halves PROVE [f EXCEPT ![h] = r.cmd.lba] \in Halves
    BY <2>1 DEF Halves
  <2>3. QED
    BY <1>4, <2>1, <2>2
<1>10. NvmeTypeOK'
  BY <1>2, <1>3, <1>6, <1>8, <1>9 DEF NvmeTypeOK
<1>11. \A i \in Entries : CmdOK(iosq[i])'
  BY <1>3, <1>5 DEF NvmeInv, CmdOK
<1>12. \A q \in inflight' : CmdOK(q.cmd)'
  BY <1>2, <1>5, <1>6, <1>8 DEF NvmeInv, CmdOK
<1>13. ASSUME NEW b \in Reads, NEW g \in {1, 2} PROVE HalfOK(b, g)'
  <2>1. HalfOK(b, g)
    BY DEF NvmeInv
  <2>2. CASE b = r.cmd.buf /\ g = h
    <3>1. mem'[b][g] = r.cmd.lba
      BY <1>4, <1>6, <2>2 DEF NvmeTypeOK, Halves
    <3>2. b # 0 /\ b \in Nat
      BY NvmeAssumption DEF Reads
    <3>3. r.cmd.buf \in 1 .. Issued /\ r.cmd.lba = Asked(r.cmd.buf)
      BY <1>6, <2>2, <3>2 DEF CmdOK
    <3>4. b <= Issued
      BY <2>2, <3>3
    <3>5. QED
      BY <1>5, <2>2, <3>1, <3>3, <3>4 DEF HalfOK
  <2>3. CASE ~(b = r.cmd.buf /\ g = h)
    <3>1. mem'[b][g] = mem[b][g]
      BY <1>4, <1>6, <2>3 DEF NvmeTypeOK, Halves
    <3>2. QED
      BY <1>5, <2>1, <3>1 DEF HalfOK
  <2>4. QED
    BY <2>2, <2>3
<1>14. NeverWrongSector'
  BY <1>3 DEF NvmeInv, NeverWrongSector
<1>15. QED
  BY <1>10, <1>11, <1>12, <1>13, <1>14 DEF NvmeInv

\* What the kernel and the controller do between reads, and the waits of a read.
LEMMA OtherOK ==
    ASSUME NvmeInv,
           \/ initStep \/ identify_controller \/ ReadSeen \/ ReadTimeout \/ ReadAck
           \/ DevReady \/ (\E i \in 0 .. 2 : DevAdmin(i)) \/ (\E r \in inflight : DevPost(r))
    PROVE  NvmeInv'
<1>0. iosq_tail \in Entries /\ iocq_head \in Entries /\ seen \in BOOLEAN
  BY DEF NvmeInv, NvmeTypeOK
<1>1. CASE initStep \/ identify_controller
  <2>1. /\ UNCHANGED <<iosq, mem, lba, results, sqHead, inflight, iosq_tail, iocq_head, seen>>
        /\ pc' \notin Reading /\ pc \notin Reading
    BY <1>1 DEF initStep, identify_controller, InitAbsent, InitDisable, InitEnable,
       InitTimeout, InitCreateCq, InitCreateSq, InitReady, IdentifyNull, Identify,
       IdentifyEnd, AdminSubmit, Goto, readVars, queueVars, ioDevVars, Reading, Issuing
  <2>2. QED
    BY <1>0, <2>1, NvmeIdle DEF Reading
<1>2. CASE ReadSeen \/ ReadTimeout \/ ReadAck
  <2>1. /\ UNCHANGED <<iosq, mem, lba, results, sqHead, inflight, iosq_tail>>
        /\ pc' \in Issuing /\ pc \in Issuing
    BY <1>2 DEF ReadSeen, ReadTimeout, ReadAck, Goto, queueVars, ioDevVars, Issuing
  <2>2. iocq_head' = iocq_head \/ iocq_head' = (iocq_head + 1) % QueueSize
    BY <1>2 DEF ReadSeen, ReadTimeout, ReadAck
  <2>3. iocq_head' \in Entries
    BY <1>0, <2>2, NvmeAssumption DEF Entries
  <2>4. seen' \in BOOLEAN
    BY <1>0, <1>2 DEF ReadSeen, ReadTimeout, ReadAck
  <2>5. QED
    BY <1>0, <2>1, <2>3, <2>4, NvmeIdle DEF Reading
<1>3. CASE DevReady \/ (\E i \in 0 .. 2 : DevAdmin(i)) \/ (\E r \in inflight : DevPost(r))
  <2>1. /\ UNCHANGED <<iosq, mem, lba, results, sqHead, iosq_tail, iocq_head, seen, pc>>
        /\ inflight' \subseteq inflight
    BY <1>3 DEF DevReady, DevAdmin, DevPost, readVars, queueVars, ioDevVars
  <2>2. QED
    BY <1>0, <2>1, NvmeIdle
<1>4. QED
  BY <1>1, <1>2, <1>3

\* The whole driver and its controller.
LEMMA DriveOK ==
    ASSUME NvmeInv, nvmeStep \/ Controller
    PROVE  NvmeInv'
<1>1. CASE ReadSubmit
  BY <1>1, SubmitOK
<1>2. CASE ReadReturn
  BY <1>2, ReturnOK
<1>3. CASE DevFetch
  BY <1>3, FetchOK
<1>4. ASSUME NEW r \in inflight, NEW h \in {1, 2}, DevDma(r, h) PROVE NvmeInv'
  BY <1>4, DmaOK
<1>5. QED
  BY <1>1, <1>2, <1>3, <1>4, OtherOK DEF nvmeStep, read_sector, Controller

-----------------------------------------------------------------------------
(* The page: where the boot is.                                             *)

\* The n-th read, of block l, is under way, or it is the last that came back.
ReadAt(n, l) ==
    \/ pc \in Reading /\ Len(results) = n - 1 /\ lba = l
    \/ pc \in {"idle", "panic"} /\ Len(results) = n /\ results[n].lba = l

\* The boot sector was read well enough to go on to the directory; so was that.
BootRead == results[1].lba = 0 /\ bpb = disk
RootRead == results[2].lba = disk.rootAt /\ BootRead
EntryRead == RootRead /\ disk.half # 0 /\ disk.cluster >= 2 /\ payload_cluster = disk.cluster

\* What Extract makes of the third sector.
Extracted ==
    LET text == Text(Sector(3))
    IN  HTTP_PAYLOAD = IF disk.utf8 \/ text = <<>> THEN [kind |-> "file", text |-> text]
                       ELSE [kind |-> "none", text |-> <<>>]

\* How the reads of the boot can have ended.
Outcome ==
    \/ Len(results) < 2
    \/ Len(results) = 2 /\ RootRead /\ payload_cluster < 2 /\ HTTP_PAYLOAD.kind = "not found"
    \/ Len(results) = 3 /\ EntryRead /\ results[3].lba = disk.fileAt /\ Extracted

Stage ==
    /\ boot = "drive" => pc \notin Reading /\ Len(results) = 0
    /\ boot = "bpb" => ReadAt(1, 0)
    /\ boot = "root" => ReadAt(2, disk.rootAt) /\ BootRead
    /\ boot = "payload" => ReadAt(3, disk.fileAt) /\ EntryRead
    /\ boot = "audio" => pc \in {"none", "idle"} /\ Outcome
    /\ boot \in {"loop", "task"} => pc \in Reading \cup {"none", "idle"}

Explained == pc = "panic" => ~mapped \/ disk.rootAt >= U32 \/ disk.fileAt >= U32

StorageInv ==
    /\ boot \in {"drive", "bpb", "root", "payload", "audio", "loop", "task"}
    /\ disk \in Volumes /\ Stage /\ Explained /\ PayloadHonest

\* The fields of a volume, and its layout.
LEMMA VolumeFacts ==
    ASSUME NEW v \in Volumes
    PROVE  /\ v \in VolumeRecords /\ U32 \in Nat /\ U32 > 0 /\ U16 \in Nat /\ U16 > 0
           /\ v.rootAt \in Nat /\ v.fileAt \in Nat /\ v.cluster \in Nat /\ v.root_cluster \in Nat
           /\ v.rootAt >= first_data_sector(v)
           /\ v.root_cluster >= 2 => cluster_to_lba(v, v.root_cluster) = v.rootAt
           /\ v.half # 0 /\ v.cluster >= 2 => cluster_to_lba(v, v.cluster) = v.fileAt
<1>1. U16 \in Nat /\ U16 > 0 /\ U32 = U16 * U16
  BY StorageAssumption
<1>2. U32 \in Nat /\ U32 > 0
  BY <1>1, SMTT(30)
<1>3. v \in VolumeRecords /\ LaidOut(v)
  BY StorageAssumption
<1>4. v.rootAt \in Nat /\ v.fileAt \in Nat /\ v.cluster \in Nat /\ v.root_cluster \in Nat
  BY <1>2, <1>3 DEF VolumeRecords
<1>5. v.rootAt >= first_data_sector(v)
  BY <1>3 DEF LaidOut, first_data_sector
<1>6. ASSUME v.root_cluster >= 2 PROVE cluster_to_lba(v, v.root_cluster) = v.rootAt
  <2>1. ~(v.root_cluster < 2)
    BY <1>4, <1>6
  <2>2. cluster_to_lba(v, v.root_cluster) = first_data_sector(v) + (v.root_cluster - 2) * v.sectors_per_cluster
    BY <2>1 DEF cluster_to_lba
  <2>3. QED
    BY <1>3, <1>6, <2>2 DEF LaidOut, first_data_sector
<1>7. ASSUME v.half # 0, v.cluster >= 2 PROVE cluster_to_lba(v, v.cluster) = v.fileAt
  <2>1. ~(v.cluster < 2)
    BY <1>4, <1>7
  <2>2. cluster_to_lba(v, v.cluster) = first_data_sector(v) + (v.cluster - 2) * v.sectors_per_cluster
    BY <2>1 DEF cluster_to_lba
  <2>3. QED
    BY <1>3, <1>7, <2>2 DEF LaidOut, first_data_sector
<1>8. QED
  BY <1>4, <1>5, <1>6, <1>7, <1>1, <1>2, <1>3

\* Blocks of a file's clusters are not before the first data sector.
LEMMA FileAfterStart ==
    ASSUME NEW v \in Volumes, v.half # 0, v.cluster >= 2
    PROVE  v.fileAt >= first_data_sector(v)
<1>1. v \in VolumeRecords /\ v.cluster \in Nat /\ v.fileAt \in Nat /\ U32 \in Nat
  BY VolumeFacts
<1>2. cluster_to_lba(v, v.cluster) = v.fileAt /\ ~(v.cluster < 2)
  BY <1>1, VolumeFacts
<1>3. v.fileAt = first_data_sector(v) + (v.cluster - 2) * v.sectors_per_cluster
  BY <1>2 DEF cluster_to_lba
<1>4. /\ v.sectors_per_cluster \in Nat /\ v.reserved_sector_count \in Nat
      /\ v.num_fats \in Nat /\ v.fat_size_32 \in Nat
  BY <1>1 DEF VolumeRecords
<1>5. ASSUME NEW a \in Nat, NEW b \in Nat PROVE a * b \in Nat
  BY SMTT(30)
<1>6. v.cluster - 2 \in Nat
  BY <1>1
<1>7. (v.cluster - 2) * v.sectors_per_cluster \in Nat
  BY <1>4, <1>5, <1>6
<1>8. v.num_fats * v.fat_size_32 \in Nat
  BY <1>4, <1>5
<1>9. first_data_sector(v) \in Nat
  BY <1>4, <1>8 DEF first_data_sector
<1>10. QED
  BY <1>3, <1>7, <1>9

\* The two halves of a cluster number give the number back.
LEMMA EntryWhole ==
    ASSUME NEW c \in Nat, U16 \in Nat, U16 > 0
    PROVE  EntryCluster(c \div U16, c % U16) = c
  BY SMTT(30) DEF EntryCluster

\* A boot sector whose first half is blank names no root directory, and its
\* arithmetic does not overflow.
LEMMA BlankBoot ==
    ASSUME disk \in Volumes, bpb # disk
    PROVE  root_lba = 0 /\ ~Overflows(bpb, bpb.root_cluster)
<1>1. bpb = [disk EXCEPT !.reserved_sector_count = 0, !.num_fats = 0, !.fat_size_32 = 0,
                         !.sectors_per_cluster = 0, !.root_cluster = 0]
  BY DEF bpb
<1>2. disk \in VolumeRecords /\ U32 \in Nat /\ U32 > 0
  BY VolumeFacts
<1>3. /\ bpb.reserved_sector_count = 0 /\ bpb.num_fats = 0 /\ bpb.fat_size_32 = 0
      /\ bpb.root_cluster = 0
  BY <1>1, <1>2 DEF VolumeRecords
<1>4. cluster_to_lba(bpb, bpb.root_cluster) = 0
  BY <1>3 DEF cluster_to_lba
<1>5. first_data_sector(bpb) = 0
  BY <1>3 DEF first_data_sector
<1>6. QED
  BY <1>2, <1>4, <1>5 DEF Overflows, root_lba

\* The search finds the entry's own cluster, or nothing.
LEMMA SearchResult ==
    ASSUME disk \in Volumes
    PROVE  /\ payload_cluster \in Nat
           /\ payload_cluster >= 2 =>
                 disk.half # 0 /\ disk.cluster >= 2 /\ payload_cluster = disk.cluster
           /\ disk.half # 0 /\ Sector(2)[disk.half] = disk.rootAt => payload_cluster = disk.cluster
           /\ disk.half = 0 => payload_cluster = 0
<1>1. disk.cluster \in Nat /\ EntryCluster(disk.cluster \div U16, disk.cluster % U16) = disk.cluster
  BY VolumeFacts, EntryWhole
<1>2. CASE disk.half # 0 /\ Sector(2)[disk.half] = disk.rootAt
  BY <1>1, <1>2 DEF payload_cluster
<1>3. CASE ~(disk.half # 0 /\ Sector(2)[disk.half] = disk.rootAt)
  BY <1>3 DEF payload_cluster
<1>4. QED
  BY <1>1, <1>2, <1>3

\* What was computed from the results does not change while they only grow.
LEMMA SameReads ==
    ASSUME UNCHANGED disk
    PROVE  /\ results'[1] = results[1] => (BootRead' <=> BootRead)
           /\ results'[1] = results[1] /\ results'[2] = results[2] =>
                 /\ RootRead' <=> RootRead
                 /\ EntryRead' <=> EntryRead
                 /\ payload_cluster' = payload_cluster
<1>1. results'[1] = results[1] => bpb' = bpb
  BY DEF bpb, Sector
<1>2. results'[2] = results[2] => payload_cluster' = payload_cluster
  BY DEF payload_cluster, Sector
<1>3. QED
  BY <1>1, <1>2 DEF BootRead, RootRead, EntryRead

\* Steps that leave the results alone and stay in the same part of a read.
LEMMA StorageIdle ==
    ASSUME StorageInv, UNCHANGED <<results, lba, disk, boot, HTTP_PAYLOAD>>,
           \/ UNCHANGED <<pc, mapped>>
           \/ pc \in Reading /\ pc' \in Reading
           \/ boot = "drive" /\ pc' \notin Reading /\ (pc' = "panic" => ~mapped')
    PROVE  StorageInv'
<1>1. UNCHANGED <<bpb, payload_cluster>>
  BY DEF bpb, payload_cluster, Sector
<1>2. UNCHANGED <<BootRead, RootRead, EntryRead, Outcome>>
  BY <1>1 DEF BootRead, RootRead, EntryRead, Outcome, Extracted, Text, Sector
<1>3. Stage'
  BY <1>2 DEF StorageInv, Stage, ReadAt, Reading, Issuing
<1>4. Explained'
  BY DEF StorageInv, Explained, Reading, Issuing
<1>5. PayloadHonest'
  BY DEF StorageInv, PayloadHonest, IsFile, FirstLine
<1>6. QED
  BY <1>3, <1>4, <1>5 DEF StorageInv

\* A read that comes back.
LEMMA ReturnStage ==
    ASSUME NvmeInv, StorageInv, ReadReturn, UNCHANGED <<disk, boot, HTTP_PAYLOAD>>
    PROVE  StorageInv'
<1>1. pc = "copy" /\ pc' = "idle"
  BY DEF ReadReturn, Goto
<1>2. PICK x : x = [lba |-> lba, data |-> mem[Buffer], seen |-> seen]
  OBVIOUS
<1>3. results' = Append(results, x) /\ x.lba = lba
  BY <1>2 DEF ReadReturn
<1>4. PICK S : results \in Seq(S) /\ x \in S
  <2>1. NvmeInv'
    BY ReturnOK
  <2>2. /\ results \in Seq([lba : Nat, data : Halves, seen : BOOLEAN])
        /\ NvmeTypeOK /\ Len(results) \in Nat
    BY DEF NvmeInv, NvmeTypeOK
  <2>3. Buffer \in Reads
    BY <1>1, <2>2, NvmeAssumption DEF NvmeTypeOK, Reading, Issuing, Buffer, Reads
  <2>4. x \in [lba : Nat, data : Halves, seen : BOOLEAN]
    BY <1>2, <2>2, <2>3 DEF NvmeTypeOK
  <2>5. QED
    BY <2>2, <2>4
<1>5. Len(results) \in Nat /\ Len(results') = Len(results) + 1
  BY <1>3, <1>4
<1>6. /\ \A k \in 1 .. Len(results) : results'[k] = results[k]
      /\ results'[Len(results) + 1] = x
  BY <1>3, <1>4
<1>7. pc \in Reading /\ pc' \notin Reading /\ pc \notin {"idle", "panic", "none"}
  BY <1>1 DEF Reading, Issuing
<1>8. ASSUME NEW n \in Nat, NEW l, ReadAt(n, l)
      PROVE  Len(results) = n - 1 /\ ReadAt(n, l)'
  <2>1. Len(results) = n - 1 /\ lba = l
    BY <1>7, <1>8 DEF ReadAt
  <2>2. Len(results') = n /\ results'[n].lba = l
    <3>1. Len(results) + 1 = n
      BY <1>5, <2>1
    <3>2. QED
      BY <1>3, <1>5, <1>6, <2>1, <3>1
  <2>3. QED
    BY <1>1, <2>1, <2>2 DEF ReadAt
<1>9. boot = "bpb" => ReadAt(1, 0)'
  BY <1>8 DEF StorageInv, Stage
<1>10. boot = "root" => ReadAt(2, disk.rootAt)' /\ BootRead'
  <2> SUFFICES ASSUME boot = "root" PROVE ReadAt(2, disk.rootAt)' /\ BootRead'
    OBVIOUS
  <2>1. ReadAt(2, disk.rootAt) /\ BootRead
    BY DEF StorageInv, Stage
  <2>2. ReadAt(2, disk.rootAt)' /\ Len(results) = 2 - 1
    BY <1>8, <2>1
  <2>3. 1 \in 1 .. Len(results)
    BY <2>2
  <2>4. results'[1] = results[1]
    BY <1>6, <2>3
  <2>5. QED
    BY <2>1, <2>2, <2>4, SameReads
<1>11. boot = "payload" => ReadAt(3, disk.fileAt)' /\ EntryRead'
  <2> SUFFICES ASSUME boot = "payload" PROVE ReadAt(3, disk.fileAt)' /\ EntryRead'
    OBVIOUS
  <2>1. ReadAt(3, disk.fileAt) /\ EntryRead
    BY DEF StorageInv, Stage
  <2>2. ReadAt(3, disk.fileAt)' /\ Len(results) = 3 - 1
    BY <1>8, <2>1
  <2>3. 1 \in 1 .. Len(results) /\ 2 \in 1 .. Len(results)
    BY <2>2
  <2>4. results'[1] = results[1] /\ results'[2] = results[2]
    BY <1>6, <2>3
  <2>5. QED
    BY <2>1, <2>2, <2>4, SameReads
<1>12. boot # "drive" /\ boot # "audio"
  BY <1>7 DEF StorageInv, Stage
<1>13. Stage'
  BY <1>1, <1>9, <1>10, <1>11, <1>12 DEF Stage
<1>14. Explained'
  BY <1>1 DEF Explained
<1>15. PayloadHonest'
  BY DEF StorageInv, PayloadHonest, IsFile, FirstLine
<1>16. QED
  BY <1>13, <1>14, <1>15 DEF StorageInv

\* A new read of the boot keeps what earlier reads said.
LEMMA ClearKeeps ==
    ASSUME NEW l, ReadClear(l), UNCHANGED disk
    PROVE  /\ pc = "idle" /\ pc' = "submit" /\ lba' = l /\ UNCHANGED results
           /\ pc' \in Reading /\ pc \notin Reading
           /\ UNCHANGED <<bpb, payload_cluster, BootRead, RootRead, EntryRead>>
<1>1. pc = "idle" /\ pc' = "submit" /\ lba' = l /\ UNCHANGED results
  BY DEF ReadClear, Goto
<1>2. UNCHANGED <<bpb, payload_cluster>>
  BY <1>1 DEF bpb, payload_cluster, Sector
<1>3. UNCHANGED <<BootRead, RootRead, EntryRead>>
  BY <1>1, <1>2 DEF BootRead, RootRead, EntryRead
<1>4. QED
  BY <1>1, <1>2, <1>3 DEF Reading, Issuing

\* The three reads of the boot, and the task's: where each goes.
LEMMA ReadsOK ==
    ASSUME NvmeInv, StorageInv, ReadBoot \/ ReadRoot \/ ReadPayload \/ SysRead
    PROVE  NvmeInv' /\ StorageInv'
<1>0. /\ UNCHANGED <<disk, HTTP_PAYLOAD>> /\ disk \in Volumes /\ PayloadHonest
      /\ disk.rootAt \in Nat /\ disk.fileAt \in Nat
  BY VolumeFacts DEF ReadBoot, ReadRoot, ReadPayload, SysRead, StorageInv
<1>1. PayloadHonest'
  BY <1>0 DEF PayloadHonest, IsFile, FirstLine
<1>2. ASSUME NEW l \in Nat, ReadClear(l), Stage',
             boot' \in {"bpb", "root", "payload", "task"}
      PROVE  NvmeInv' /\ StorageInv'
  <2>1. NvmeInv'
    BY <1>2, ClearOK
  <2>2. Explained'
    BY <1>0, <1>2, ClearKeeps DEF Explained
  <2>3. QED
    BY <1>0, <1>1, <1>2, <2>1, <2>2 DEF StorageInv
<1>3. CASE ReadBoot
  <2>1. boot = "drive" /\ boot' = "bpb" /\ ReadClear(0)
    BY <1>3 DEF ReadBoot, At
  <2>2. Len(results) = 0 /\ lba' = 0 /\ pc' \in Reading /\ UNCHANGED results
    BY <1>0, <2>1, ClearKeeps DEF StorageInv, Stage
  <2>3. ReadAt(1, 0)'
    BY <2>2 DEF ReadAt
  <2>4. Stage'
    BY <2>1, <2>3 DEF Stage
  <2>5. QED
    BY <1>2, <2>1, <2>4
<1>4. CASE ReadRoot
  <2>1. boot = "bpb" /\ boot' = "root" /\ ReadClear(root_lba) /\ root_lba > 0 /\ pc = "idle"
    BY <1>4 DEF ReadRoot, At
  <2>2. bpb = disk
    BY <1>0, <2>1, BlankBoot
  <2>3. root_lba = disk.rootAt
    <3>1. root_lba = cluster_to_lba(disk, disk.root_cluster)
      BY <2>2 DEF root_lba
    <3>2. disk.root_cluster >= 2
      <4>1. disk.root_cluster \in Nat
        BY <1>0, VolumeFacts
      <4>2. disk.root_cluster < 2 => root_lba = 0
        BY <3>1 DEF cluster_to_lba
      <4>3. QED
        BY <2>1, <4>1, <4>2
    <3>3. QED
      BY <1>0, <3>1, <3>2, VolumeFacts
  <2>4. Len(results) = 1 /\ results[1].lba = 0
    <3>1. ReadAt(1, 0)
      BY <2>1 DEF StorageInv, Stage
    <3>2. pc \notin Reading
      BY <2>1 DEF Reading, Issuing
    <3>3. QED
      BY <3>1, <3>2 DEF ReadAt
  <2>5. BootRead
    BY <2>2, <2>4 DEF BootRead
  <2>6. BootRead' /\ lba' = disk.rootAt /\ pc' \in Reading /\ UNCHANGED results
    BY <1>0, <2>1, <2>3, <2>5, ClearKeeps
  <2>7. ReadAt(2, disk.rootAt)'
    BY <1>0, <2>4, <2>6 DEF ReadAt
  <2>8. Stage'
    BY <2>1, <2>6, <2>7 DEF Stage
  <2>9. QED
    BY <1>0, <1>2, <2>1, <2>3, <2>8
<1>5. CASE ReadPayload
  <2>1. /\ boot = "root" /\ boot' = "payload" /\ pc = "idle" /\ payload_cluster >= 2
        /\ ReadClear(cluster_to_lba(bpb, payload_cluster))
    BY <1>5 DEF ReadPayload, At
  <2>2. BootRead /\ ReadAt(2, disk.rootAt)
    BY <2>1 DEF StorageInv, Stage
  <2>3. pc \notin Reading
    BY <2>1 DEF Reading, Issuing
  <2>4. Len(results) = 2 /\ results[2].lba = disk.rootAt
    BY <2>2, <2>3 DEF ReadAt
  <2>5. disk.half # 0 /\ disk.cluster >= 2 /\ payload_cluster = disk.cluster
    BY <1>0, <2>1, SearchResult
  <2>6. EntryRead
    BY <2>2, <2>4, <2>5 DEF EntryRead, RootRead
  <2>7. cluster_to_lba(bpb, payload_cluster) = disk.fileAt
    BY <1>0, <2>2, <2>5, VolumeFacts DEF BootRead
  <2>8. EntryRead' /\ lba' = disk.fileAt /\ pc' \in Reading /\ UNCHANGED results
    BY <1>0, <2>1, <2>6, <2>7, ClearKeeps
  <2>9. ReadAt(3, disk.fileAt)'
    BY <1>0, <2>4, <2>8 DEF ReadAt
  <2>10. Stage'
    BY <2>1, <2>8, <2>9 DEF Stage
  <2>11. QED
    BY <1>0, <1>2, <2>1, <2>7, <2>10
<1>6. CASE SysRead
  <2>1. boot' = "task" /\ ReadClear(0)
    BY <1>6 DEF SysRead
  <2>2. pc' \in Reading
    BY <1>0, <2>1, ClearKeeps
  <2>3. Stage'
    BY <2>1, <2>2 DEF Stage
  <2>4. QED
    BY <1>2, <2>1, <2>3
<1>7. QED
  BY <1>3, <1>4, <1>5, <1>6

\* The text taken from the file's sector is its first line, cut where a half is
\* blank.
LEMMA TextOK ==
    ASSUME NvmeInv, disk \in Volumes, Len(results) = 3, results[3].lba = disk.fileAt
    PROVE  /\ IsFile(Text(Sector(3)))
           /\ Sector(3) = <<disk.fileAt, disk.fileAt>> => Text(Sector(3)) = FirstLine /\ Text(Sector(3)) # <<>>
<1>1. disk.fileAt \in Nat /\ disk.line \in 1 .. 2
  BY VolumeFacts DEF VolumeRecords
<1>2. results[3].data \in Halves /\ 3 \in DOMAIN results
  <2>1. results \in Seq([lba : Nat, data : Halves, seen : BOOLEAN])
    BY DEF NvmeInv, NvmeTypeOK
  <2>2. ASSUME NEW S, NEW q \in Seq(S), Len(q) = 3 PROVE 3 \in DOMAIN q /\ q[3] \in S
    BY <2>2
  <2>3. 3 \in DOMAIN results /\ results[3] \in [lba : Nat, data : Halves, seen : BOOLEAN]
    BY <2>1, <2>2
  <2>4. QED
    BY <2>3
<1>3. Sector(3) \in Halves /\ \A h \in {1, 2} : Sector(3)[h] \in {Zero, disk.fileAt}
  BY <1>2 DEF NvmeInv, NeverWrongSector, Sector
<1>4. Zero # disk.fileAt
  BY <1>1 DEF Zero
<1>5. PICK s : s = Sector(3)
  OBVIOUS
<1>6. CASE s[1] = Zero
  BY <1>4, <1>5, <1>6 DEF Text, IsFile
<1>7. CASE s[1] = disk.fileAt /\ disk.line = 1
  <2>1. Text(s) = <<disk.fileAt>>
    BY <1>4, <1>7 DEF Text
  <2>2. FirstLine = <<disk.fileAt>>
    BY <1>7 DEF FirstLine
  <2>3. QED
    BY <1>5, <2>1, <2>2 DEF IsFile
<1>8. CASE s[1] = disk.fileAt /\ disk.line = 2 /\ s[2] = Zero
  <2>1. Text(s) = <<disk.fileAt>>
    BY <1>4, <1>8 DEF Text
  <2>2. s # <<disk.fileAt, disk.fileAt>>
    BY <1>4, <1>8
  <2>3. QED
    BY <1>5, <2>1, <2>2 DEF IsFile
<1>9. CASE s[1] = disk.fileAt /\ disk.line = 2 /\ s[2] = disk.fileAt
  <2>1. Text(s) = s
    BY <1>4, <1>9 DEF Text
  <2>2. s = [h \in 1 .. 2 |-> disk.fileAt]
    BY <1>3, <1>5, <1>9 DEF Halves
  <2>3. FirstLine = s
    BY <1>9, <2>2 DEF FirstLine
  <2>4. s # <<>>
    BY <2>2
  <2>5. QED
    BY <1>5, <2>1, <2>3, <2>4 DEF IsFile
<1>10. QED
  <2>1. disk.line = 1 \/ disk.line = 2
    BY <1>1
  <2>2. s[1] \in {Zero, disk.fileAt} /\ s[2] \in {Zero, disk.fileAt}
    BY <1>3, <1>5
  <2>3. QED
    BY <1>6, <1>7, <1>8, <1>9, <2>1, <2>2

\* The message the boot ends with.
LEMMA ServeOK ==
    ASSUME NvmeInv, StorageInv, InvalidRoot \/ NotFound \/ Extract
    PROVE  NvmeInv' /\ StorageInv'
<1>0. /\ UNCHANGED <<nvmeVars, disk>> /\ boot' = "audio" /\ pc = "idle" /\ disk \in Volumes
  BY DEF InvalidRoot, NotFound, Extract, Serve, At, StorageInv
<1>1. UNCHANGED <<pc, mapped, lba, results, seen, iosq_tail, iocq_head, iosq, mem, sqHead, inflight>>
  BY <1>0 DEF nvmeVars, readVars, queueVars, ioDevVars
<1>2. NvmeInv'
  BY <1>1, NvmeIdle DEF NvmeInv, NvmeTypeOK
<1>3. UNCHANGED <<bpb, payload_cluster, BootRead, RootRead, EntryRead>>
  <2>1. UNCHANGED <<bpb, payload_cluster>>
    BY <1>0, <1>1 DEF bpb, payload_cluster, Sector
  <2>2. QED
    BY <1>0, <1>1, <2>1 DEF BootRead, RootRead, EntryRead
<1>4. ASSUME Outcome', PayloadHonest' PROVE StorageInv'
  <2>1. Stage'
    BY <1>0, <1>1, <1>4 DEF Stage
  <2>2. Explained'
    BY <1>0, <1>1 DEF Explained
  <2>3. QED
    BY <1>0, <1>4, <2>1, <2>2 DEF StorageInv
<1>5. pc \notin Reading
  BY <1>0 DEF Reading, Issuing
<1>6. CASE InvalidRoot
  <2>1. boot = "bpb" /\ HTTP_PAYLOAD' = [kind |-> "invalid root", text |-> <<>>]
    BY <1>6 DEF InvalidRoot, At, Serve
  <2>2. Len(results) = 1
    BY <1>5, <2>1 DEF StorageInv, Stage, ReadAt
  <2>3. Outcome'
    BY <1>1, <2>2 DEF Outcome
  <2>4. PayloadHonest'
    BY <2>1 DEF PayloadHonest
  <2>5. QED
    BY <1>2, <1>4, <2>3, <2>4
<1>7. CASE NotFound
  <2>1. /\ boot = "root" /\ payload_cluster < 2
        /\ HTTP_PAYLOAD' = [kind |-> "not found", text |-> <<>>]
    BY <1>7 DEF NotFound, At, Serve
  <2>2. Len(results) = 2 /\ RootRead
    BY <1>5, <2>1 DEF StorageInv, Stage, ReadAt, RootRead
  <2>3. Outcome'
    BY <1>1, <1>3, <2>1, <2>2 DEF Outcome
  <2>4. PayloadHonest'
    BY <2>1 DEF PayloadHonest
  <2>5. QED
    BY <1>2, <1>4, <2>3, <2>4
<1>8. CASE Extract
  <2>1. boot = "payload"
    BY <1>8 DEF Extract, At
  <2>2. Len(results) = 3 /\ EntryRead /\ results[3].lba = disk.fileAt
    BY <1>5, <2>1 DEF StorageInv, Stage, ReadAt
  <2>3. PICK t : t = Text(Sector(3))
    OBVIOUS
  <2>4. HTTP_PAYLOAD' = IF disk.utf8 \/ t = <<>> THEN [kind |-> "file", text |-> t]
                        ELSE [kind |-> "none", text |-> <<>>]
    BY <1>8, <2>3 DEF Extract, Serve
  <2>5. Text(Sector(3))' = t
    BY <1>0, <1>1, <2>3 DEF Text, Sector
  <2>6. Extracted'
    BY <1>0, <2>4, <2>5 DEF Extracted
  <2>7. Outcome'
    BY <1>0, <1>1, <1>3, <2>2, <2>6 DEF Outcome
  <2>8. IsFile(t)
    BY <1>0, <2>2, <2>3, TextOK
  <2>9. PayloadHonest'
    BY <1>0, <2>4, <2>8 DEF PayloadHonest, IsFile, FirstLine
  <2>10. QED
    BY <1>2, <1>4, <2>7, <2>9
<1>9. QED
  BY <1>6, <1>7, <1>8

\* An overflow in fat32.rs means that a cluster really lies out of range.
LEMMA OverflowOK ==
    ASSUME NvmeInv, StorageInv,
           \/ OverflowPanic("bpb", bpb.root_cluster)
           \/ payload_cluster >= 2 /\ OverflowPanic("root", payload_cluster)
    PROVE  NvmeInv' /\ StorageInv'
<1>0. /\ UNCHANGED <<mapped, lba, results, seen, iosq_tail, iocq_head, iosq, mem, sqHead,
                     inflight, disk, boot, HTTP_PAYLOAD>>
      /\ pc = "idle" /\ pc' = "panic" /\ disk \in Volumes /\ boot \in {"bpb", "root"}
  BY DEF OverflowPanic, At, readVars, queueVars, ioDevVars, StorageInv
<1>1. NvmeInv'
  BY <1>0, NvmeIdle DEF NvmeInv, NvmeTypeOK, Reading, Issuing
<1>2. UNCHANGED BootRead
  BY <1>0 DEF BootRead, bpb, Sector
<1>3. Stage'
  BY <1>0, <1>2 DEF StorageInv, Stage, ReadAt, Reading, Issuing
<1>4. /\ disk.rootAt \in Nat /\ disk.fileAt \in Nat /\ U32 \in Nat /\ disk.root_cluster \in Nat
      /\ disk.rootAt >= first_data_sector(disk) /\ first_data_sector(disk) \in Nat
  <2>1. /\ disk.rootAt \in Nat /\ disk.fileAt \in Nat /\ U32 \in Nat /\ disk \in VolumeRecords
        /\ disk.rootAt >= first_data_sector(disk) /\ disk.root_cluster \in Nat
    BY <1>0, VolumeFacts
  <2>2. disk.reserved_sector_count \in Nat /\ disk.num_fats \in Nat /\ disk.fat_size_32 \in Nat
    BY <2>1 DEF VolumeRecords
  <2>3. ASSUME NEW a \in Nat, NEW b \in Nat PROVE a * b \in Nat
    BY SMTT(30)
  <2>4. disk.num_fats * disk.fat_size_32 \in Nat
    BY <2>2, <2>3
  <2>5. first_data_sector(disk) \in Nat
    BY <2>2, <2>4 DEF first_data_sector
  <2>6. QED
    BY <2>1, <2>5
<1>5. disk.rootAt >= U32 \/ disk.fileAt >= U32
  <2>1. CASE OverflowPanic("bpb", bpb.root_cluster)
    <3>1. Overflows(bpb, bpb.root_cluster)
      BY <2>1 DEF OverflowPanic
    <3>2. bpb = disk
      BY <1>0, <3>1, BlankBoot
    <3>3. first_data_sector(disk) >= U32 \/ cluster_to_lba(disk, disk.root_cluster) >= U32
      BY <3>1, <3>2 DEF Overflows
    <3>4. first_data_sector(disk) >= U32 => disk.rootAt >= U32
      BY <1>4
    <3>5. disk.root_cluster < 2 => cluster_to_lba(disk, disk.root_cluster) = 0
      BY DEF cluster_to_lba
    <3>6. disk.root_cluster >= 2 => cluster_to_lba(disk, disk.root_cluster) = disk.rootAt
      BY <1>0, VolumeFacts
    <3>7. U32 > 0
      BY <1>0, VolumeFacts
    <3>8. QED
      BY <1>4, <3>3, <3>4, <3>5, <3>6, <3>7
  <2>2. CASE payload_cluster >= 2 /\ OverflowPanic("root", payload_cluster)
    <3>1. Overflows(bpb, payload_cluster) /\ boot = "root"
      BY <2>2 DEF OverflowPanic, At
    <3>2. bpb = disk
      BY <3>1 DEF StorageInv, Stage, BootRead
    <3>3. disk.half # 0 /\ disk.cluster >= 2 /\ payload_cluster = disk.cluster
      BY <1>0, <2>2, SearchResult
    <3>4. first_data_sector(disk) >= U32 \/ cluster_to_lba(disk, disk.cluster) >= U32
      BY <3>1, <3>2, <3>3 DEF Overflows
    <3>5. cluster_to_lba(disk, disk.cluster) = disk.fileAt
      BY <1>0, <3>3, VolumeFacts
    <3>6. first_data_sector(disk) >= U32 => disk.rootAt >= U32
      BY <1>4
    <3>7. QED
      BY <3>4, <3>5, <3>6
  <2>3. QED
    BY <2>1, <2>2
<1>6. Explained'
  BY <1>0, <1>5 DEF Explained
<1>7. PayloadHonest'
  BY <1>0 DEF StorageInv, PayloadHonest, IsFile, FirstLine
<1>8. QED
  BY <1>0, <1>1, <1>3, <1>6, <1>7 DEF StorageInv

\* The end of the boot, and a boot without a drive.
LEMMA EndsOK ==
    ASSUME NvmeInv, StorageInv, NoDrive \/ NoAudio \/ Ready
    PROVE  NvmeInv' /\ StorageInv'
<1>0. /\ UNCHANGED <<mapped, lba, results, seen, iosq_tail, iocq_head, iosq, mem, sqHead,
                     inflight, disk, HTTP_PAYLOAD>>
      /\ disk \in Volumes
  BY DEF NoDrive, NoAudio, Ready, nvmeVars, readVars, queueVars, ioDevVars, StorageInv
<1>1. \/ pc = "init" /\ pc' = "none" /\ boot' = "audio"
      \/ pc' = pc /\ boot = "audio" /\ boot' = "loop"
  BY DEF NoDrive, NoAudio, Ready, Goto, nvmeVars
<1>2. NvmeInv'
  BY <1>0, <1>1, NvmeIdle DEF NvmeInv, NvmeTypeOK, Reading, Issuing
<1>3. boot' = "audio" => Len(results) = 0
  <2> SUFFICES ASSUME boot' = "audio" PROVE Len(results) = 0
    OBVIOUS
  <2>1. pc = "init"
    BY <1>1
  <2>2. pc \notin Reading \cup {"none", "idle", "panic"}
    BY <2>1 DEF Reading, Issuing
  <2>3. \A n, l : ~ReadAt(n, l)
    BY <2>2 DEF ReadAt
  <2>4. boot = "drive"
    BY <2>2, <2>3 DEF StorageInv, Stage
  <2>5. QED
    BY <2>4 DEF StorageInv, Stage
<1>4. Stage'
  <2>1. boot' = "audio" => Len(results') < 2
    BY <1>0, <1>3
  <2>2. boot' = "audio" => pc' = "none"
    BY <1>1
  <2>3. boot' = "loop" => pc' \in {"none", "idle"}
    BY <1>1 DEF StorageInv, Stage
  <2>4. QED
    BY <1>1, <2>1, <2>2, <2>3 DEF Stage, Outcome
<1>5. Explained'
  BY <1>0, <1>1 DEF StorageInv, Explained
<1>6. PayloadHonest'
  BY <1>0 DEF StorageInv, PayloadHonest, IsFile, FirstLine
<1>7. QED
  BY <1>0, <1>1, <1>2, <1>4, <1>5, <1>6 DEF StorageInv

\* Every step of the kernel, the task and both controllers, seen from storage.
LEMMA StorageStepOK ==
    ASSUME NvmeInv, StorageInv, [Next]_vars
    PROVE  NvmeInv' /\ StorageInv'
<1>1. CASE UNCHANGED storageVars
  <2>1. /\ UNCHANGED <<disk, boot, HTTP_PAYLOAD>>
        /\ UNCHANGED <<pc, mapped, lba, results, seen, iosq_tail, iocq_head, iosq, mem, sqHead,
                       inflight>>
    BY <1>1 DEF storageVars, nvmeVars, readVars, queueVars, ioDevVars
  <2>2. NvmeInv'
    BY <2>1, NvmeIdle DEF NvmeInv, NvmeTypeOK
  <2>3. StorageInv'
    BY <2>1, StorageIdle
  <2>4. QED
    BY <2>2, <2>3
<1>2. CASE bootStep
  BY <1>2, ReadsOK, ServeOK, OverflowOK, EndsOK DEF bootStep
<1>3. CASE SysRead
  BY <1>3, ReadsOK
<1>4. CASE NoAudio \/ Ready
  BY <1>4, EndsOK
<1>5. CASE nvmeStep /\ UNCHANGED <<disk, boot, HTTP_PAYLOAD>>
  <2>1. NvmeInv'
    BY <1>5, DriveOK
  <2>2. CASE initStep \/ identify_controller
    <3>1. UNCHANGED <<lba, results>> /\ pc' \notin Reading
      BY <2>2 DEF initStep, identify_controller, InitAbsent, InitDisable, InitEnable,
         InitTimeout, InitCreateCq, InitCreateSq, InitReady, IdentifyNull, Identify,
         IdentifyEnd, AdminSubmit, Goto, readVars, Reading, Issuing
    <3>2. pc' = "panic" => ~mapped'
      BY <2>2 DEF initStep, identify_controller, InitAbsent, InitDisable, InitEnable,
         InitTimeout, InitCreateCq, InitCreateSq, InitReady, IdentifyNull, Identify,
         IdentifyEnd, Goto
    <3>3. pc \notin Reading \cup {"idle", "panic", "none"}
      BY <2>2 DEF initStep, identify_controller, InitAbsent, InitDisable, InitEnable,
         InitTimeout, InitCreateCq, InitCreateSq, InitReady, IdentifyNull, Identify,
         IdentifyEnd, Goto, Reading, Issuing
    <3>4. \A n, l : ~ReadAt(n, l)
      BY <3>3 DEF ReadAt
    <3>5. boot = "drive"
      BY <3>3, <3>4 DEF StorageInv, Stage
    <3>6. QED
      BY <1>5, <2>1, <3>1, <3>2, <3>5, StorageIdle
  <2>3. CASE ReadSubmit \/ ReadSeen \/ ReadTimeout \/ ReadAck
    <3>1. UNCHANGED <<lba, results>> /\ pc \in Reading /\ pc' \in Reading
      BY <2>3 DEF ReadSubmit, ReadSeen, ReadTimeout, ReadAck, Goto, Reading, Issuing
    <3>2. QED
      BY <1>5, <2>1, <3>1, StorageIdle
  <2>4. CASE ReadReturn
    BY <1>5, <2>1, <2>4, ReturnStage
  <2>5. QED
    BY <1>5, <2>2, <2>3, <2>4 DEF nvmeStep, read_sector
<1>6. CASE Controller /\ UNCHANGED <<disk, boot, HTTP_PAYLOAD>>
  <2>1. NvmeInv'
    BY <1>6, DriveOK
  <2>2. UNCHANGED <<pc, mapped, lba, results>>
    BY <1>6 DEF Controller, DevReady, DevAdmin, DevFetch, DevDma, DevPost, readVars
  <2>3. QED
    BY <1>6, <2>1, <2>2, StorageIdle
<1>7. QED
  <2>1. CASE UNCHANGED vars
    BY <1>1, <2>1 DEF vars
  <2>2. CASE Kernel
    BY <1>1, <1>2, <1>4, <1>5, <2>2 DEF Kernel, StorageStep
  <2>3. QED
    BY <1>1, <1>3, <1>6, <2>1, <2>2 DEF Next

\* Storage: every buffer, command and result belongs to its own read, and the boot
\* is where its reads have brought it.
THEOREM StorageCorrect == Spec => [](NvmeInv /\ StorageInv)
<1>1. Init => NvmeInv /\ StorageInv
  <2> SUFFICES ASSUME Init PROVE NvmeInv /\ StorageInv
    OBVIOUS
  <2>1. StorageInit /\ NvmeInit
    BY DEF Init, StorageInit
  <2>2. /\ results = <<>> /\ pc = "init" /\ boot = "drive" /\ disk \in Volumes
        /\ HTTP_PAYLOAD = [kind |-> "none", text |-> <<>>]
    BY <2>1 DEF StorageInit, NvmeInit
  <2>3. Len(results) = 0 /\ results \in Seq([lba : Nat, data : Halves, seen : BOOLEAN])
        /\ DOMAIN results = {}
    BY <2>2
  <2>4. pc \notin Reading
    BY <2>2 DEF Reading, Issuing
  <2>5. StorageInv
    <3>1. Stage
      BY <2>2, <2>3, <2>4 DEF Stage
    <3>2. QED
      BY <2>2, <3>1 DEF StorageInv, Explained, PayloadHonest
  <2>6. NvmeTypeOK
    <3>1. 0 \in Entries /\ 0 <= MaxReads
      BY NvmeAssumption DEF Entries
    <3>2. <<Zero, Zero>> \in Halves
      BY DEF Zero, Halves
    <3>3. mem \in [Reads -> Halves]
      BY <2>1, <3>2 DEF NvmeInit
    <3>4. iosq \in [Entries -> Commands]
      BY <2>1 DEF NvmeInit, Commands
    <3>5. /\ lba = 0 /\ seen = FALSE /\ iosq_tail = 0 /\ iocq_head = 0 /\ sqHead = 0
          /\ inflight = {}
      BY <2>1 DEF NvmeInit
    <3>6. QED
      BY <2>3, <2>4, <3>1, <3>3, <3>4, <3>5 DEF NvmeTypeOK
  <2>7. \A i \in Entries : CmdOK(iosq[i])
    BY <2>1 DEF NvmeInit, CmdOK
  <2>8. \A b \in Reads : \A h \in {1, 2} : HalfOK(b, h)
    BY <2>1 DEF NvmeInit, HalfOK
  <2>9. inflight = {} /\ NeverWrongSector
    BY <2>1, <2>3 DEF NvmeInit, NeverWrongSector
  <2>10. QED
    BY <2>5, <2>6, <2>7, <2>8, <2>9 DEF NvmeInv
<1>2. (NvmeInv /\ StorageInv) /\ [Next]_vars => (NvmeInv /\ StorageInv)'
  BY StorageStepOK
<1>3. QED
  BY <1>1, <1>2, PTL DEF Spec

\* read_sector never returns bytes of a block it was not asked for.
THEOREM NoWrongSector == Spec => []NeverWrongSector
<1>1. NvmeInv /\ StorageInv => NeverWrongSector
  BY DEF NvmeInv
<1>2. QED
  BY <1>1, StorageCorrect, PTL

\* The page is an error message or the file's own first line, cut at most.
THEOREM PagesAreHonest == Spec => []PayloadHonest
<1>1. NvmeInv /\ StorageInv => PayloadHonest
  BY DEF StorageInv
<1>2. QED
  BY <1>1, StorageCorrect, PTL

\* The kernel panics at boot only for a ring that was never allocated or a cluster
\* that is really out of range.
THEOREM PanicsExplained == Spec => []PanicExplained
<1>1. NvmeInv /\ StorageInv /\ HdaInv => PanicExplained
  BY DEF StorageInv, Explained, HdaInv, NullInv, PanicExplained
<1>2. QED
  BY <1>1, StorageCorrect, AudioCorrect, PTL

\* With whole sectors the page is what the volume holds.
THEOREM PagesAreFound == Spec => []PayloadFound
<1>1. NvmeInv /\ StorageInv => PayloadFound
  <2> SUFFICES ASSUME NvmeInv, StorageInv, boot = "audio", Whole(1), Whole(2)
               PROVE  /\ HTTP_PAYLOAD.kind = "not found" <=> disk.half = 0 \/ disk.cluster < 2
                      /\ Whole(3) /\ disk.utf8 => HTTP_PAYLOAD.text = FirstLine
    BY DEF PayloadFound
  <2>1. Outcome /\ disk \in Volumes
    BY DEF StorageInv, Stage
  <2>2. PICK S : results \in Seq(S)
    BY DEF NvmeInv, NvmeTypeOK
  <2>3. Len(results) \in Nat /\ DOMAIN results = 1 .. Len(results)
    BY <2>2
  <2>4. Len(results) >= 2
    BY <2>3 DEF Whole
  <2>5. disk.cluster \in Nat /\ disk.half \in 0 .. 2
    BY <2>1, VolumeFacts DEF VolumeRecords
  <2>6. RootRead => (payload_cluster = IF disk.half = 0 THEN 0 ELSE disk.cluster)
    <3> SUFFICES ASSUME RootRead PROVE payload_cluster = IF disk.half = 0 THEN 0 ELSE disk.cluster
      OBVIOUS
    <3>1. Sector(2) = <<disk.rootAt, disk.rootAt>>
      BY DEF Whole, RootRead
    <3>2. disk.half # 0 => disk.half = 1 \/ disk.half = 2
      BY <2>5
    <3>3. disk.half # 0 => Sector(2)[disk.half] = disk.rootAt
      <4>1. Sector(2)[1] = disk.rootAt /\ Sector(2)[2] = disk.rootAt
        BY <3>1
      <4>2. QED
        BY <3>2, <4>1
    <3>4. QED
      BY <2>1, <3>3, SearchResult
  <2>7. CASE Len(results) = 2 /\ RootRead /\ payload_cluster < 2 /\ HTTP_PAYLOAD.kind = "not found"
    <3>1. disk.half = 0 \/ disk.cluster < 2
      BY <2>6, <2>7
    <3>2. ~Whole(3)
      <4>1. DOMAIN results = 1 .. 2
        BY <2>3, <2>7
      <4>2. 3 \notin DOMAIN results
        BY <4>1
      <4>3. QED
        BY <4>2 DEF Whole
    <3>3. QED
      BY <2>7, <3>1, <3>2
  <2>8. CASE Len(results) = 3 /\ EntryRead /\ results[3].lba = disk.fileAt /\ Extracted
    <3>1. disk.half # 0 /\ disk.cluster >= 2
      BY <2>8 DEF EntryRead
    <3>2. ~(disk.half = 0 \/ disk.cluster < 2)
      BY <2>5, <3>1
    <3>3. PICK t : t = Text(Sector(3))
      OBVIOUS
    <3>4. HTTP_PAYLOAD = IF disk.utf8 \/ t = <<>> THEN [kind |-> "file", text |-> t]
                         ELSE [kind |-> "none", text |-> <<>>]
      BY <2>8, <3>3 DEF Extracted
    <3>5. HTTP_PAYLOAD.kind # "not found"
      BY <3>4
    <3>6. Whole(3) /\ disk.utf8 => HTTP_PAYLOAD.text = FirstLine
      <4> SUFFICES ASSUME Whole(3), disk.utf8 PROVE HTTP_PAYLOAD.text = FirstLine
        OBVIOUS
      <4>1. Sector(3) = <<disk.fileAt, disk.fileAt>>
        BY <2>8 DEF Whole
      <4>2. t = FirstLine
        BY <2>1, <2>8, <3>3, <4>1, TextOK
      <4>3. HTTP_PAYLOAD.text = t
        BY <3>4
      <4>4. QED
        BY <4>2, <4>3
    <3>7. QED
      BY <3>2, <3>5, <3>6
  <2>9. ~(Len(results) < 2)
    BY <2>3, <2>4
  <2>10. QED
    BY <2>1, <2>7, <2>8, <2>9 DEF Outcome
<1>2. QED
  BY <1>1, StorageCorrect, PTL

-----------------------------------------------------------------------------
(* The drive: what a status bit proves.                                     *)

\* Reads fetched by the controller, up to the f-th, and completed by it.
Complete(f) == {b \in 1 .. f : \A r \in inflight : r.cmd.buf # b}

\* In the first round, with f commands fetched and p completions posted: the
\* pointers ...
Pointers(f, p) ==
    /\ f \in 0 .. Issued /\ p \in 0 .. f
    /\ iosq_tail = Issued % QueueSize /\ sqTail = iosq_tail
    /\ sqHead = f % QueueSize /\ cqTail = p % QueueSize
    /\ phase = IF p < QueueSize THEN 1 ELSE 0

\* ... the entries of both queues ...
Queued(p) ==
    /\ \A i \in 0 .. Issued - 1 : iosq[i].buf = i + 1
    /\ \A i \in Entries : iocq[i] = 1 => i < p

\* ... the commands under way, each once ...
Flying(f) ==
    /\ \A r \in inflight : r.cmd.buf \in 1 .. f
    /\ \A r, s \in inflight : r.cmd.buf = s.cmd.buf => r = s

\* ... and what has arrived.
Arrived(f) ==
    /\ \A b \in Complete(f) : Asked(b) \notin BadLbas =>
          \A h \in {1, 2} : mem[b][h] = Asked(b)
    /\ \A r \in inflight : \A h \in {1, 2} \ r.left : mem[r.cmd.buf][h] = r.cmd.lba

Round(f, p) ==
    /\ Pointers(f, p) /\ Queued(p) /\ Flying(f) /\ Arrived(f)
    /\ Cardinality(Complete(f)) = p

\* The completion the driver looks at is the current read's; if it was seen, the
\* sector is there.
Looking ==
    /\ iocq_head = IF pc \in {"wait", "ack"} THEN Issued - 1 ELSE Issued % QueueSize
    /\ pc \in {"ack", "copy"} /\ seen /\ lba \notin BadLbas =>
          \A h \in {1, 2} : mem[Buffer][h] = lba

SeenInv ==
    /\ iocq \in [Entries -> {0, 1}] /\ cqTail \in Entries /\ phase \in {0, 1}
    /\ Issued <= QueueSize => Looking /\ \E f, p \in 0 .. QueueSize : Round(f, p)
    /\ SeenMeansDone

\* The length of the queues.
LEMMA QueueLength == QueueSize \in Nat /\ QueueSize > 1 /\ Entries = 0 .. QueueSize - 1
  BY NvmeAssumption DEF Entries

\* Positions in the first round.
LEMMA RingPlaces ==
    /\ \A n \in 0 .. QueueSize : n % QueueSize = IF n < QueueSize THEN n ELSE 0
    /\ \A n \in 0 .. QueueSize - 1 : (n + 1) % QueueSize = IF n + 1 < QueueSize THEN n + 1 ELSE 0
  BY NvmeAssumption DEF Entries

\* How many reads are issued.
LEMMA IssuedType ==
    ASSUME NvmeInv
    PROVE  /\ Issued \in Nat /\ Len(results) \in Nat /\ Issued <= MaxReads /\ MaxReads \in Nat
           /\ Issued = IF pc \in Issuing THEN Len(results) + 1 ELSE Len(results)
           /\ Buffer = Len(results) + 1
           /\ pc \in Reading => Buffer \in Reads
<1>1. Len(results) \in Nat /\ Len(results) <= MaxReads /\ (pc \in Reading => Len(results) < MaxReads)
  BY DEF NvmeInv, NvmeTypeOK
<1>2. pc \in Issuing => pc \in Reading
  BY DEF Reading
<1>3. QED
  BY <1>1, <1>2, NvmeAssumption DEF Issued, Buffer, Reads

\* Completed reads are finitely many, and all of them when there are as many as
\* were issued.
LEMMA CompleteCount ==
    ASSUME NEW f \in Nat
    PROVE  /\ IsFiniteSet(Complete(f)) /\ Cardinality(Complete(f)) \in Nat
           /\ Cardinality(Complete(f)) = f => Complete(f) = 1 .. f
           /\ \A b \in 1 .. f : b \notin Complete(f) => Cardinality(Complete(f)) < f
<1>1. IsFiniteSet(1 .. f) /\ Cardinality(1 .. f) = f
  BY FS_Interval
<1>2. Complete(f) \in SUBSET (1 .. f)
  BY DEF Complete
<1>3. /\ IsFiniteSet(Complete(f)) /\ Cardinality(Complete(f)) <= Cardinality(1 .. f)
      /\ Cardinality(1 .. f) = Cardinality(Complete(f)) => 1 .. f = Complete(f)
  BY <1>1, <1>2, FS_Subset
<1>4. Cardinality(Complete(f)) \in Nat
  BY <1>3, FS_CardinalityType
<1>5. Cardinality(Complete(f)) = f => Complete(f) = 1 .. f
  BY <1>1, <1>3
<1>6. QED
  BY <1>1, <1>3, <1>4, <1>5

\* A step that changes no queue pointer, command or buffer, and sets no status bit.
LEMMA RoundSame ==
    ASSUME NEW f, NEW p, Round(f, p), Issued' = Issued, Issued \in Nat,
           UNCHANGED <<sqTail, sqHead, cqTail, phase, inflight, iosq, iosq_tail, mem>>,
           \A b \in 1 .. Issued : Asked(b)' = Asked(b),
           \A i \in Entries : iocq'[i] = 1 => iocq[i] = 1
    PROVE  Round(f, p)'
<1>1. Complete(f)' = Complete(f)
  BY DEF Complete
<1>2. Pointers(f, p)'
  BY DEF Round, Pointers
<1>3. Queued(p)'
  BY DEF Round, Queued
<1>4. Flying(f)'
  BY DEF Round, Flying
<1>5. Arrived(f)'
  <2>1. ASSUME NEW b \in Complete(f) PROVE b \in 1 .. Issued
    BY <2>1 DEF Complete, Round, Pointers
  <2>2. QED
    BY <1>1, <2>1 DEF Round, Arrived
<1>6. QED
  BY <1>1, <1>2, <1>3, <1>4, <1>5 DEF Round

\* Steps that leave the reads alone.
LEMMA SeenIdle ==
    ASSUME NvmeInv, SeenInv,
           UNCHANGED <<iosq, iocq, mem, sqTail, sqHead, cqTail, phase, inflight, results,
                       iosq_tail, iocq_head, lba, seen>>,
           pc' = pc \/ (pc \notin Reading /\ pc' \notin Reading)
    PROVE  SeenInv'
<1>1. /\ pc' \in Issuing <=> pc \in Issuing
      /\ pc' \in {"wait", "ack"} <=> pc \in {"wait", "ack"}
      /\ pc' \in {"ack", "copy"} <=> pc \in {"ack", "copy"}
  BY DEF Reading, Issuing
<1>2. Issued' = Issued /\ (\A b : Asked(b)' = Asked(b)) /\ Buffer' = Buffer
  BY <1>1 DEF Issued, Asked, Buffer
<1>3. Issued <= QueueSize => Looking'
  BY <1>1, <1>2 DEF SeenInv, Looking
<1>4. ASSUME NEW f, NEW p, Round(f, p) PROVE Round(f, p)'
  BY <1>2, <1>4, IssuedType, RoundSame
<1>5. SeenMeansDone'
  BY DEF SeenInv, SeenMeansDone
<1>6. QED
  BY <1>2, <1>3, <1>4, <1>5 DEF SeenInv

\* A new read clears the status bit of an entry.
LEMMA ClearSeen ==
    ASSUME NvmeInv, SeenInv, NEW l, ReadClear(l)
    PROVE  SeenInv'
<1>1. pc = "idle" /\ pc' = "submit"
  BY DEF ReadClear, Goto
<1>2. UNCHANGED <<iosq, mem, sqTail, sqHead, cqTail, phase, inflight, results, iosq_tail,
                  iocq_head, seen>>
  BY DEF ReadClear, ioDevVars
<1>3. iocq' = [iocq EXCEPT ![iosq_tail] = 0] /\ iocq \in [Entries -> {0, 1}]
  BY DEF ReadClear, SeenInv
<1>4. iocq' \in [Entries -> {0, 1}] /\ \A i \in Entries : iocq'[i] = 1 => iocq[i] = 1
  BY <1>3
<1>5. Issued = Len(results) /\ Issued' = Len(results) /\ Issued \in Nat
  BY <1>1, <1>2, IssuedType DEF Issued, Issuing
<1>6. \A b \in 1 .. Issued : Asked(b)' = Asked(b)
  BY <1>2, <1>5 DEF Asked
<1>7. Issued <= QueueSize => Looking'
  BY <1>1, <1>2, <1>5 DEF SeenInv, Looking
<1>8. ASSUME NEW f, NEW p, Round(f, p) PROVE Round(f, p)'
  BY <1>2, <1>4, <1>5, <1>6, <1>8, RoundSame
<1>9. SeenMeansDone'
  BY <1>2 DEF SeenInv, SeenMeansDone
<1>10. QED
  BY <1>2, <1>4, <1>5, <1>7, <1>8, <1>9 DEF SeenInv

\* The command of the n-th read goes into entry n - 1.
LEMMA SubmitSeen ==
    ASSUME NvmeInv, NvmeInv', SeenInv, ReadSubmit
    PROVE  SeenInv'
<1>1. pc = "submit" /\ pc' = "wait"
  BY DEF ReadSubmit, Goto
<1>2. UNCHANGED <<iocq, mem, sqHead, cqTail, phase, inflight, results, iocq_head, lba, seen>>
  BY DEF ReadSubmit, ioDevVars
<1>3. iosq' = [iosq EXCEPT ![iosq_tail] = [buf |-> Buffer, lba |-> lba]]
  BY DEF ReadSubmit
<1>4. iosq_tail' = (iosq_tail + 1) % QueueSize /\ sqTail' = (iosq_tail + 1) % QueueSize
  BY DEF ReadSubmit
<1>5. Issued = Len(results) /\ Issued' = Issued + 1 /\ Issued \in Nat /\ Buffer = Issued + 1
  BY <1>1, <1>2, IssuedType DEF Issued, Issuing
<1>6. \A b : Asked(b)' = Asked(b)
  BY <1>2 DEF Asked
<1>7. SeenMeansDone'
  BY <1>2 DEF SeenInv, SeenMeansDone
<1>8. ASSUME Issued' <= QueueSize
      PROVE  Looking' /\ \E f, p \in 0 .. QueueSize : Round(f, p)'
  <2>1. Issued <= QueueSize /\ Issued < QueueSize /\ Issued \in 0 .. QueueSize - 1
    BY <1>5, <1>8, QueueLength
  <2>2. Looking /\ \E f, p \in 0 .. QueueSize : Round(f, p)
    BY <2>1 DEF SeenInv
  <2>3. PICK f \in 0 .. QueueSize, p \in 0 .. QueueSize : Round(f, p)
    BY <2>2
  <2>4. Issued % QueueSize = Issued
    BY <2>1, RingPlaces
  <2>5. Looking'
    <3>1. iocq_head = Issued
      BY <1>1, <2>2, <2>4 DEF Looking
    <3>2. iocq_head' = Issued' - 1
      BY <1>2, <1>5, <3>1
    <3>3. QED
      BY <1>1, <3>2 DEF Looking
  <2>6. iosq_tail = Issued /\ f \in 0 .. Issued /\ p \in 0 .. f
    BY <2>3, <2>4 DEF Round, Pointers
  <2>7. Pointers(f, p)'
    <3>1. iosq_tail' = Issued' % QueueSize /\ sqTail' = iosq_tail'
      BY <1>4, <1>5, <2>6
    <3>2. f \in 0 .. Issued'
      BY <1>5, <2>6
    <3>3. /\ sqHead' = f % QueueSize /\ cqTail' = p % QueueSize
          /\ phase' = IF p < QueueSize THEN 1 ELSE 0
      BY <1>2, <2>3 DEF Round, Pointers
    <3>4. QED
      BY <2>6, <3>1, <3>2, <3>3 DEF Pointers
  <2>8. Queued(p)'
    <3>1. iosq \in [Entries -> Commands]
      BY DEF NvmeInv, NvmeTypeOK
    <3>2. ASSUME NEW i \in 0 .. Issued' - 1 PROVE iosq'[i].buf = i + 1
      <4>1. i \in Entries /\ i \in 0 .. Issued
        BY <1>5, <1>8, QueueLength
      <4>2. CASE i = Issued
        BY <1>3, <1>5, <2>6, <3>1, <4>1, <4>2
      <4>3. CASE i # Issued
        <5>1. i \in 0 .. Issued - 1
          BY <1>5, <4>1, <4>3
        <5>2. iosq'[i] = iosq[i]
          BY <1>3, <2>6, <3>1, <4>1, <4>3
        <5>3. QED
          BY <2>3, <5>1, <5>2 DEF Round, Queued
      <4>4. QED
        BY <4>2, <4>3
    <3>3. \A i \in Entries : iocq'[i] = 1 => i < p
      BY <1>2, <2>3 DEF Round, Queued
    <3>4. QED
      BY <3>2, <3>3 DEF Queued
  <2>9. Complete(f)' = Complete(f)
    BY <1>2 DEF Complete
  <2>10. Flying(f)' /\ Arrived(f)'
    BY <1>2, <1>6, <2>3, <2>9 DEF Round, Flying, Arrived
  <2>11. Round(f, p)'
    BY <2>3, <2>7, <2>8, <2>9, <2>10 DEF Round
  <2>12. QED
    BY <2>5, <2>11
<1>9. QED
  BY <1>2, <1>7, <1>8 DEF SeenInv

\* The end of the wait: the bit of entry n - 1 is set only after n completions, so
\* all n reads are complete.
LEMMA WaitSeen ==
    ASSUME NvmeInv, SeenInv, ReadSeen \/ ReadTimeout
    PROVE  SeenInv'
<1>1. pc = "wait" /\ pc' = "ack"
  BY DEF ReadSeen, ReadTimeout, Goto
<1>2. UNCHANGED <<iosq, iocq, mem, sqTail, sqHead, cqTail, phase, inflight, results,
                  iosq_tail, iocq_head, lba>>
  BY DEF ReadSeen, ReadTimeout, queueVars, ioDevVars
<1>3. seen' => iocq[iocq_head] = 1
  BY DEF ReadSeen, ReadTimeout
<1>4. Issued = Len(results) + 1 /\ Issued' = Issued /\ Buffer = Issued /\ Issued \in Nat
  BY <1>1, <1>2, IssuedType DEF Issued, Issuing
<1>5. Buffer' = Buffer /\ \A b : Asked(b)' = Asked(b)
  BY <1>2 DEF Buffer, Asked
<1>6. SeenMeansDone'
  BY <1>2 DEF SeenInv, SeenMeansDone
<1>7. ASSUME Issued <= QueueSize
      PROVE  Looking' /\ \E f, p \in 0 .. QueueSize : Round(f, p)'
  <2>1. Looking /\ \E f, p \in 0 .. QueueSize : Round(f, p)
    BY <1>7 DEF SeenInv
  <2>2. PICK f \in 0 .. QueueSize, p \in 0 .. QueueSize : Round(f, p)
    BY <2>1
  <2>3. Round(f, p)'
    BY <1>2, <1>4, <1>5, <2>2, RoundSame
  <2>4. iocq_head = Issued - 1
    BY <1>1, <2>1 DEF Looking
  <2>5. ASSUME seen', lba \notin BadLbas, NEW h \in {1, 2} PROVE mem[Buffer][h] = lba
    <3>1. iocq_head \in Entries /\ f \in 0 .. Issued /\ p \in 0 .. f
      BY <2>2 DEF NvmeInv, NvmeTypeOK, Round, Pointers
    <3>2. Issued - 1 < p
      BY <1>3, <2>2, <2>4, <2>5, <3>1 DEF Round, Queued
    <3>3. p = f /\ f = Issued /\ f \in Nat
      BY <1>4, <3>1, <3>2
    <3>4. Cardinality(Complete(f)) = f
      BY <2>2, <3>3 DEF Round
    <3>5. Complete(f) = 1 .. f
      BY <3>3, <3>4, CompleteCount
    <3>6. Buffer \in Complete(f)
      BY <1>4, <3>3, <3>5
    <3>7. Asked(Buffer) = lba
      <4>1. ~(Buffer <= Len(results))
        BY <1>4, IssuedType
      <4>2. QED
        BY <4>1 DEF Asked
    <3>8. QED
      BY <2>2, <2>5, <3>6, <3>7 DEF Round, Arrived
  <2>6. Looking'
    BY <1>1, <1>2, <1>4, <1>5, <2>4, <2>5 DEF Looking
  <2>7. QED
    BY <2>3, <2>6
<1>8. QED
  BY <1>2, <1>4, <1>6, <1>7 DEF SeenInv

\* The head steps, seen or not.
LEMMA AckSeen ==
    ASSUME NvmeInv, SeenInv, ReadAck
    PROVE  SeenInv'
<1>1. pc = "ack" /\ pc' = "copy"
  BY DEF ReadAck, Goto
<1>2. UNCHANGED <<iosq, iocq, mem, sqTail, sqHead, cqTail, phase, inflight, results,
                  iosq_tail, lba, seen>>
  BY DEF ReadAck, ioDevVars
<1>3. iocq_head' = (iocq_head + 1) % QueueSize
  BY DEF ReadAck
<1>4. Issued' = Issued /\ Issued \in Nat /\ (\A b : Asked(b)' = Asked(b)) /\ Buffer' = Buffer
  BY <1>1, <1>2, IssuedType DEF Issued, Issuing, Asked, Buffer
<1>5. SeenMeansDone'
  BY <1>2 DEF SeenInv, SeenMeansDone
<1>6. ASSUME Issued <= QueueSize PROVE Looking'
  <2>1. Looking
    BY <1>6 DEF SeenInv
  <2>2. iocq_head = Issued - 1
    BY <1>1, <2>1 DEF Looking
  <2>3. iocq_head + 1 = Issued
    BY <1>4, <2>2
  <2>4. iocq_head' = Issued' % QueueSize
    BY <1>3, <1>4, <2>3
  <2>5. QED
    BY <1>1, <1>2, <1>4, <2>1, <2>4 DEF Looking
<1>7. ASSUME NEW f, NEW p, Round(f, p) PROVE Round(f, p)'
  BY <1>2, <1>4, <1>7, RoundSame
<1>8. QED
  BY <1>2, <1>4, <1>5, <1>6, <1>7 DEF SeenInv

\* A read of the first round that was seen returns the whole block.
LEMMA ReturnSeen ==
    ASSUME NvmeInv, NvmeInv', SeenInv, ReadReturn
    PROVE  SeenInv'
<1>1. pc = "copy" /\ pc' = "idle"
  BY DEF ReadReturn, Goto
<1>2. UNCHANGED <<iosq, iocq, mem, sqTail, sqHead, cqTail, phase, inflight, iosq_tail,
                  iocq_head, lba, seen>>
  BY DEF ReadReturn, queueVars, ioDevVars
<1>3. PICK x : x = [lba |-> lba, data |-> mem[Buffer], seen |-> seen]
  OBVIOUS
<1>4. results' = Append(results, x)
  BY <1>3 DEF ReadReturn
<1>5. /\ results \in Seq([lba : Nat, data : Halves, seen : BOOLEAN]) /\ Len(results) \in Nat
      /\ mem \in [Reads -> Halves] /\ lba \in Nat /\ seen \in BOOLEAN
  BY DEF NvmeInv, NvmeTypeOK
<1>6. Buffer \in Reads /\ Buffer = Len(results) + 1 /\ mem[Buffer] \in Halves
  BY <1>1, <1>5, IssuedType DEF Reading, Issuing
<1>7. x \in [lba : Nat, data : Halves, seen : BOOLEAN]
  BY <1>3, <1>5, <1>6
<1>8. /\ results' \in Seq([lba : Nat, data : Halves, seen : BOOLEAN])
      /\ Len(results') = Len(results) + 1
      /\ \A k \in 1 .. Len(results) : results'[k] = results[k]
      /\ results'[Len(results) + 1] = x
  BY <1>4, <1>5, <1>7
<1>9. Issued = Len(results) + 1 /\ Issued' = Issued /\ Issued \in Nat
  BY <1>1, <1>5, <1>8 DEF Issued, Issuing
<1>10. ASSUME NEW b \in 1 .. Issued PROVE Asked(b)' = Asked(b)
  <2>1. CASE b <= Len(results)
    <3>1. b \in 1 .. Len(results) /\ b <= Len(results')
      BY <1>5, <1>8, <2>1
    <3>2. QED
      BY <1>8, <2>1, <3>1 DEF Asked
  <2>2. CASE b = Len(results) + 1
    <3>1. b <= Len(results') /\ ~(b <= Len(results))
      BY <1>5, <1>8, <2>2
    <3>2. x.lba = lba
      BY <1>3
    <3>3. QED
      BY <1>8, <2>2, <3>1, <3>2 DEF Asked
  <2>3. QED
    BY <1>5, <1>9, <2>1, <2>2
<1>11. ASSUME NEW f, NEW p, Round(f, p) PROVE Round(f, p)'
  BY <1>2, <1>9, <1>10, <1>11, RoundSame
<1>12. Issued <= QueueSize => Looking'
  BY <1>1, <1>2, <1>9 DEF SeenInv, Looking
<1>13. SeenMeansDone'
  <2> SUFFICES ASSUME NEW k \in DOMAIN results', k <= QueueSize, results'[k].seen,
                      results'[k].lba \notin BadLbas
               PROVE  results'[k].data = <<results'[k].lba, results'[k].lba>>
    BY DEF SeenMeansDone
  <2>1. k \in 1 .. Len(results) + 1
    BY <1>8
  <2>2. CASE k \in 1 .. Len(results)
    <3>1. k \in DOMAIN results /\ results'[k] = results[k]
      BY <1>5, <1>8, <2>2
    <3>2. QED
      BY <3>1 DEF SeenInv, SeenMeansDone
  <2>3. CASE k = Len(results) + 1
    <3>1. results'[k].seen = seen /\ results'[k].lba = lba /\ results'[k].data = mem[Buffer]
      <4>1. results'[k] = x
        BY <1>8, <2>3
      <4>2. x.seen = seen /\ x.lba = lba /\ x.data = mem[Buffer]
        BY <1>3, Zenon
      <4>3. QED
        BY <4>1, <4>2, Zenon
    <3>2. Issued <= QueueSize
      BY <1>9, <2>3
    <3>6. Looking
      BY <3>2 DEF SeenInv
    <3>3. mem[Buffer][1] = lba /\ mem[Buffer][2] = lba
      BY <1>1, <3>1, <3>6 DEF Looking
    <3>4. mem[Buffer] = <<lba, lba>>
      <4>1. ASSUME NEW m \in [1 .. 2 -> Int], NEW v, m[1] = v, m[2] = v PROVE m = <<v, v>>
        <5>1. m = [h \in 1 .. 2 |-> v]
          BY <4>1
        <5>2. <<v, v>> = [h \in 1 .. 2 |-> v]
          OBVIOUS
        <5>3. QED
          BY <5>1, <5>2
      <4>2. QED
        BY <1>6, <3>3, <4>1 DEF Halves
    <3>5. QED
      BY <3>1, <3>4
  <2>4. QED
    BY <1>5, <2>1, <2>2, <2>3
<1>14. QED
  BY <1>2, <1>9, <1>11, <1>12, <1>13 DEF SeenInv

\* The controller fetches the oldest command it has not fetched yet.
LEMMA FetchSeen ==
    ASSUME NvmeInv, SeenInv, DevFetch
    PROVE  SeenInv'
<1>1. UNCHANGED <<pc, iosq, iocq, mem, sqTail, cqTail, phase, results, iosq_tail, iocq_head,
                  lba, seen>>
  BY DEF DevFetch, readVars, queueVars
<1>2. PICK x : x = [cmd |-> iosq[sqHead], left |-> {1, 2}]
  OBVIOUS
<1>3. inflight' = inflight \cup {x} /\ sqHead # sqTail
  BY <1>2 DEF DevFetch
<1>4. sqHead' = (sqHead + 1) % QueueSize
  BY DEF DevFetch
<1>5. Issued' = Issued /\ Issued \in Nat /\ (\A b : Asked(b)' = Asked(b)) /\ Buffer' = Buffer
  BY <1>1, IssuedType DEF Issued, Asked, Buffer
<1>6. SeenMeansDone'
  BY <1>1 DEF SeenInv, SeenMeansDone
<1>7. ASSUME Issued <= QueueSize
      PROVE  Looking' /\ \E f, p \in 0 .. QueueSize : Round(f, p)'
  <2>1. Looking /\ \E f, p \in 0 .. QueueSize : Round(f, p)
    BY <1>7 DEF SeenInv
  <2>2. PICK f \in 0 .. QueueSize, p \in 0 .. QueueSize : Round(f, p)
    BY <2>1
  <2>3. Looking'
    BY <1>1, <1>5, <2>1 DEF Looking
  <2>4. /\ f \in 0 .. Issued /\ p \in 0 .. f /\ sqTail = Issued % QueueSize
        /\ sqHead = f % QueueSize
    BY <2>2 DEF Round, Pointers
  <2>5. f # Issued
    BY <1>3, <2>4
  <2>6. f \in 0 .. Issued - 1 /\ f \in 0 .. QueueSize - 1 /\ f + 1 \in 0 .. QueueSize /\ f \in Nat
    BY <1>5, <1>7, <2>4, <2>5, QueueLength
  <2>7. f \in 0 .. QueueSize /\ f < QueueSize
    BY <2>6, QueueLength
  <2>8. sqHead = f
    BY <2>4, <2>7, RingPlaces
  <2>9. x.cmd.buf = f + 1 /\ x.left = {1, 2}
    BY <1>2, <2>2, <2>6, <2>8 DEF Round, Queued
  <2>10. \A r \in inflight : r.cmd.buf \in 1 .. f
    BY <2>2 DEF Round, Flying
  <2>11. f + 1 \notin 1 .. f
    BY <2>6
  <2>12. Complete(f + 1)' = Complete(f)
    <3>1. ASSUME NEW b \in 1 .. f + 1, b \notin 1 .. f PROVE b = f + 1
      BY <2>6, <3>1
    <3>2. ASSUME NEW b \in 1 .. f PROVE b \in 1 .. f + 1 /\ b # f + 1
      BY <2>6, <3>2
    <3>3. QED
      BY <1>3, <2>9, <3>1, <3>2 DEF Complete
  <2>13. Pointers(f + 1, p)'
    <3>1. f + 1 \in 0 .. Issued' /\ p \in 0 .. f + 1
      BY <1>5, <2>4, <2>6
    <3>2. sqHead' = (f + 1) % QueueSize
      BY <1>4, <2>8
    <3>3. /\ iosq_tail' = Issued' % QueueSize /\ sqTail' = iosq_tail' /\ cqTail' = p % QueueSize
          /\ phase' = IF p < QueueSize THEN 1 ELSE 0
      BY <1>1, <1>5, <2>2 DEF Round, Pointers
    <3>4. QED
      BY <3>1, <3>2, <3>3 DEF Pointers
  <2>14. Queued(p)'
    BY <1>1, <1>5, <2>2 DEF Round, Queued
  <2>15. Flying(f + 1)'
    <3>1. ASSUME NEW r \in inflight' PROVE r.cmd.buf \in 1 .. f + 1
      <4>1. CASE r \in inflight
        BY <2>6, <2>10, <4>1
      <4>2. CASE r = x
        BY <2>6, <2>9, <4>2
      <4>3. QED
        BY <1>3, <4>1, <4>2
    <3>2. \A r, s \in inflight' : r.cmd.buf = s.cmd.buf => r = s
      <4>1. \A r, s \in inflight : r.cmd.buf = s.cmd.buf => r = s
        BY <2>2 DEF Round, Flying
      <4>2. \A r \in inflight : r.cmd.buf # x.cmd.buf
        BY <2>9, <2>10, <2>11
      <4>3. QED
        BY <1>3, <4>1, <4>2
    <3>3. QED
      BY <3>1, <3>2 DEF Flying
  <2>16. Arrived(f + 1)'
    <3>1. \A b \in Complete(f + 1)' : Asked(b)' \notin BadLbas =>
             \A h \in {1, 2} : mem'[b][h] = Asked(b)'
      BY <1>1, <1>5, <2>2, <2>12 DEF Round, Arrived
    <3>2. \A r \in inflight' : \A h \in {1, 2} \ r.left : mem'[r.cmd.buf][h] = r.cmd.lba
      BY <1>1, <1>3, <2>2, <2>9 DEF Round, Arrived
    <3>3. QED
      BY <3>1, <3>2 DEF Arrived
  <2>17. Round(f + 1, p)'
    BY <2>2, <2>12, <2>13, <2>14, <2>15, <2>16 DEF Round
  <2>18. QED
    BY <2>3, <2>6, <2>17
<1>8. QED
  BY <1>1, <1>5, <1>6, <1>7 DEF SeenInv

\* Half a block arrives.
LEMMA DmaSeen ==
    ASSUME NvmeInv, SeenInv, NEW r \in inflight, NEW g \in {1, 2}, DevDma(r, g)
    PROVE  SeenInv'
<1>1. UNCHANGED <<pc, iosq, iocq, sqTail, sqHead, cqTail, phase, results, iosq_tail, iocq_head,
                  lba, seen>>
  BY DEF DevDma, readVars
<1>2. PICK x : x = [r EXCEPT !.left = r.left \ {g}]
  OBVIOUS
<1>3. inflight' = (inflight \ {r}) \cup {x}
  BY <1>2 DEF DevDma
<1>4. mem' = [mem EXCEPT ![r.cmd.buf][g] = r.cmd.lba]
  BY DEF DevDma
<1>5. Issued' = Issued /\ Issued \in Nat /\ (\A b : Asked(b)' = Asked(b)) /\ Buffer' = Buffer
  BY <1>1, IssuedType DEF Issued, Asked, Buffer
<1>6. /\ r \in [cmd : Commands, left : SUBSET {1, 2}] /\ mem \in [Reads -> Halves]
      /\ CmdOK(r.cmd)
  BY DEF NvmeInv, NvmeTypeOK
<1>7. x.cmd = r.cmd /\ x.left = r.left \ {g}
  BY <1>2, <1>6
<1>8. SeenMeansDone'
  BY <1>1 DEF SeenInv, SeenMeansDone
<1>9. ASSUME NEW b \in Reads, NEW h \in {1, 2}
      PROVE  mem'[b][h] = IF b = r.cmd.buf /\ h = g THEN r.cmd.lba ELSE mem[b][h]
  BY <1>4, <1>6 DEF Halves
<1>10. ASSUME Issued <= QueueSize
       PROVE  Looking' /\ \E f, p \in 0 .. QueueSize : Round(f, p)'
  <2>1. Looking /\ \E f, p \in 0 .. QueueSize : Round(f, p)
    BY <1>10 DEF SeenInv
  <2>2. PICK f \in 0 .. QueueSize, p \in 0 .. QueueSize : Round(f, p)
    BY <2>1
  <2>3. f \in 0 .. Issued /\ \A q \in inflight : q.cmd.buf \in 1 .. f
    BY <2>2 DEF Round, Pointers, Flying
  <2>4. \A b \in 1 .. f : b \in Reads /\ b # 0 /\ b \in 1 .. Issued
    BY <1>5, <2>3, IssuedType DEF Reads
  <2>5. r.cmd.lba = Asked(r.cmd.buf)
    BY <1>6, <2>3, <2>4 DEF CmdOK
  <2>6. Looking'
    <3>1. iocq_head' = IF pc' \in {"wait", "ack"} THEN Issued' - 1 ELSE Issued' % QueueSize
      BY <1>1, <1>5, <2>1 DEF Looking
    <3>2. ASSUME pc \in {"ack", "copy"}, seen, lba \notin BadLbas, NEW h \in {1, 2}
          PROVE  mem'[Buffer][h] = lba
      <4>1. mem[Buffer][h] = lba
        BY <2>1, <3>2 DEF Looking
      <4>2. Buffer \in Reads /\ Buffer = Len(results) + 1 /\ Len(results) \in Nat
        BY <3>2, IssuedType DEF Reading, Issuing
      <4>3. Asked(Buffer) = lba
        <5>1. ~(Buffer <= Len(results))
          BY <4>2
        <5>2. QED
          BY <5>1 DEF Asked
      <4>4. QED
        BY <1>9, <2>5, <4>1, <4>2, <4>3
    <3>3. QED
      BY <1>1, <1>5, <3>1, <3>2 DEF Looking
  <2>7. Complete(f)' = Complete(f)
    BY <1>3, <1>7 DEF Complete
  <2>8. Pointers(f, p)'
    BY <1>1, <1>5, <2>2 DEF Round, Pointers
  <2>9. Queued(p)'
    BY <1>1, <1>5, <2>2 DEF Round, Queued
  <2>10. \A q, s \in inflight : q.cmd.buf = s.cmd.buf => q = s
    BY <2>2 DEF Round, Flying
  <2>11. Flying(f)'
    BY <1>3, <1>7, <2>3, <2>10 DEF Flying
  <2>12. Arrived(f)'
    <3>1. ASSUME NEW b \in Complete(f), Asked(b) \notin BadLbas, NEW h \in {1, 2}
          PROVE  mem'[b][h] = Asked(b)
      <4>1. b \in 1 .. f /\ r.cmd.buf # b
        BY <3>1 DEF Complete
      <4>2. mem[b][h] = Asked(b)
        BY <2>2, <3>1 DEF Round, Arrived
      <4>3. QED
        BY <1>9, <2>4, <4>1, <4>2
    <3>2. ASSUME NEW q \in inflight', NEW h \in {1, 2} \ q.left
          PROVE  mem'[q.cmd.buf][h] = q.cmd.lba
      <4>1. CASE q = x
        <5>1. q.cmd = r.cmd /\ r.cmd.buf \in Reads
          BY <1>7, <2>3, <2>4, <4>1
        <5>2. CASE h = g
          BY <1>9, <5>1, <5>2
        <5>3. CASE h # g
          <6>1. h \in {1, 2} \ r.left
            BY <1>7, <3>2, <4>1, <5>3
          <6>2. mem[r.cmd.buf][h] = r.cmd.lba
            BY <2>2, <6>1 DEF Round, Arrived
          <6>3. QED
            BY <1>9, <5>1, <5>3, <6>2
        <5>4. QED
          BY <5>2, <5>3
      <4>2. CASE q \in inflight /\ q # r
        <5>1. q.cmd.buf # r.cmd.buf /\ q.cmd.buf \in Reads
          BY <2>3, <2>4, <2>10, <4>2
        <5>2. mem[q.cmd.buf][h] = q.cmd.lba
          BY <2>2, <3>2, <4>2 DEF Round, Arrived
        <5>3. QED
          BY <1>9, <5>1, <5>2
      <4>3. QED
        BY <1>3, <3>2, <4>1, <4>2
    <3>3. QED
      BY <1>5, <2>7, <3>1, <3>2 DEF Arrived
  <2>13. Round(f, p)'
    BY <2>2, <2>7, <2>8, <2>9, <2>11, <2>12 DEF Round
  <2>14. QED
    BY <2>6, <2>13
<1>11. QED
  BY <1>1, <1>5, <1>8, <1>10 DEF SeenInv

\* A completion is posted: one more read is complete.
LEMMA PostSeen ==
    ASSUME NvmeInv, SeenInv, NEW r \in inflight, DevPost(r)
    PROVE  SeenInv'
<1>1. UNCHANGED <<pc, iosq, mem, sqTail, sqHead, results, iosq_tail, iocq_head, lba, seen>>
  BY DEF DevPost, readVars
<1>2. inflight' = inflight \ {r} /\ (r.left = {} \/ r.cmd.lba \in BadLbas)
  BY DEF DevPost
<1>3. iocq' = [iocq EXCEPT ![cqTail] = phase]
  BY DEF DevPost
<1>4. cqTail' = (cqTail + 1) % QueueSize
  BY DEF DevPost
<1>5. phase' = IF cqTail = QueueSize - 1 THEN 1 - phase ELSE phase
  BY DEF DevPost
<1>6. Issued' = Issued /\ Issued \in Nat /\ (\A b : Asked(b)' = Asked(b)) /\ Buffer' = Buffer
  BY <1>1, IssuedType DEF Issued, Asked, Buffer
<1>7. iocq \in [Entries -> {0, 1}] /\ cqTail \in Entries /\ phase \in {0, 1}
  BY DEF SeenInv
<1>8. iocq' \in [Entries -> {0, 1}] /\ cqTail' \in Entries /\ phase' \in {0, 1}
  <2>1. iocq' \in [Entries -> {0, 1}] /\ phase' \in {0, 1}
    BY <1>3, <1>5, <1>7
  <2>2. cqTail' \in Entries
    BY <1>4, <1>7, NvmeAssumption DEF Entries
  <2>3. QED
    BY <2>1, <2>2
<1>9. SeenMeansDone'
  BY <1>1 DEF SeenInv, SeenMeansDone
<1>10. ASSUME Issued <= QueueSize
       PROVE  Looking' /\ \E f, p \in 0 .. QueueSize : Round(f, p)'
  <2>1. Looking /\ \E f, p \in 0 .. QueueSize : Round(f, p)
    BY <1>10 DEF SeenInv
  <2>2. PICK f \in 0 .. QueueSize, p \in 0 .. QueueSize : Round(f, p)
    BY <2>1
  <2>3. Looking'
    BY <1>1, <1>6, <2>1 DEF Looking
  <2>4. /\ f \in 0 .. Issued /\ p \in 0 .. f /\ cqTail = p % QueueSize
        /\ phase = IF p < QueueSize THEN 1 ELSE 0
    BY <2>2 DEF Round, Pointers
  <2>5. Cardinality(Complete(f)) = p /\ r.cmd.buf \in 1 .. f /\ f \in Nat
    BY <2>2, <2>4, QueueLength DEF Round, Flying
  <2>6. r.cmd.buf \notin Complete(f)
    BY DEF Complete
  <2>7. p < f
    BY <2>5, <2>6, CompleteCount
  <2>8. p \in Nat /\ p < QueueSize /\ p + 1 \in 0 .. f /\ p + 1 \in 0 .. QueueSize
    BY <1>6, <1>10, <2>4, <2>5, <2>7, QueueLength
  <2>9. cqTail = p /\ phase = 1
    BY <2>4, <2>8, RingPlaces
  <2>10. \A q, s \in inflight : q.cmd.buf = s.cmd.buf => q = s
    BY <2>2 DEF Round, Flying
  <2>11. Complete(f)' = Complete(f) \cup {r.cmd.buf}
    BY <1>2, <2>5, <2>10 DEF Complete
  <2>12. Cardinality(Complete(f)') = p + 1
    <3>1. IsFiniteSet(Complete(f))
      BY <2>5, CompleteCount
    <3>2. Cardinality(Complete(f) \cup {r.cmd.buf}) = Cardinality(Complete(f)) + 1
      BY <2>6, <3>1, FS_AddElement
    <3>3. QED
      BY <2>5, <2>11, <3>2
  <2>13. Pointers(f, p + 1)'
    <3>1. cqTail' = (p + 1) % QueueSize
      BY <1>4, <2>9
    <3>2. phase' = IF p + 1 < QueueSize THEN 1 ELSE 0
      BY <1>5, <2>8, <2>9, QueueLength
    <3>3. iosq_tail' = Issued' % QueueSize /\ sqTail' = iosq_tail' /\ sqHead' = f % QueueSize
      BY <1>1, <1>6, <2>2 DEF Round, Pointers
    <3>4. QED
      BY <1>6, <2>4, <2>8, <3>1, <3>2, <3>3 DEF Pointers
  <2>14. Queued(p + 1)'
    <3>1. ASSUME NEW i \in Entries, iocq'[i] = 1 PROVE i < p + 1
      <4>1. i \in Nat
        BY QueueLength
      <4>2. CASE i = p
        BY <2>8, <4>2
      <4>3. CASE i # p
        <5>1. iocq'[i] = iocq[i]
          BY <1>3, <1>7, <2>9, <4>3
        <5>2. i < p
          BY <2>2, <3>1, <5>1 DEF Round, Queued
        <5>3. QED
          BY <2>8, <4>1, <5>2
      <4>4. QED
        BY <4>2, <4>3
    <3>2. \A i \in 0 .. Issued' - 1 : iosq'[i].buf = i + 1
      BY <1>1, <1>6, <2>2 DEF Round, Queued
    <3>3. QED
      BY <3>1, <3>2 DEF Queued
  <2>15. Flying(f)'
    BY <1>2, <2>2 DEF Round, Flying
  <2>16. Arrived(f)'
    <3>1. ASSUME NEW b \in Complete(f)', Asked(b) \notin BadLbas, NEW h \in {1, 2}
          PROVE  mem[b][h] = Asked(b)
      <4>1. CASE b \in Complete(f)
        BY <2>2, <3>1, <4>1 DEF Round, Arrived
      <4>2. CASE b = r.cmd.buf
        <5>1. CmdOK(r.cmd) /\ r.cmd.buf # 0
          BY <2>5 DEF NvmeInv
        <5>2. r.cmd.lba = Asked(b)
          BY <4>2, <5>1 DEF CmdOK
        <5>3. h \in {1, 2} \ r.left
          BY <1>2, <3>1, <5>2
        <5>4. QED
          BY <2>2, <4>2, <5>2, <5>3 DEF Round, Arrived
      <4>3. QED
        BY <2>11, <3>1, <4>1, <4>2
    <3>2. \A q \in inflight' : \A h \in {1, 2} \ q.left : mem'[q.cmd.buf][h] = q.cmd.lba
      BY <1>1, <1>2, <2>2 DEF Round, Arrived
    <3>3. QED
      BY <1>1, <1>6, <3>1, <3>2 DEF Arrived
  <2>17. Round(f, p + 1)'
    BY <2>12, <2>13, <2>14, <2>15, <2>16 DEF Round
  <2>18. QED
    BY <2>3, <2>8, <2>17
<1>11. QED
  BY <1>6, <1>8, <1>9, <1>10 DEF SeenInv

\* Every step of the kernel, the task and both controllers, seen from the queues.
LEMMA SeenStepOK ==
    ASSUME NvmeInv, StorageInv, SeenInv, [Next]_vars
    PROVE  SeenInv'
<1> NvmeInv' /\ StorageInv'
  BY StorageStepOK
<1>1. CASE UNCHANGED nvmeVars
  <2>1. UNCHANGED <<pc, iosq, iocq, mem, sqTail, sqHead, cqTail, phase, inflight, results,
                    iosq_tail, iocq_head, lba, seen>>
    BY <1>1 DEF nvmeVars, readVars, queueVars, ioDevVars
  <2>2. QED
    BY <2>1, SeenIdle
<1>2. ASSUME NEW l, ReadClear(l) PROVE SeenInv'
  BY <1>2, ClearSeen
<1>3. CASE bootStep
  <2>1. CASE ReadBoot \/ ReadRoot \/ ReadPayload
    BY <1>2, <2>1 DEF ReadBoot, ReadRoot, ReadPayload
  <2>2. CASE InvalidRoot \/ NotFound \/ Extract
    <3>1. UNCHANGED nvmeVars
      BY <2>2 DEF InvalidRoot, NotFound, Extract, Serve
    <3>2. QED
      BY <1>1, <3>1
  <2>3. CASE NoDrive
    <3>1. /\ UNCHANGED <<iosq, iocq, mem, sqTail, sqHead, cqTail, phase, inflight, results,
                         iosq_tail, iocq_head, lba, seen>>
          /\ pc \notin Reading /\ pc' \notin Reading
      BY <2>3 DEF NoDrive, Goto, readVars, queueVars, ioDevVars, Reading, Issuing
    <3>2. QED
      BY <3>1, SeenIdle
  <2>4. ASSUME NEW b, NEW c, OverflowPanic(b, c) PROVE SeenInv'
    <3>1. /\ UNCHANGED <<iosq, iocq, mem, sqTail, sqHead, cqTail, phase, inflight, results,
                         iosq_tail, iocq_head, lba, seen>>
          /\ pc \notin Reading /\ pc' \notin Reading
      BY <2>4 DEF OverflowPanic, At, readVars, queueVars, ioDevVars, Reading, Issuing
    <3>2. QED
      BY <3>1, SeenIdle
  <2>5. QED
    BY <1>3, <2>1, <2>2, <2>3, <2>4 DEF bootStep
<1>4. CASE SysRead
  BY <1>2, <1>4 DEF SysRead
<1>5. CASE NoAudio \/ Ready
  BY <1>1, <1>5 DEF NoAudio, Ready
<1>6. CASE nvmeStep
  <2>1. CASE initStep \/ identify_controller
    <3>1. UNCHANGED <<readVars, queueVars, ioDevVars>>
      BY <2>1 DEF initStep, identify_controller, InitAbsent, InitDisable, InitEnable,
         InitTimeout, InitCreateCq, InitCreateSq, InitReady, IdentifyNull, Identify,
         IdentifyEnd, AdminSubmit
    <3>2. pc \notin Reading /\ pc' \notin Reading
      BY <2>1 DEF initStep, identify_controller, InitAbsent, InitDisable, InitEnable,
         InitTimeout, InitCreateCq, InitCreateSq, InitReady, IdentifyNull, Identify,
         IdentifyEnd, Goto, Reading, Issuing
    <3>3. UNCHANGED <<iosq, iocq, mem, sqTail, sqHead, cqTail, phase, inflight, results,
                      iosq_tail, iocq_head, lba, seen>>
      BY <3>1 DEF readVars, queueVars, ioDevVars
    <3>4. QED
      BY <3>2, <3>3, SeenIdle
  <2>2. QED
    BY <1>6, <2>1, SubmitSeen, WaitSeen, AckSeen, ReturnSeen DEF nvmeStep, read_sector
<1>7. CASE Controller
  <2>1. CASE DevReady \/ \E i \in 0 .. 2 : DevAdmin(i)
    <3>1. UNCHANGED <<pc, iosq, iocq, mem, sqTail, sqHead, cqTail, phase, inflight, results,
                      iosq_tail, iocq_head, lba, seen>>
      BY <2>1 DEF DevReady, DevAdmin, readVars, queueVars, ioDevVars
    <3>2. QED
      BY <3>1, SeenIdle
  <2>2. QED
    BY <1>7, <2>1, FetchSeen, DmaSeen, PostSeen DEF Controller
<1>8. QED
  <2>1. UNCHANGED vars \/ UNCHANGED storageVars => UNCHANGED nvmeVars
    BY DEF vars, storageVars
  <2>2. CASE Kernel
    BY <1>1, <1>3, <1>5, <1>6, <2>1, <2>2 DEF Kernel, StorageStep
  <2>3. QED
    BY <1>1, <1>4, <1>7, <2>1, <2>2 DEF Next

\* In the first round of the queues the controller posts completions in the order
\* of the entries the driver looks at, and never more than there are reads whose
\* sector has arrived.
THEOREM FirstRoundCorrect == Spec => []SeenInv
<1>1. Init => SeenInv
  <2> SUFFICES ASSUME Init PROVE SeenInv
    OBVIOUS
  <2>1. NvmeInit
    BY DEF Init, StorageInit
  <2>2. results = <<>> /\ pc = "init"
    BY <2>1 DEF NvmeInit
  <2>3. Len(results) = 0 /\ DOMAIN results = {}
    BY <2>2
  <2>4. Issued = 0 /\ pc \notin {"wait", "ack"} /\ pc \notin {"ack", "copy"}
    BY <2>2, <2>3 DEF Issued, Issuing
  <2>5. 0 % QueueSize = 0 /\ 0 \in 0 .. QueueSize /\ 0 < QueueSize /\ 0 \in Entries
    BY NvmeAssumption DEF Entries
  <2>6. Looking
    BY <2>1, <2>4, <2>5 DEF NvmeInit, Looking
  <2>7. Complete(0) = {} /\ Cardinality(Complete(0)) = 0
    <3>1. Complete(0) = {}
      BY DEF Complete
    <3>2. QED
      BY <3>1, FS_EmptySet
  <2>8. Pointers(0, 0)
    BY <2>1, <2>4, <2>5 DEF NvmeInit, Pointers
  <2>9. Queued(0)
    BY <2>1, <2>4 DEF NvmeInit, Queued
  <2>10. Flying(0) /\ Arrived(0)
    BY <2>1, <2>7 DEF NvmeInit, Flying, Arrived
  <2>11. Round(0, 0)
    BY <2>7, <2>8, <2>9, <2>10 DEF Round
  <2>12. SeenMeansDone
    BY <2>3 DEF SeenMeansDone
  <2>13. iocq \in [Entries -> {0, 1}] /\ cqTail \in Entries /\ phase \in {0, 1}
    BY <2>1, <2>5 DEF NvmeInit
  <2>14. QED
    BY <2>5, <2>6, <2>11, <2>12, <2>13 DEF SeenInv
<1>2. NvmeInv /\ StorageInv /\ SeenInv /\ [Next]_vars => SeenInv'
  BY SeenStepOK
<1>3. QED
  BY <1>1, <1>2, StorageCorrect, PTL DEF Spec

\* In the first round a set status bit proves the sector of that read is complete.
THEOREM SeenIsDone == Spec => []SeenMeansDone
<1>1. SeenInv => SeenMeansDone
  BY DEF SeenInv
<1>2. QED
  BY <1>1, FirstRoundCorrect, PTL
=============================================================================
