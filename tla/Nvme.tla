-------------------------------- MODULE Nvme --------------------------------
(***************************************************************************)
(* The NVMe driver (nvme.rs): init() resets the controller and creates one *)
(* I/O queue pair, identify_controller() asks for its name, read_sector()  *)
(* reads one block by polling.  Every wait is a counted loop that gives up *)
(* on a slow controller; the controller goes on, and may finish an         *)
(* abandoned command later, in any order.                                  *)
(*                                                                         *)
(* The driver submits at iosq_tail and looks at the completion entry       *)
(* iocq_head, one step each per read, and never looks at the command       *)
(* identifier or the submission-queue head in a completion.                *)
(***************************************************************************)
EXTENDS Integers, Sequences, FiniteSets

CONSTANTS QueueSize,   \* entries of each I/O queue (16 in the driver)
          BadLbas,     \* the blocks the controller answers with an error
          MaxReads     \* bound: how many sectors are read in one behaviour

ASSUME NvmeAssumption == /\ QueueSize \in Nat \ {0, 1}
                         /\ MaxReads \in Nat
                         /\ BadLbas \subseteq Nat

VARIABLES
    \* the driver
    pc,           \* where the kernel is in init, identify_controller or read_sector
    mapped,       \* the queue pointers are set (not null)
    iosq_tail, iocq_head,
    lba,          \* read_sector's argument
    seen,         \* the wait ended with the status bit set, not with the counter
    results,      \* history: what the reads returned
    \* memory shared with the controller
    asq,          \* the admin entries that hold a command
    iosq,         \* the commands in the I/O submission queue
    iocq,         \* bit 0 of each I/O completion entry's status
    mem,          \* the two halves of each read's data buffer
    \* the controller
    present, enabled, rdy, asqTail, adminDone, sqMade,
    sqTail, sqHead, cqHead, cqTail, phase, inflight

readVars == <<iosq_tail, iocq_head, lba, seen, results>>
adminVars == <<present, enabled, rdy, asq, asqTail, adminDone, sqMade>>
queueVars == <<iosq, iocq, mem, sqTail, cqHead>>
ioDevVars == <<sqHead, cqTail, phase, inflight>>
nvmeVars == <<pc, mapped, readVars, adminVars, queueVars, ioDevVars>>

Entries == 0 .. QueueSize - 1
Zero == -1                       \* the content of a fresh buffer
Reads == 1 .. MaxReads           \* read number k uses data buffer k

\* Mutant: one data buffer serves all reads.
Buffer_Shared == 1

\* The data buffer of the current read: a fresh one for each.
Buffer == Len(results) + 1

\* The firmware may have left the controller enabled.
NvmeInit ==
    /\ pc = "init" /\ mapped = FALSE
    /\ iosq_tail = 0 /\ iocq_head = 0 /\ lba = 0 /\ seen = FALSE /\ results = <<>>
    /\ asq = {}
    /\ iosq = [i \in Entries |-> [buf |-> 0, lba |-> 0]]
    /\ iocq = [i \in Entries |-> 0]
    /\ mem = [b \in Reads |-> <<Zero, Zero>>]
    /\ present \in BOOLEAN /\ rdy \in BOOLEAN /\ enabled = rdy
    /\ asqTail = 0 /\ adminDone = {} /\ sqMade = FALSE
    /\ sqTail = 0 /\ sqHead = 0 /\ cqHead = 0 /\ cqTail = 0 /\ phase = 1
    /\ inflight = {}

-----------------------------------------------------------------------------
(* init and identify_controller.                                            *)

Goto(from, to) == pc = from /\ pc' = to

\* init: no controller answers at BAR0, it returns and the caller goes on.
InitAbsent ==
    /\ ~present /\ Goto("init", "identify")
    /\ UNCHANGED <<mapped, readVars, adminVars, queueVars, ioDevVars>>

InitDisable ==
    /\ present /\ Goto("init", "disable")
    /\ enabled' = FALSE
    /\ UNCHANGED <<mapped, readVars, present, rdy, asq, asqTail, adminDone, sqMade,
                   queueVars, ioDevVars>>

\* The controller is off: allocate the queues, tell it where the admin pair is
\* and switch it on.
InitEnable ==
    /\ ~rdy /\ Goto("disable", "enable")
    /\ mapped' = TRUE
    /\ enabled' = TRUE
    /\ UNCHANGED <<readVars, present, rdy, asq, asqTail, adminDone, sqMade, queueVars,
                   ioDevVars>>

\* init gives up on CSTS.RDY: it returns and the caller goes on.
InitTimeout ==
    /\ (rdy /\ Goto("disable", "identify")) \/ (~rdy /\ Goto("enable", "identify"))
    /\ UNCHANGED <<mapped, readVars, adminVars, queueVars, ioDevVars>>

\* Write an admin command into entry i and ring the doorbell.
AdminSubmit(i) ==
    /\ asq' = asq \cup {i}
    /\ asqTail' = i + 1
    /\ UNCHANGED <<mapped, readVars, present, enabled, rdy, adminDone, sqMade, queueVars,
                   ioDevVars>>

InitCreateCq == rdy /\ Goto("enable", "waitCq") /\ AdminSubmit(0)

\* The waits of init end at any time, with the queue created or not: a counter
\* breaks them, and their loads are not volatile.
InitCreateSq == Goto("waitCq", "waitSq") /\ AdminSubmit(1)

InitReady ==
    /\ Goto("waitSq", "identify")
    /\ UNCHANGED <<mapped, readVars, adminVars, queueVars, ioDevVars>>

\* identify_controller after an init that returned too early: a slice is made of
\* a null pointer, which the debug build that is booted answers with a panic.
IdentifyNull ==
    /\ ~mapped /\ Goto("identify", "panic")
    /\ UNCHANGED <<mapped, readVars, adminVars, queueVars, ioDevVars>>

Identify == mapped /\ Goto("identify", "waitId") /\ AdminSubmit(2)

\* Its wait ends with the name, which is only printed, or without it.
IdentifyEnd ==
    /\ Goto("waitId", "idle")
    /\ UNCHANGED <<mapped, readVars, adminVars, queueVars, ioDevVars>>

-----------------------------------------------------------------------------
(* read_sector.                                                             *)

\* Allocate the data buffer and clear the old completion at cmd_idx.
ReadClear(l) ==
    /\ Len(results) < MaxReads
    /\ Goto("idle", "submit")
    /\ lba' = l
    /\ iocq' = [iocq EXCEPT ![iosq_tail] = 0]
    /\ UNCHANGED <<mapped, iosq_tail, iocq_head, seen, results, adminVars, iosq, mem,
                   sqTail, cqHead, ioDevVars>>

\* Write the command, step the tail and ring the doorbell.
ReadSubmit ==
    /\ Goto("submit", "wait")
    /\ iosq' = [iosq EXCEPT ![iosq_tail] = [buf |-> Buffer, lba |-> lba]]
    /\ iosq_tail' = (iosq_tail + 1) % QueueSize
    /\ sqTail' = (iosq_tail + 1) % QueueSize
    /\ UNCHANGED <<mapped, iocq_head, lba, seen, results, adminVars, iocq, mem, cqHead,
                   ioDevVars>>

\* The wait: the bit is set, or the counter runs out while it is not.
ReadSeen ==
    /\ iocq[iocq_head] = 1 /\ Goto("wait", "ack")
    /\ seen' = TRUE
    /\ UNCHANGED <<mapped, iosq_tail, iocq_head, lba, results, adminVars, queueVars,
                   ioDevVars>>

\* Mutant: the wait has no counter.
ReadTimeout_NoLimit == FALSE /\ UNCHANGED nvmeVars

ReadTimeout ==
    /\ iocq[iocq_head] = 0 /\ Goto("wait", "ack")
    /\ seen' = FALSE
    /\ UNCHANGED <<mapped, iosq_tail, iocq_head, lba, results, adminVars, queueVars,
                   ioDevVars>>

\* Mutant: a wait that gave up does not step the head.
ReadAck_OnlySeen ==
    /\ Goto("ack", "copy")
    /\ iocq_head' = IF seen THEN (iocq_head + 1) % QueueSize ELSE iocq_head
    /\ cqHead' = iocq_head'
    /\ UNCHANGED <<mapped, iosq_tail, lba, seen, results, adminVars, iosq, iocq, mem,
                   sqTail, ioDevVars>>

\* Step the head, seen or not.
ReadAck ==
    /\ Goto("ack", "copy")
    /\ iocq_head' = (iocq_head + 1) % QueueSize
    /\ cqHead' = (iocq_head + 1) % QueueSize
    /\ UNCHANGED <<mapped, iosq_tail, lba, seen, results, adminVars, iosq, iocq, mem,
                   sqTail, ioDevVars>>

\* Return whatever the buffer holds.
ReadReturn ==
    /\ Goto("copy", "idle")
    /\ results' = Append(results, [lba |-> lba, data |-> mem[Buffer], seen |-> seen])
    /\ UNCHANGED <<mapped, iosq_tail, iocq_head, lba, seen, adminVars, queueVars,
                   ioDevVars>>

initStep == InitAbsent \/ InitDisable \/ InitEnable \/ InitTimeout \/ InitCreateCq
              \/ InitCreateSq \/ InitReady
identify_controller == IdentifyNull \/ Identify \/ IdentifyEnd
read_sector == ReadSubmit \/ ReadSeen \/ ReadTimeout \/ ReadAck \/ ReadReturn
nvmeStep == initStep \/ identify_controller \/ read_sector

-----------------------------------------------------------------------------
(* The controller.                                                          *)

\* CSTS.RDY follows CC.EN.
DevReady ==
    /\ present /\ rdy # enabled
    /\ rdy' = enabled
    /\ UNCHANGED <<pc, mapped, readVars, present, enabled, asq, asqTail, adminDone, sqMade,
                   queueVars, ioDevVars>>

\* Carry out an admin command and post its completion, in any order.  Entry 1
\* makes the I/O submission queue if entry 0 has made its completion queue; an
\* entry nobody wrote ends in an error.
DevAdmin(i) ==
    /\ present /\ rdy
    /\ i < asqTail /\ i \notin adminDone
    /\ sqMade' = (sqMade \/ (i = 1 /\ {0, 1} \subseteq asq /\ 0 \in adminDone))
    /\ adminDone' = adminDone \cup {i}
    /\ UNCHANGED <<pc, mapped, readVars, present, enabled, rdy, asq, asqTail, queueVars,
                   ioDevVars>>

DevFetch ==
    /\ rdy /\ sqMade /\ sqHead # sqTail
    /\ inflight' = inflight \cup {[cmd |-> iosq[sqHead], left |-> {1, 2}]}
    /\ sqHead' = (sqHead + 1) % QueueSize
    /\ UNCHANGED <<pc, mapped, readVars, adminVars, queueVars, cqTail, phase>>

\* Move one half of the sector to the buffer, in any order.
DevDma(r, h) ==
    /\ h \in r.left /\ r.cmd.lba \notin BadLbas
    /\ mem' = [mem EXCEPT ![r.cmd.buf][h] = r.cmd.lba]
    /\ inflight' = (inflight \ {r}) \cup {[r EXCEPT !.left = r.left \ {h}]}
    /\ UNCHANGED <<pc, mapped, readVars, adminVars, iosq, iocq, sqTail, cqHead, sqHead,
                   cqTail, phase>>

\* Post a completion, unless the completion queue is full.
DevPost(r) ==
    /\ r.left = {} \/ r.cmd.lba \in BadLbas
    /\ (cqTail + 1) % QueueSize # cqHead
    /\ iocq' = [iocq EXCEPT ![cqTail] = phase]
    /\ cqTail' = (cqTail + 1) % QueueSize
    /\ phase' = IF cqTail = QueueSize - 1 THEN 1 - phase ELSE phase
    /\ inflight' = inflight \ {r}
    /\ UNCHANGED <<pc, mapped, readVars, adminVars, iosq, mem, sqTail, cqHead, sqHead>>

Controller ==
    \/ DevReady
    \/ \E i \in 0 .. 2 : DevAdmin(i)
    \/ DevFetch
    \/ \E r \in inflight : (\E h \in {1, 2} : DevDma(r, h)) \/ DevPost(r)

-----------------------------------------------------------------------------
(* Properties.                                                              *)

\* However late, early or out of order the controller works, read_sector never
\* returns bytes of a block it was not asked for: each half of the sector is
\* that block's or still zero.
NeverWrongSector ==
    \A k \in DOMAIN results : \A h \in {1, 2} :
        results[k].data[h] \in {Zero, results[k].lba}

\* During the first round of the queue a set status bit proves the sector is
\* complete, although read_sector ignores whose completion it is: the bit of
\* entry k - 1 is set only when all k reads submitted so far are complete.
SeenMeansDone ==
    \A k \in DOMAIN results :
        k <= QueueSize /\ results[k].seen /\ results[k].lba \notin BadLbas =>
            results[k].data = <<results[k].lba, results[k].lba>>
=============================================================================
