------------------------------ MODULE Storage ------------------------------
(***************************************************************************)
(* How _start gets the page the web server serves (main.rs, fat32.rs): the *)
(* boot sector gives the place of the root directory, its first sector the *)
(* place of PAYLOAD.TXT, and the first sector of that file the text.  Each *)
(* of the three reads may come back empty or half filled, and what it      *)
(* holds then decides where the next one goes.                             *)
(*                                                                         *)
(* A sector's content is the number of its block (Nvme), so what the       *)
(* volume holds is said by naming the blocks of the root directory and of  *)
(* the file, which a volume record does apart from the fields fat32.rs     *)
(* computes them from.                                                     *)
(***************************************************************************)
EXTENDS Nvme

CONSTANTS U32, U16,      \* the ranges of the two integer types
          Volumes        \* the volumes that may be on the drive

\* The fields of the boot sector, then the truth about the volume: the half of the
\* root directory's sector that holds the file's entry (0: none of its 16 entries),
\* the entry's cluster, the blocks of directory and file, how many halves of its
\* sector the file's first line takes, and whether it is UTF-8.
VolumeRecords ==
    [reserved_sector_count : 0 .. U32 - 1, num_fats : 0 .. U32 - 1,
     fat_size_32 : 0 .. U32 - 1, sectors_per_cluster : 0 .. U32 - 1,
     root_cluster : 0 .. U32 - 1,
     half : 0 .. 2, cluster : 0 .. U32 - 1, rootAt : Nat, fileAt : Nat,
     line : 1 .. 2, utf8 : BOOLEAN]

\* FAT32: the clusters, numbered from 2, follow the reserved sectors and the FATs.
LaidOut(v) ==
    LET start == v.reserved_sector_count + v.num_fats * v.fat_size_32
        Begins(c, l) == c >= 2 => l = start + (c - 2) * v.sectors_per_cluster
    IN  /\ v.rootAt >= start /\ Begins(v.root_cluster, v.rootAt)
        /\ v.half # 0 => Begins(v.cluster, v.fileAt)

ASSUME StorageAssumption == /\ U16 \in Nat \ {0} /\ U32 = U16 * U16
                            /\ Volumes \subseteq VolumeRecords
                            /\ \A v \in Volumes : LaidOut(v)

VARIABLES disk,          \* the volume on the drive
          boot,          \* how far _start has come
          HTTP_PAYLOAD   \* what is served: a kind of message and the halves of its text

storageVars == <<nvmeVars, disk, boot, HTTP_PAYLOAD>>

StorageInit ==
    /\ NvmeInit
    /\ disk \in Volumes
    /\ boot = "drive"
    /\ HTTP_PAYLOAD = [kind |-> "none", text |-> <<>>]

-----------------------------------------------------------------------------
(* fat32.rs.                                                                *)

\* Mutant: the second copy of the FAT is forgotten.
first_data_sector_OneFat(b) == b.reserved_sector_count + b.fat_size_32

\* Fat32Volume::new.
first_data_sector(b) == b.reserved_sector_count + b.num_fats * b.fat_size_32

\* Mutant: the test for the reserved clusters is dropped, and cluster - 2 overflows.
cluster_to_lba_NoReserved(b, c) ==
    IF c < 2 THEN U32 ELSE first_data_sector(b) + (c - 2) * b.sectors_per_cluster

\* cluster_to_lba.
cluster_to_lba(b, c) ==
    IF c < 2 THEN 0 ELSE first_data_sector(b) + (c - 2) * b.sectors_per_cluster

\* The debug build panics where a u32 sum or product overflows; all terms are
\* positive, so one of them does when the whole leaves the range.
Overflows(b, c) == first_data_sector(b) >= U32 \/ cluster_to_lba(b, c) >= U32

-----------------------------------------------------------------------------
(* _start.                                                                  *)

Sector(k) == results[k].data

\* The boot sector as read: its fields lie in the first half, which may be blank.
bpb == IF Sector(1)[1] = 0 THEN disk
       ELSE [disk EXCEPT !.reserved_sector_count = 0, !.num_fats = 0, !.fat_size_32 = 0,
                         !.sectors_per_cluster = 0, !.root_cluster = 0]

\* Mutant: the upper half of the cluster number is dropped.
EntryCluster_LowOnly(hi, lo) == lo

\* fst_clus_hi and fst_clus_lo put together.
EntryCluster(hi, lo) == hi * U16 + lo

\* The search through the 16 entries of the sector that was read.
payload_cluster ==
    IF disk.half # 0 /\ Sector(2)[disk.half] = disk.rootAt
    THEN EntryCluster(disk.cluster \div U16, disk.cluster % U16) ELSE 0

\* The text ends at the first newline or zero byte.
Text(s) == IF s[1] = Zero THEN <<>>
           ELSE IF disk.line = 1 \/ s[2] = Zero THEN <<s[1]>> ELSE s

At(b) == boot = b /\ pc = "idle"

\* No NVMe controller on the bus: nothing is read, and NVME_DRIVE stays None.
NoDrive ==
    /\ ~present /\ Goto("init", "none")
    /\ boot' = "audio"
    /\ UNCHANGED <<mapped, readVars, adminVars, queueVars, ioDevVars, disk, HTTP_PAYLOAD>>

ReadBoot ==
    /\ At("drive") /\ boot' = "bpb"
    /\ ReadClear(0)
    /\ UNCHANGED <<disk, HTTP_PAYLOAD>>

\* The arithmetic of fat32.rs leaves the range of u32.
OverflowPanic(b, c) ==
    /\ At(b) /\ Overflows(bpb, c)
    /\ pc' = "panic"
    /\ UNCHANGED <<mapped, readVars, adminVars, queueVars, ioDevVars, disk, boot, HTTP_PAYLOAD>>

\* Keep the message and the drive, and go on with the boot.
Serve(kind, text) ==
    /\ HTTP_PAYLOAD' = [kind |-> kind, text |-> text]
    /\ boot' = "audio"
    /\ UNCHANGED <<nvmeVars, disk>>

root_lba == cluster_to_lba(bpb, bpb.root_cluster)

ReadRoot ==
    /\ At("bpb") /\ ~Overflows(bpb, bpb.root_cluster) /\ root_lba > 0
    /\ boot' = "root"
    /\ ReadClear(root_lba)
    /\ UNCHANGED <<disk, HTTP_PAYLOAD>>

InvalidRoot ==
    /\ At("bpb") /\ ~Overflows(bpb, bpb.root_cluster) /\ root_lba = 0
    /\ Serve("invalid root", <<>>)

ReadPayload ==
    /\ At("root") /\ payload_cluster >= 2 /\ ~Overflows(bpb, payload_cluster)
    /\ boot' = "payload"
    /\ ReadClear(cluster_to_lba(bpb, payload_cluster))
    /\ UNCHANGED <<disk, HTTP_PAYLOAD>>

NotFound == At("root") /\ payload_cluster < 2 /\ Serve("not found", <<>>)

\* "FILE CONTENT", unless the text is not UTF-8: then the message stays empty.
Extract ==
    /\ At("payload")
    /\ LET text == Text(Sector(3))
       IN  IF disk.utf8 \/ text = <<>> THEN Serve("file", text) ELSE Serve("none", <<>>)

\* System call 4 of the ring-3 task, once the kernel has booted.
SysRead ==
    /\ At("loop") /\ boot' = "task"
    /\ ReadClear(0)
    /\ UNCHANGED <<disk, HTTP_PAYLOAD>>

bootStep ==
    \/ NoDrive \/ ReadBoot \/ ReadRoot \/ InvalidRoot \/ ReadPayload \/ NotFound \/ Extract
    \/ OverflowPanic("bpb", bpb.root_cluster)
    \/ At("root") /\ payload_cluster >= 2 /\ OverflowPanic("root", payload_cluster)

\* The kernel's thread, in the driver or above it.
StorageStep == bootStep \/ (nvmeStep /\ UNCHANGED <<disk, boot, HTTP_PAYLOAD>>)

-----------------------------------------------------------------------------
(* Properties.                                                              *)

FirstLine == [h \in 1 .. disk.line |-> disk.fileAt]
IsFile(text) == text \in {<<>>, <<disk.fileAt>>, FirstLine}

\* Whatever the three reads brought, the page is an error, or the file's own first
\* line cut at a half that did not arrive: never bytes of another block.
PayloadHonest == HTTP_PAYLOAD.kind = "file" => IsFile(HTTP_PAYLOAD.text)

Whole(k) == k \in DOMAIN results /\ Sector(k) = <<results[k].lba, results[k].lba>>

\* If the sectors arrived whole, the page is what the volume holds: the file's
\* whole first line, or "not found" only when no entry of the first sector names it.
PayloadFound ==
    boot = "audio" /\ Whole(1) /\ Whole(2) =>
        /\ HTTP_PAYLOAD.kind = "not found" <=> disk.half = 0 \/ disk.cluster < 2
        /\ Whole(3) /\ disk.utf8 => HTTP_PAYLOAD.text = FirstLine
=============================================================================
