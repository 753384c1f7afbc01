-------------------------------- MODULE MCBoot --------------------------------
(* The volumes a drive may hold, with block numbers below 64 (8 * 8).         *)
EXTENDS Boot

\* Two reserved sectors, two FATs of three, clusters of two sectors: cluster c
\* begins at block 8 + 2 (c - 2).  The directory is cluster 2, block 8.
Volume(half, cluster, fileAt, utf8) ==
    [reserved_sector_count |-> 2, num_fats |-> 2, fat_size_32 |-> 3,
     sectors_per_cluster |-> 2, root_cluster |-> 2,
     half |-> half, cluster |-> cluster, rootAt |-> 8, fileAt |-> fileAt,
     line |-> 2, utf8 |-> utf8]

\* The file in the second entry block and past the range of a 16-bit number; in the
\* first, in a block the drive cannot read; absent; with a short first line; not text;
\* with a cluster beyond the last block; and a volume whose FATs are too long.
MCVolumes ==
    { Volume(2, 11, 26, TRUE), Volume(1, 3, 10, TRUE), Volume(0, 3, 10, TRUE),
      [Volume(1, 5, 14, TRUE) EXCEPT !.line = 1], Volume(1, 4, 12, FALSE),
      Volume(1, 60, 124, TRUE),
      [Volume(1, 4, 76, TRUE) EXCEPT !.fat_size_32 = 35, !.rootAt = 72] }
=============================================================================
