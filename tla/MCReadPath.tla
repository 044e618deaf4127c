----------------------------- MODULE MCReadPath ------------------------------
EXTENDS ReadPathInvariant

CONSTANT v1

Row(k, n, v) == [key |-> k, lsn |-> n, val |-> v]

\* All keys; later both ends without the middle, the low one deleted.
MCBatches == {{Row(1, 1, v1), Row(2, 2, v1), Row(3, 3, v1)}, {Row(1, 4, Tombstone), Row(3, 5, v1)}}

\* Row groups of two rows, the last of a file may be one, without blooms and with.
MCConfigs == [row_group_size : {2}, catalog_blooms : BOOLEAN]

MCCacheKeys ==
    [path : 1 .. MaxFiles, part : {"footer"}, group : {0}, len : {1}]
    \cup [path : 1 .. MaxFiles, part : {"pk"}, group : 1 .. 3, len : {1}]
    \cup [path : 1 .. MaxFiles, part : {"value"}, group : 1 .. 3, len : {2, 4, 6}]

\* Key 2 has the mask of key 1; in a filter of two blocks it is in the block of 3, and
\* a bloom of both ends denies it.
MCHash == 1 :> [hi |-> 3, lo |-> 5] @@ 2 :> [hi |-> 9, lo |-> 5] @@ 3 :> [hi |-> 12, lo |-> 2]
MCSalt == 0 :> 7 @@ 1 :> 11

Symmetry == Permutations(Readers)
==============================================================================
