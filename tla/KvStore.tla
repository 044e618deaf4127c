------------------------------- MODULE KvStore -------------------------------
(***************************************************************************)
(* What the engine promises its callers: a durable map from keys to the    *)
(* newest write, in which an acknowledged write stays until a newer one    *)
(* replaces it.  There are no memtables, files, flushes, crashes or        *)
(* restarts here: an implementation must make all of them invisible.       *)
(***************************************************************************)
EXTENDS Naturals

CONSTANTS Keys, Values, Tombstone, MaxLsn

VARIABLES
    kv,      \* kv[k]: the version and value of k's newest durable write
    promise  \* promise[k]: the newest version of k a caller was told is safe

Blank == [ver |-> 0, val |-> Tombstone]

Init ==
    /\ kv = [k \in Keys |-> Blank]
    /\ promise = [k \in Keys |-> 0]

\* Puts and deletes take effect: only a newer version replaces an older one.  Those
\* whose callers gave up on them may take effect together, when a crash settles
\* which of them reached the disk.
Apply ==
    /\ kv' \in [Keys -> [ver : 0 .. MaxLsn, val : Values \cup {Tombstone}]]
    /\ \A k \in Keys : kv'[k] = kv[k] \/ kv'[k].ver > kv[k].ver
    /\ UNCHANGED promise

\* A put or a delete returns Ok: its version is in the map, or superseded.
Acknowledge(k, n) ==
    /\ n <= kv[k].ver
    /\ promise' = [promise EXCEPT ![k] = IF n > promise[k] THEN n ELSE promise[k]]
    /\ UNCHANGED kv

Next == Apply \/ \E k \in Keys, n \in 1 .. MaxLsn : Acknowledge(k, n)

Spec == Init /\ [][Next]_<<kv, promise>>

==============================================================================
