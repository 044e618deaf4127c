------------------------------ MODULE LruCache -------------------------------
(***************************************************************************)
(* What a bytes-bounded LRU promises, without ticks, maps or counters: the *)
(* resident ranges in order of last use, and on an admission as many of    *)
(* the most recently used as leave room.                                   *)
(***************************************************************************)
EXTENDS Naturals, FiniteSetsExt

CONSTANTS Ranges, Size(_), Capacity

VARIABLES
    cached,  \* the resident ranges
    before   \* the pairs of them of which the first was last used before the second

lruVars == <<cached, before>>

Weight(S) == MapThenSumSet(Size, S)

\* With a range, S has those used after it.
Recent(S, others) == \A p \in before : p[1] \in S /\ p[2] \in others => p[2] \in S

\* Of others, the most that leave room for n bytes: of two sets of the most recent one
\* contains the other.
Keep(others, n) == UNION {S \in SUBSET others : Recent(S, others) /\ Weight(S) + n <= Capacity}

\* k is resident, the others are S in their old order, and k is used after them.
UsedLast(S, k) ==
    /\ k \in cached'
    /\ cached' \ {k} = S
    /\ before' = (before \cap (S \X S)) \cup (S \X {k})

Init == cached = {} /\ before = {}

Use(k) == k \in cached /\ UsedLast(cached \ {k}, k)

Admit(k) == Size(k) <= Capacity /\ UsedLast(Keep(cached \ {k}, Size(k)), k)

Next == \E k \in Ranges : Use(k) \/ Admit(k)

Spec == Init /\ [][Next]_lruVars

==============================================================================
