------------------------------ MODULE MCBench --------------------------------
EXTENDS Bench

MCCacheKeys ==
    [path : {1}, part : {"footer", "pk"}, group : 0 .. 2, len : {1}]
    \cup [path : {1}, part : {"value"}, group : 1 .. 2, len : {2}]

\* Two keys, in two row groups of one file.
MCHot == <<1, 2>>
MCTouches ==
    [g \in {1, 2} |-> <<[path |-> 1, part |-> "footer", group |-> 0, len |-> 1],
                        [path |-> 1, part |-> "pk", group |-> g, len |-> 1],
                        [path |-> 1, part |-> "value", group |-> g, len |-> 2]>>]
==============================================================================
