-------------------------------- MODULE Bench --------------------------------
(***************************************************************************)
(* One point of the benchmark's sweep (bench.rs, measure): an engine with  *)
(* its own cache and store is opened, the hot keys are read once to warm   *)
(* it, the statistics are reset, and the measured reads follow, one after  *)
(* the other.  The counters are those of cache.rs and store/latency.rs.    *)
(***************************************************************************)
EXTENDS ByteCache

CONSTANTS
    Hot,      \* the hot keys, in the order they are read
    Touches,  \* key -> the ranges a get of it asks for, footers first
    Reads     \* HG_BENCH_READS

VARIABLES
    phase,     \* where measure is
    done,      \* reads of the phase that have started
    asks,      \* the ranges the current get still asks for
    footers,   \* MetadataCache: the paths whose footer was parsed
    stats,     \* CacheStats of the byte cache
    store      \* Stats of the LatencyStore

benchVars == <<phase, done, asks, footers, stats, store>>
vars == <<benchVars, cacheVars>>

ZeroStats == [hits |-> 0, misses |-> 0, bytes_fetched |-> 0, evictions |-> 0]

Init ==
    /\ phase = "warm"
    /\ done = 0
    /\ asks = << >>
    /\ footers = {}
    /\ stats = ZeroStats
    /\ store = [gets |-> 0]
    /\ CacheInit

ReadsOf == IF phase = "warm" THEN Len(Hot) ELSE Reads

\* engine.get of the next hot key: a footer already parsed is not asked for again.
StartRead ==
    /\ phase \in {"warm", "measure"}
    /\ asks = << >>
    /\ done < ReadsOf
    /\ done' = done + 1
    /\ asks' = SelectSeq(Touches[Hot[(done % Len(Hot)) + 1]],
                         LAMBDA b : ~(b.part = "footer" /\ b.path \in footers))
    /\ UNCHANGED <<phase, footers, stats, store, cacheVars>>

\* get_metadata remembers a footer once it is there.
Parsed(b) == IF b.part = "footer" THEN footers \cup {b.path} ELSE footers

\* fetch_range, a hit.
ReadHit ==
    /\ asks # << >>
    /\ CacheHit(Head(asks))
    /\ stats' = [stats EXCEPT !.hits = @ + 1]
    /\ asks' = Tail(asks)
    /\ footers' = Parsed(Head(asks))
    /\ UNCHANGED <<phase, done, store>>

\* LatencyStore::on_get: a get_range is charged one GET.
OnGet == [store EXCEPT !.gets = @ + 1]

\* fetch_range, a miss: the store is asked, and what it returns is cached.
ReadMiss ==
    /\ asks # << >>
    /\ Absent(Head(asks))
    /\ CacheInsert(Head(asks), Head(asks))
    /\ stats' = [stats EXCEPT !.misses = @ + 1, !.bytes_fetched = @ + Size(Head(asks)),
                              !.evictions = @ + Cardinality(DOMAIN entries \ DOMAIN entries')]
    /\ store' = OnGet
    /\ asks' = Tail(asks)
    /\ footers' = Parsed(Head(asks))
    /\ UNCHANGED <<phase, done>>

\* Engine::reset_stats, between the warm-up and the measured reads: the counters of
\* the cache start again, those of the store do not.
ResetStats ==
    /\ phase = "warm"
    /\ asks = << >>
    /\ done = ReadsOf
    /\ phase' = "measure"
    /\ done' = 0
    /\ stats' = ZeroStats
    /\ UNCHANGED <<asks, footers, store, cacheVars>>

\* The Point of the sweep is made from store_stats and cache_stats.
Report ==
    /\ phase = "measure"
    /\ asks = << >>
    /\ done = ReadsOf
    /\ phase' = "report"
    /\ UNCHANGED <<done, asks, footers, stats, store, cacheVars>>

Next == StartRead \/ ReadHit \/ ReadMiss \/ ResetStats \/ Report

Spec == Init /\ [][Next]_vars

------------------------------------------------------------------------------

\* RESULTS.md divides GET/read by 1 - hit% for the requests of a read, "valid because
\* one range request is either a hit or exactly one store GET": the store GETs of a
\* point are the cache misses of the same reads.
GetsAreMisses == phase = "report" => store.gets = stats.misses

==============================================================================
