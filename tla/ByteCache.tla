------------------------------ MODULE ByteCache ------------------------------
(***************************************************************************)
(* cache.rs: the bytes-bounded LRU behind the Parquet reader, as the state *)
(* and the two operations its callers use, each under the cache's lock.    *)
(*                                                                         *)
(* A key is (path, start, end), here the path, which part of the file it   *)
(* is, and its length.  Cached bytes are named by the range of the object  *)
(* store they were read from: files are immutable, so a range is bytes.    *)
(***************************************************************************)
EXTENDS Naturals, SequencesExt

CONSTANTS
    CacheKeys,    \* the keys, records with a field len
    MaxBytes,     \* the cache's max_bytes
    MaxTick       \* bound on the recency tick

ASSUME CacheAssumption ==
    /\ MaxBytes \in Nat /\ MaxTick \in Nat
    /\ \A k \in CacheKeys : k.len \in Nat

VARIABLES
    entries,     \* Inner::entries: key -> the bytes and their tick
    by_recency,  \* Inner::by_recency: tick -> key
    resident,    \* Inner::resident
    tick         \* Inner::tick

cacheVars == <<entries, by_recency, resident, tick>>

CacheTypeOK ==
    /\ DOMAIN entries \subseteq CacheKeys
    /\ entries \in [DOMAIN entries -> [bytes : CacheKeys, tick : 1 .. MaxTick]]
    /\ DOMAIN by_recency \subseteq 1 .. tick
    /\ by_recency \in [DOMAIN by_recency -> CacheKeys]
    /\ resident \in Nat
    /\ tick \in 0 .. MaxTick

CacheInit ==
    /\ entries = << >>
    /\ by_recency = << >>
    /\ resident = 0
    /\ tick = 0

------------------------------------------------------------------------------

\* HashMap/BTreeMap remove and insert.
Without(m, S) == [x \in DOMAIN m \ S |-> m[x]]
With(m, x, y) == [z \in DOMAIN m \cup {x} |-> IF z = x THEN y ELSE m[z]]

\* a - b.min(a).
SaturatingSub(a, b) == IF b > a THEN 0 ELSE a - b

Size(k) == k.len

\* The bytes that the entries ents hold for the keys ks.
Held(ents, ks) == MapThenSumSet(LAMBDA k : Size(ents[k].bytes), ks)

\* inner.tick += 1, on a hit and on an insert.
NextTick == tick + 1

\* ByteCache::get finds nothing: the caller goes to the object store.
Absent(k) == k \notin DOMAIN entries

\* Mutation of CacheHit: the old tick is not removed.
CacheHitKeepsTick(k) ==
    /\ ~Absent(k)
    /\ tick < MaxTick
    /\ tick' = NextTick
    /\ by_recency' = With(by_recency, NextTick, k)
    /\ entries' = [entries EXCEPT ![k].tick = NextTick]
    /\ UNCHANGED resident

\* ByteCache::get, a hit: the key becomes the most recent.
CacheHit(k) ==
    /\ ~Absent(k)
    /\ tick < MaxTick
    /\ tick' = NextTick
    /\ by_recency' = With(Without(by_recency, {entries[k].tick}), NextTick, k)
    /\ entries' = [entries EXCEPT ![k].tick = NextTick]
    /\ UNCHANGED resident

\* Mutation of Released: a range inserted again is counted again.
ReleasedNothing(k, n) == resident

\* resident once an entry already there for the key is taken out.
Released(k, n) == IF Absent(k) THEN resident ELSE SaturatingSub(resident, n)

\* Mutation of Victims: the newest ticks go first.
VictimsNewest(ents, rec, res, n) ==
    LET newest(t) == {u \in DOMAIN rec : u >= t}
        room(T)   == SaturatingSub(res, Held(ents, {rec[u] : u \in T} \cap DOMAIN ents)) + n <= MaxBytes
        enough    == {T \in {newest(t) : t \in DOMAIN rec \cup {MaxTick + 1}} : room(T)}
    IN  IF enough = {} THEN DOMAIN rec
        ELSE CHOOSE T \in enough : \A U \in enough : T \subseteq U

\* The victims of an insert of n bytes: the fewest oldest ticks whose eviction
\* makes room.  A tick evicts the key it names, if that is still an entry.
Victims(ents, rec, res, n) ==
    LET oldest(t) == {u \in DOMAIN rec : u <= t}
        room(T)   == SaturatingSub(res, Held(ents, {rec[u] : u \in T} \cap DOMAIN ents)) + n <= MaxBytes
        enough    == {T \in {oldest(t) : t \in DOMAIN rec \cup {0}} : room(T)}
    IN  IF enough = {} THEN DOMAIN rec
        ELSE CHOOSE T \in enough : \A U \in enough : T \subseteq U

\* ByteCache::insert.  An entry for the key may be there already: another fetch of
\* the same range finished first.
CacheInsert(k, bytes) ==
    \/ /\ Size(bytes) > MaxBytes
       /\ UNCHANGED cacheVars
    \/ /\ Size(bytes) <= MaxBytes
       /\ tick < MaxTick
       /\ LET there == {k} \cap DOMAIN entries
              ents  == Without(entries, there)
              rec   == Without(by_recency, {entries[j].tick : j \in there})
              res   == Released(k, Size(bytes))
              out   == Victims(ents, rec, res, Size(bytes))
              gone  == {rec[t] : t \in out} \cap DOMAIN ents
          IN  /\ entries' = With(Without(ents, gone), k, [bytes |-> bytes, tick |-> NextTick])
              /\ by_recency' = With(Without(rec, out), NextTick, k)
              /\ resident' = SaturatingSub(res, Held(ents, gone)) + Size(bytes)
              /\ tick' = NextTick

------------------------------------------------------------------------------
(* Properties.                                                              *)

\* The byte accounting is exact: the saturating subtractions never hide a drift,
\* so resident is the size of what is cached and stays within max_bytes, however
\* many fetches of one range insert it.
ResidentIsExact == resident = Held(entries, DOMAIN entries) /\ resident <= MaxBytes

\* The two maps are inverse: no tick outlives its entry, and none is shared.
MapsAgree ==
    /\ \A k \in DOMAIN entries :
          entries[k].tick \in DOMAIN by_recency /\ by_recency[entries[k].tick] = k
    /\ \A t \in DOMAIN by_recency :
          by_recency[t] \in DOMAIN entries /\ entries[by_recency[t]].tick = t

\* The order of use: of two cached keys, the one with the smaller tick first.
ByRecency ==
    {p \in (DOMAIN entries) \X (DOMAIN entries) : entries[p[1]].tick < entries[p[2]].tick}

\* The cache is an LRU: the order of use decides what stays, an insert evicts no
\* more than it must, and re-inserting a range counts as a use.
LRU == INSTANCE LruCache WITH Ranges <- CacheKeys, Capacity <- MaxBytes,
                             cached <- DOMAIN entries, before <- ByRecency

ImplementsLru == LRU!Spec

==============================================================================
