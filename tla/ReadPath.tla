------------------------------ MODULE ReadPath -------------------------------
(***************************************************************************)
(* read.rs over index.rs, bloom.rs and cache.rs: point reads walk the file *)
(* index newest first.  A file is dismissed by its pk bounds or its        *)
(* catalog bloom, a row group by its statistics; the footer and the column *)
(* chunks that remain come through the metadata cache and the byte cache,  *)
(* or from the object store, awaited while other reads use the same caches *)
(* and flushes publish files and replace the index.                        *)
(*                                                                         *)
(* Keys are numbers, ordered as the byte strings are.  A file is named by  *)
(* its path, here its place in commit order; it never changes.             *)
(***************************************************************************)
EXTENDS FileIndex, ByteCache, Bloom

CONSTANTS
    Readers,        \* concurrent gets
    Batches,        \* the rows of the memtables that flushes publish
    Configs,        \* DuckDbConfig: row_group_size and catalog_blooms
    MaxFiles,       \* bound on the files a run publishes
    MaxGets,        \* bound on the gets of a run
    ReadFaults      \* what may go wrong: see the ASSUME

ASSUME ReadAssumption ==
    /\ Keys \subseteq Nat
    /\ Hashed = Keys
    /\ WordsPerBlock > 1
    /\ \A rows \in Batches : /\ rows \subseteq Record /\ rows # {} /\ IsFiniteSet(rows)
                            /\ \A r, s \in rows : r.key = s.key => r = s
    /\ \A c \in Configs : c.row_group_size \in Nat \ {0} /\ c.catalog_blooms \in BOOLEAN
    /\ MaxFiles \in Nat
    /\ MaxGets \in Nat
    /\ ReadFaults \subseteq
          {"io_error",          \* the object store fails, or a get is dropped
           "bad_bloom",         \* a bloom that does not parse
           "no_stats",          \* row groups without pk statistics
           "no_catalog_stats"}  \* a live file without a pk row in the catalog

\* The n bytes of a part of the file p, in its row group g, as a range and as a key.
ByteRange(p, part, g, n) == [path |-> p, part |-> part, group |-> g, len |-> n]

\* The ranges of every file a run may publish.  Values take two units a row.
ASSUME RangeAssumption ==
    \A p \in 1 .. MaxFiles, rows \in Batches :
        /\ ByteRange(p, "footer", 0, 1) \in CacheKeys
        /\ \A g \in 1 .. Cardinality(rows) : ByteRange(p, "pk", g, 1) \in CacheKeys
        /\ \A g, n \in 1 .. Cardinality(rows) : ByteRange(p, "value", g, 2 * n) \in CacheKeys

VARIABLES
    table,     \* the table's options, as a set of at most one: {} before bootstrap
    files,     \* the live data files and their catalog rows, in commit order
    up,        \* whether an engine is open
    flushes,   \* the engine's flushes from commit to publish_index: path -> its list, if loaded
    index,     \* Engine::index: FileIndex::entries, as paths
    metadata,  \* MetadataCache: path -> the footer parsed for it
    walk,      \* the get of each reader
    gets       \* the number of gets so far

vars == <<table, files, up, flushes, index, metadata, walk, gets, cacheVars>>

KeysOf(rows) == {r.key : r \in rows}

\* No get, and the get for k that took the list s and is to visit its places c.
NoWalk ==
    [at |-> "idle", key |-> {}, snapshot |-> << >>, todo |-> {},
     ask |-> << >>, waiting |-> {}, have |-> {}, got |-> {}]
NewWalk(k, s, c) == [NoWalk EXCEPT !.at = "walk", !.key = {k}, !.snapshot = s, !.todo = c]

Walk ==
    [at : {"idle", "walk", "footer", "scan", "done", "failed"}, key : SUBSET Keys,
     snapshot : Seq(1 .. MaxFiles), todo : SUBSET Nat, ask : Seq(CacheKeys),
     waiting : SUBSET CacheKeys, have : SUBSET CacheKeys, got : SUBSET Record]

TypeOK ==
    /\ table \subseteq [rg : {c.row_group_size : c \in Configs}, blooms : BOOLEAN]
    /\ files \in Seq(Range(files)) /\ Len(files) <= MaxFiles
    /\ \A i \in DOMAIN files : files[i].rows \subseteq Record /\ files[i].rows # {}
    /\ up \in BOOLEAN
    /\ flushes \in [DOMAIN flushes -> SUBSET Seq(DOMAIN files)] /\ DOMAIN flushes \subseteq DOMAIN files
    /\ index \in Seq(DOMAIN files)
    /\ metadata \in [DOMAIN metadata -> DOMAIN files] /\ DOMAIN metadata \subseteq DOMAIN files
    /\ walk \in [Readers -> Walk]
    /\ gets \in 0 .. MaxGets
    /\ CacheTypeOK

Init ==
    /\ table = {}
    /\ files = << >>
    /\ up = FALSE
    /\ flushes = << >>
    /\ index = << >>
    /\ metadata = << >>
    /\ walk = [r \in Readers |-> NoWalk]
    /\ gets = 0
    /\ CacheInit

------------------------------------------------------------------------------
(* The catalog.                                                             *)

\* bootstrap: the table is created if it is absent, the row group size is set, and
\* blooms are opted into; nothing opts out again.  Left out once no file can follow.
Bootstrap(duckdb) ==
    /\ Len(files) < MaxFiles
    /\ table' = {[rg |-> duckdb.row_group_size,
                  blooms |-> duckdb.catalog_blooms \/ \E t \in table : t.blooms]}
    /\ UNCHANGED <<files, up, flushes, index, metadata, walk, gets, cacheVars>>

\* The row groups of a file: its rows in pk order, n at a time.
RowGroups(rows, n) ==
    LET rank(r) == Cardinality({s \in rows : s.key < r.key})
    IN  [g \in 1 .. (Cardinality(rows) + n - 1) \div n |-> {r \in rows : rank(r) \div n + 1 = g}]

\* The data file DuckDB writes for rows under the table's options, and its catalog
\* rows: pk and lsn statistics, and the bloom, len words of it.
DataFile(rows, o, len, stats, listed) ==
    [rows |-> rows, groups |-> RowGroups(rows, o.rg), stats |-> stats, listed |-> listed,
     watermark |-> MaxLsnOf(rows),
     pk_min |-> Min(KeysOf(rows)), pk_max |-> Max(KeysOf(rows)),
     bloom |-> IF o.blooms THEN FromBase64(Built(Cardinality(rows), KeysOf(rows)), len) ELSE {}]

\* DuckDB commits the rows of one flush, with as many blocks of bloom as keys.  Flushes
\* overlap, and children outlive their engine: commits come in any order of their LSNs,
\* and a memtable may be published twice.
Commit(rows, stats, listed, parses) ==
    LET len == Cardinality(rows) * WordsPerBlock
    IN  /\ Len(files) < MaxFiles
        /\ stats \/ "no_stats" \in ReadFaults
        /\ listed \/ "no_catalog_stats" \in ReadFaults
        /\ parses \/ "bad_bloom" \in ReadFaults
        /\ \E o \in table :
              files' = Append(files, DataFile(rows, o, IF parses THEN len ELSE len - 1, stats, listed))
        /\ flushes' = IF up THEN With(flushes, Len(files) + 1, {}) ELSE flushes
        /\ UNCHANGED <<table, up, index, metadata, walk, gets, cacheVars>>

\* The paths s by watermark, newest first; files of equal watermark are in any order.
ByWatermark(s) ==
    \A i, j \in DOMAIN s : i < j => files[s[i]].watermark >= files[s[j]].watermark

\* Mutation of Loads: the entries are sorted by commit, the newest first.
LoadsByCommit ==
    {s \in SetToSeqs({p \in DOMAIN files : files[p].listed}) :
        \A i, j \in DOMAIN s : i < j => s[i] > s[j]}

\* What FileIndex::load may return: every live file that the inner joins keep, in the
\* order sort_by leaves.
Loads == {s \in SetToSeqs({p \in DOMAIN files : files[p].listed}) : ByWatermark(s)}

\* DuckLake::connect and the rest of Engine::open: the table must exist, and the
\* caches are empty.
Open ==
    /\ ~up
    /\ table # {}
    /\ up' = TRUE
    /\ index' \in Loads
    /\ UNCHANGED <<table, files, flushes, metadata, walk, gets, cacheVars>>

\* publish_index in the flush that committed p: the query, and later the store, while
\* other flushes do the same.
LoadIndex(p) ==
    /\ p \in DOMAIN flushes
    /\ flushes[p] = {}
    /\ \E s \in Loads : flushes' = [flushes EXCEPT ![p] = {s}]
    /\ UNCHANGED <<table, files, up, index, metadata, walk, gets, cacheVars>>

StoreIndex(p) ==
    /\ p \in DOMAIN flushes
    /\ index' \in flushes[p]
    /\ flushes' = Without(flushes, {p})
    /\ UNCHANGED <<table, files, up, metadata, walk, gets, cacheVars>>

------------------------------------------------------------------------------
(* What is in a file.                                                       *)

\* The ranges of a file that a read asks for: the footer, and the chunks of a row
\* group; op goes with the values.
FooterRange(p)   == ByteRange(p, "footer", 0, 1)
PkRange(p, g)    == ByteRange(p, "pk", g, 1)
ValueRange(p, g) == ByteRange(p, "value", g, 2 * Cardinality(files[p].groups[g]))

\* The rows of which a chunk read from the range b has a column.
RowsIn(b) == files[b.path].groups[b.group]

------------------------------------------------------------------------------
(* ColumnarReader::get.                                                     *)

MayContain(f, k) == f.pk_min <= k /\ k <= f.pk_max

BloomMayContain(f, k) == \A b \in f.bloom : MightContain(b, k)

\* The places of the list s whose file neither its bounds nor its bloom dismiss.
Candidates(s, k) ==
    {i \in DOMAIN s : MayContain(files[s[i]], k) /\ BloomMayContain(files[s[i]], k)}

\* The file that the walk w is at, the first of those to visit, and the others.
Current(w) == w.snapshot[Min(w.todo)]
Rest(w) == w.todo \ {Min(w.todo)}

\* Mutation of RowGroupMayContain: the upper bound is taken as exclusive.
RowGroupExclusive(rg, stats, k) == ~stats \/ (Min(KeysOf(rg)) <= k /\ k < Max(KeysOf(rg)))

RowGroupMayContain(rg, stats, k) == ~stats \/ (Min(KeysOf(rg)) <= k /\ k <= Max(KeysOf(rg)))

\* get_from_file with the footer of p at hand: the walk w asks for the chunks of the
\* first row group whose bounds admit the key, or leaves the file.
ReadRowGroup(w, p) ==
    LET groups == files[p].groups
        admit  == {g \in DOMAIN groups :
                     \E k \in w.key : RowGroupMayContain(groups[g], files[p].stats, k)}
        path   == Current(w)
        g      == Min(admit)
    IN  IF admit = {} THEN [w EXCEPT !.at = "walk", !.todo = Rest(w), !.have = {}]
        ELSE [w EXCEPT !.at = "scan", !.have = {},
                       !.ask = <<[PkRange(p, g) EXCEPT !.path = path],
                                 [ValueRange(p, g) EXCEPT !.path = path]>>]

Step(r, w) == walk' = [walk EXCEPT ![r] = w]

\* A get snapshots the index.
StartGet(r, k) ==
    /\ up
    /\ walk[r].at = "idle"
    /\ gets < MaxGets
    /\ gets' = gets + 1
    /\ Step(r, NewWalk(k, index, Candidates(index, k)))
    /\ UNCHANGED <<table, files, up, flushes, index, metadata, cacheVars>>

\* CachedReader::get_metadata for the next file: from the metadata cache, or by
\* asking for the footer.
OpenFile(r) ==
    /\ walk[r].at = "walk"
    /\ walk[r].todo # {}
    /\ LET p == Current(walk[r])
       IN  Step(r, IF p \in DOMAIN metadata THEN ReadRowGroup(walk[r], metadata[p])
                   ELSE [walk[r] EXCEPT !.at = "footer", !.ask = <<FooterRange(p)>>])
    /\ UNCHANGED <<table, files, up, flushes, index, metadata, gets, cacheVars>>

\* Mutation of CacheKey: the path is not part of the key.
CacheKeyWithoutPath(b) == [path |-> 1, part |-> b.part, group |-> b.group, len |-> b.len]

\* Mutation of CacheKey: the key is the footer's, whatever is asked for.
CacheKeyOfFile(b) == [path |-> b.path, part |-> "footer", group |-> 0, len |-> b.len]

\* RangeFetcher::fetch_range, the key of a range.
CacheKey(b) == ByteRange(b.path, b.part, b.group, b.len)

\* fetch_range: the next range is in the byte cache.
FetchHit(r) ==
    /\ walk[r].ask # << >>
    /\ LET key == CacheKey(Head(walk[r].ask))
       IN  /\ CacheHit(key)
           /\ Step(r, [walk[r] EXCEPT !.ask = Tail(@), !.have = @ \cup {entries[key].bytes}])
    /\ UNCHANGED <<table, files, up, flushes, index, metadata, gets>>

\* fetch_range: it is not, and the store is asked.
FetchMiss(r) ==
    /\ walk[r].ask # << >>
    /\ Absent(CacheKey(Head(walk[r].ask)))
    /\ Step(r, [walk[r] EXCEPT !.ask = Tail(@), !.waiting = @ \cup {Head(walk[r].ask)}])
    /\ UNCHANGED <<table, files, up, flushes, index, metadata, gets, cacheVars>>

\* The store answers one of the requests of a read: the bytes are cached and kept.
Fetched(r) ==
    /\ \E b \in walk[r].waiting :
          /\ CacheInsert(CacheKey(b), b)
          /\ Step(r, [walk[r] EXCEPT !.waiting = @ \ {b}, !.have = @ \cup {b}])
    /\ UNCHANGED <<table, files, up, flushes, index, metadata, gets>>

\* A request fails: try_join_all drops its siblings, and get returns the error, never
\* an older answer.
FetchFail(r) ==
    /\ "io_error" \in ReadFaults
    /\ walk[r].waiting # {}
    /\ Step(r, [walk[r] EXCEPT !.at = "failed", !.ask = << >>, !.waiting = {}, !.have = {}])
    /\ UNCHANGED <<table, files, up, flushes, index, metadata, gets, cacheVars>>

\* All that the read asked for is there.
Delivered(r) == walk[r].ask = << >> /\ walk[r].waiting = {}

\* load_and_finish returns: the footer is remembered under the path, replacing one
\* another read may have put there.
FooterRead(r) ==
    /\ walk[r].at = "footer"
    /\ Delivered(r)
    /\ \E b \in walk[r].have :
          /\ metadata' = With(metadata, Current(walk[r]), b.path)
          /\ Step(r, ReadRowGroup(walk[r], b.path))
    /\ UNCHANGED <<table, files, up, flushes, index, gets, cacheVars>>

\* scan_row_group: the row with the key, if all its columns have it.  A miss was a
\* false positive, and the walk goes on.
ScanRowGroup(r) ==
    /\ walk[r].at = "scan"
    /\ Delivered(r)
    /\ LET w   == walk[r]
           hit == UNION {Of(RowsIn(b), k) : b \in w.have, k \in w.key}
           all == {row \in hit : \A b \in w.have : row \in RowsIn(b)}
       IN  Step(r, [w EXCEPT !.have = {}, !.got = all, !.todo = Rest(w),
                             !.at = IF all = {} THEN "walk" ELSE "done"])
    /\ UNCHANGED <<table, files, up, flushes, index, metadata, gets, cacheVars>>

\* Every candidate was visited: Lookup::Missing.
Exhaust(r) ==
    /\ walk[r].at = "walk"
    /\ walk[r].todo = {}
    /\ Step(r, [walk[r] EXCEPT !.at = "done"])
    /\ UNCHANGED <<table, files, up, flushes, index, metadata, gets, cacheVars>>

GetReturn(r) ==
    /\ walk[r].at \in {"done", "failed"}
    /\ Step(r, NoWalk)
    /\ UNCHANGED <<table, files, up, flushes, index, metadata, gets, cacheVars>>

Next ==
    \/ \E c \in Configs : Bootstrap(c)
    \/ \E rows \in Batches, stats, listed, parses \in BOOLEAN : Commit(rows, stats, listed, parses)
    \/ Open
    \/ \E p \in DOMAIN files : LoadIndex(p) \/ StoreIndex(p)
    \/ \E r \in Readers :
          \/ \E k \in Keys : StartGet(r, k)
          \/ OpenFile(r)
          \/ FetchHit(r)
          \/ FetchMiss(r)
          \/ Fetched(r)
          \/ FetchFail(r)
          \/ FooterRead(r)
          \/ ScanRowGroup(r)
          \/ Exhaust(r)
          \/ GetReturn(r)

Spec == Init /\ [][Next]_vars

------------------------------------------------------------------------------
(* Properties.                                                              *)

\* One of the answers, or none when there is none.
OneOf(got, answers) == IF answers = {} THEN got = {} ELSE \E a \in answers : got = {a}

\* Pruning and caching lose nothing: what a finished get returns is what reading
\* every file of its snapshot in full would return, tombstones included, whatever
\* the bloom's false positives, wherever the row groups are cut, and whatever other
\* reads left in the two caches.
PruningIsExact ==
    \A r \in Readers : walk[r].at = "done" =>
        \A k \in walk[r].key :
            OneOf(walk[r].got,
                  ColumnarGet([i \in DOMAIN walk[r].snapshot |-> files[walk[r].snapshot[i]]], k))

\* The order of the watermarks is that of the LSNs of k: what FileEntry::watermark's
\* "total order across files" has to mean for the first hit to be the newest.
InFileOrder(k) ==
    \A f, g \in Range(files) : f.watermark <= g.watermark =>
        \A r \in Of(f.rows, k), s \in Of(g.rows, k) : r.lsn <= s.lsn

\* Commit order does not matter: where watermarks order the rows of the key, a get is at
\* least as new as every row of it committed before the newest commit that its index
\* names, though flushes commit out of order, load and store the index in turns, and
\* publish a memtable twice.
AnswerIsNewest ==
    \A r \in Readers : walk[r].at = "done" =>
        \A k \in walk[r].key : InFileOrder(k) =>
            \A p \in DOMAIN files : (\E q \in Range(walk[r].snapshot) : p <= q) =>
                \A row \in Of(files[p].rows, k) : \E a \in walk[r].got : a.lsn >= row.lsn

==============================================================================
