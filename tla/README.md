# holy-grail: a TLA+ verification project

holy-grail is a key-value engine whose row tier (write-ahead log and memtables)
is disposable and whose columnar tier is a DuckLake table: Parquet files on
object storage, a catalog in Postgres. Writes go to the WAL, then to a memtable;
a flush hands a frozen memtable to a DuckDB child process that publishes it;
recovery rebuilds everything from `DuckLake + WAL`. This directory models the
engine's concurrency, crash and failure behaviour, model-checks it with TLC and
proves its safety properties with TLAPS.

## 1. Inventory

| Component | State | Operations | Module |
|---|---|---|---|
| `engine.rs` | `next_lsn`, the file index, the handles below | `open`, `put`, `delete`, `get`, `flush` | `Engine` |
| `memtable.rs` | active memtable, frozen list; per table: rows, byte estimate, `max_lsn` | `insert`, `get`, `should_freeze`, `freeze`, `retire` | `Memtable` |
| `wal.rs` | segment files; active segment, sealed list with `max_lsn` | `open` (replay, repair), `append`, `rotate`, `truncate_through` | `Wal`, `DurableLog` |
| `record.rs` | - | framing | `Records`; a frame is a record or `Torn` |
| `flush.rs` | staging directory, DuckDB children | `plan`, `stage`, `publish` | `Lake`, `Engine` |
| `catalog.rs` | the table and its options, live data files with statistics | `bootstrap`, `connect`, `published_watermark` | `Lake`, `ReadPath` |
| `index.rs` | list of live files, newest watermark first | `load`, `candidates`, `watermark` | `FileIndex`, `ReadPath` |
| `read.rs` | the reads in progress | `get`: walk the files, prune, scan | `ReadPath` |
| `bloom.rs` | parsed filters, one per file | `from_base64`, `might_contain` | `Bloom` |
| `cache.rs` | bytes-bounded LRU of byte ranges; map of parsed footers; counters | `get`, `insert`, `fetch_range`, `get_byte_ranges`, `get_metadata` | `ByteCache`, `LruCache`, `ReadPath` |
| `store/latency.rs` | request counters | `get_range` | `Bench` (counters), `ReadPath` (answers) |
| `bin/bench.rs` | the position in a sweep point | `measure` | `Bench` |
| `schema.rs`, `config.rs`, `error.rs` | - | - | not modelled |

How they interact. `put` takes an LSN with `fetch_add`, appends under the WAL
mutex (fsync), inserts under the memtable read lock, and, over the threshold,
runs the flush itself before returning. `flush` freezes under the write lock,
then awaits in turn: the catalog (watermark), the staging file, the DuckDB child,
the catalog again (index), the WAL (truncation); only then does it retire the
memtable. Nothing serialises flushes. `get` reads the row tier under the lock,
then clones the index and reads files with no lock at all: each file costs a
footer and the chunks of one row group, through two caches that all reads share.

What is hard: LSNs are taken before any lock, so every later stage sees them out
of order; any number of calls may be between any two awaits; the process may
die anywhere, and its DuckDB child need not die with it; every await can fail
half way through the protocol. A call is a future: its caller may drop it at any
await, and the blocking append or the child it started runs on.

What makes it correct, per component:

* engine: acknowledged writes survive crashes and stay visible at every step;
  LSNs are never reused; publish before truncate; a flush is published once.
* memtable: the highest LSN per key wins whatever the arrival order.
* WAL: an append that returned Ok is replayed until truncated; truncation and
  repair remove nothing else.
* read path: pruning changes no answer, and a read is as new as its index, where
  watermarks order the rows of its key.
* bloom: a filter never denies a key it was built over, and a probe stays inside it.
* caches: a range or a footer is only ever served for its own file; exact
  accounting within the limit, LRU order.
* benchmark: the numbers of one point are about the same reads.

The hazards, each with its line and the properties that watch it, are in
`PROJECT.json`.

## 2. Modules

```
Records - RecordProofs
 +- Memtable ---+
 +- FileIndex --+- Lake --+
 |                        +- Engine - EngineInvariant -+- EngineProofs
 +- DurableLog -----------+                            +- EngineSerial - EngineSerialProofs
 |                                                     |                  +- EngineFlushProofs
 |                                                     |                      +- EngineReadProofs
 |                                                     +- MCEngine
 +- Wal - WalInvariant -+- WalProofs
 |                      +- MCWal
 +- ReadPath - ReadPathInvariant -+- ReadPathProofs
    extends also ByteCache, Bloom +- MCReadPath
Bloom - BloomProofs
Bench - MCBench            extends ByteCache
```

`Engine` is shown to implement `KvStore`, `Wal` to implement `DurableLog`, and
`ByteCache` to implement `LruCache`, in the runs that say so below and by
theorems. `EngineInvariant`, `EngineSerial`, `WalInvariant` and
`ReadPathInvariant` hold the inductive invariants (and the hypotheses) of the
proofs, where TLC can check them too.

`MC*` modules are what TLC is started on. Operators marked "Mutation of ..." are
faulty versions of the definition that follows them; `PROJECT.json` names, for
every property, one that it must catch.

**Engine.** A caller's place in its call is `pc[c]`; an action is the code
between two points at which another task can run or the process can die. `put`
and `delete` are `TakeLsn`, `WalAppend`, `MemInsert`, `CheckFreeze`. A flush is
`Freeze`, `PlanFlush`, `Stage`, `Publish`, (the child's) `DuckCommit`,
`LoadIndex`, `StoreIndex`, `Truncate`, `Retire`, `Unstage`. `open` is
`OpenWatermark`, `OpenIndex`, `OpenWal`: a child of the last life can commit
between them. `get` is `GetRowTier`, then `GetColumnar`. `held` is the memtable a
flush froze, `loaded` an index read from the catalog and not yet stored. `acked`
and `crashes` are history. `Faults` switches on, per run:

* `wal_error`: an append returns Err; its record may be durable, may become so with
  the next append (`LateAppend`: the bytes were still in the `BufWriter`), or not;
* `flush_error`: any await of a flush fails, a staging file half written included;
* `late_error`: the child commits and reports a failure (`DuckCommitThenFail`);
* `dropped_call`: the caller drops the future of a put or flush at any await
  (`Abandon`); the append, the truncation or the child it had started finishes
  later or never (`LateAppend`, `LateTruncate`, a job nobody waits for);
* `orphan_publish`: children survive the crash.

All of `CrashAt`'s windows are instances of `Crash`.

**DurableLog / Wal.** The engine is written against a log that is a set of
records: synced, or of uncertain fate. `Wal` has the segment files, the
`BufWriter`/page-cache/disk distinction (`synced`), rotation named by LSN, and
one action per system call of an append or a truncation. `open` is one action: a
crash between its calls leaves a directory of which the next open makes the same. A
segment that is drained twice under one name fails at its second `remove_file`.
Frames weigh one unit. `unlisted` are the file names
created since the last restart: with the fault `power_loss` any of them may be gone
after a crash, because nothing syncs the directory. `nextLsn` and the LSNs in
flight are the engine's, so that records reach the log in any order the engine
can produce.

**Lake / FileIndex.** The catalog is the sequence of committed files. DuckDB is
external: `CommitPublish` is what the code relies on, one atomic commit of rows
and statistics.

**ReadPath** composes `FileIndex`, `Bloom` and `ByteCache`. A get (`walk[r]`) takes
the index as a snapshot (`StartGet`), visits the places of it that bounds and bloom
leave (`todo`, first place first; `OpenFile`), asks for the footer and the chunks of the first row group whose
bounds admit the key (`FetchHit`, `FetchMiss`; the store answers in any order,
`Fetched`, or fails, `FetchFail`, which drops the sibling requests), parses the
footer into the metadata cache (`FooterRead`) and scans (`ScanRowGroup`). Any
number of gets interleave with `Bootstrap` (which may change the row group size and
opt into blooms between flushes), `Commit`, and the two halves of `publish_index` in
each flush, `LoadIndex` and `StoreIndex`. Nothing serialises flushes, so commits come in
any order of their LSNs, a memtable may be committed twice (a child that outlived its
engine), and an index loaded early may be stored late. `ByWatermark` is `sort_by`. A fetched range is
known by what it is a range of, file, column and row group, so that serving the
wrong one gives wrong rows; contents never change because lake files do not. Keys
are numbers in byte-string order. The faults are `io_error`, `bad_bloom` (a blob
that does not decode into whole blocks), `no_stats` (row groups without pk
statistics) and `no_catalog_stats` (a live file the index query's inner join drops).

**Bloom** is the split-block filter with its widths, salts and hash as parameters,
beside the writer in DuckDB that it has to agree with.

**ByteCache** is the cache's two maps, resident count and tick, as operators its
users' actions call (`CacheHit`, `CacheInsert`). Two reads can miss on one range and
both insert it.

**Bench** is one point of the benchmark's sweep: open, warm up, reset the
statistics, measure, report, with the cache's counters and the store's.

**KvStore, LruCache** are the abstract specifications: a durable map with
versions, and a set of ranges with the order in which they were last used, of which
an admission keeps the most of the most recent that leave room.

## 3. Runs

Passing:

| Run | Instance | Shows |
|---|---|---|
| `one_flusher` | one writer, one flusher, one reader, 2 keys, 3 LSNs, 1 crash | `Visibility`, `ReadsAreFresh`, `GetNeverGoesBack`, `ReadMatchesRecovery`, `PublishedOnce` |
| `orphan` | one caller, threshold 2, 2 crashes, surviving children, commits reported as failures | `Durability`, `SkipIsSound` |
| `concurrent_writers` | two writers and a reader, no flush, 1 crash, dropped calls | `DurableBeforeVisible`, `Visibility`, `GetNeverGoesBack`, `Engine` implements `KvStore` |
| `hostile` | two writers, one of them also calling `flush`, threshold 1, 2 crashes, all five faults | `TypeOK`, `LsnUnique`, `TruncateAfterPublish` and the inductive invariant `EngineInv` |
| `one_flush_at_a_time` | writer and flusher, threshold 1, one frozen slot, 1 crash | `CallsReturn`, `StallClears`, `FrozenHasOwner`, `IndexNeverRegresses`, implements `KvStore`; the invariant `ReadInv` |
| `wal_in_order` | one writer, 5 LSNs, 2-frame segments, 2 crashes | implements `DurableLog`; `SealedMaxIsBound`, `TornOnlyInLast`, `SyncedIsReplayable`; the invariants `SegmentsInv`, `OrderInv` |
| `wal_failing` | two writers, all I/O faults, power loss, 2 crashes | `TypeOK`, `ReplayIsUnambiguous`; the invariant `LsnInv` |
| `read_path` | 3 keys, 2 files committed in any order, 2 table configurations, 2 concurrent gets, a cache of 2 units, failing requests | `PruningIsExact`, `AnswerIsNewest`; of the cache under these reads `ResidentIsExact`, `MapsAgree`, implements `LruCache`; the invariants `ReadPathInv`, `ExactInv` |

Violations, each of a sentence in the repository (quoted in the findings of
`PROJECT.json`):

| Run | Property | What happens |
|---|---|---|
| `late_lsn` | `Durability` | Two writers. The one with the lower LSN is inserted after the other's memtable was frozen; the watermark covers it, its flush is skipped, it is in no file. |
| `failed_flush` | `Durability` | A flush fails, a later one publishes a higher watermark, the failed one's rows are skipped by a recovery. |
| `wal_name_reuse` | `ActiveNeverDeleted` | A crash after a rotation lets an LSN name a segment twice; the active file is deleted as a covered segment. |
| `bench_point` | `GetsAreMisses` | `reset_stats` leaves the store's counters: the point reports the warm-up's GETs and the measured reads' hit rate, 5 GETs for no miss. |

The same models show further limits of the guarantees. They need no run of their
own: give one of the configurations these constants and check one property.

| Start from | Change | Property that fails | Why |
|---|---|---|---|
| `one_flusher` | `MaxBytes = 1` | `SkipIsSound` | Two flushes publish out of order; `published >= max_lsn` (`flush.rs:80-82`) does not mean this flush landed. |
| `late_lsn` | `Keys = {k1}` | `GetNeverGoesBack` | A delayed insert lands in a newer memtable than the newer value, and a get that answered with the newer one answers with the older (`memtable.rs:10-11`). |
| `late_lsn` | `MaxFrozen = 2` | `IndexNeverRegresses` | `publish_index` loads without the lock and stores with it (`engine.rs:259-263`). |
| `failed_flush` | - | `FrozenHasOwner` | A failed flush leaves its memtable frozen for good. |
| `failed_flush` | `Faults = {"late_error"}` | `FrozenHasOwner`, `Visibility`, `GetNeverGoesBack` | The same with a flush that was published before it failed. Nothing is lost, but the leftover answers for a newer value once that was flushed and its memtable retired (`memtable.rs:182-187`), until the process ends. |
| `one_flush_at_a_time` | `Faults = {"late_error"}` | `StallClears` | Such a leftover also keeps its slot (`memtable.rs:210`); with one slot no flush can start any more. |
| `orphan` | - | `PublishedOnce`, `Visibility` | A surviving child publishes what the next life publishes again; or it commits behind the new index, and the already-published path retires the only readable copy without reloading the index. |
| `wal_name_reuse` | `SegmentBytes = 1` | `TornOnlyInLast` | With two writers segment names are not in creation order. Harmless: `open` repairs every segment. |
| `wal_in_order` | `WalFaults = {"short_write"}` | `SyncedIsReplayable` | An append after a short write returns Ok behind torn bytes. |
| `wal_in_order` | `WalFaults = {"power_loss"}` | `ImplementsDurableLog` | A power failure takes the name of a new segment, and with it records synced into it (`wal.rs:192`). |
| `read_path` | `ReadFaults = {"no_catalog_stats"}` | `AnswerIsNewest` | A file without a pk row in the statistics is dropped by the inner join (`index.rs:105`), and an older value shows. |
| `read_path` | `ReadFaults = {"no_stats"}` | `PruningIsExact` | A row group without statistics answers for its file (`read.rs:103-105`). |

With `ReadFaults = {"io_error", "bad_bloom"}` and `MaxGets = 1` all properties of
`read_path` hold: a filter that does not parse only costs a file its pruning. The
theorems on reads cover this fault for any number of gets.

Read together: with one call at a time and no failing call the protocol does what
`DECISIONS.md` says, through crashes at any point, even with surviving children
(except that these may publish twice or leave the index stale). Each weakening of
that, two writers beside a flush, two flushes, a failed flush, costs one of the
guarantees. What survives everything is in the `hostile` run and in the theorems
without hypotheses; section 4 says under which hypotheses each of the others is
proved.

**Bounds.** `MaxLsn` 3 gives two records to one memtable and one beyond it, so a
replayed memtable can grow before its retry; two crashes reach a crash during the
recovery from a crash. `MaxBytes` 9 in two runs means the writer never flushes by
itself, which isolates one flusher, or none; `MaxFrozen` 1 lets both flush, one
after the other. `hostile` needs only one key: a value and the tombstone tell
records with one LSN apart. `wal_in_order` fills two segments and rotates into a
third. With one writer the next LSN after a crash is the one that named the last
segment, so no name recurs at any length; with several it does
(`wal_name_reuse`, which needs five LSNs), so that run's refinement is stated for
one writer. With failing rotations (`io_error`) a single writer can skip LSNs and
meet the same reuse, hence no faults there either. Two files are enough for
`read_path`: a file is compared with one other. The older memtable has all three keys,
the newer one both ends, the low one deleted; either may be committed first, or one of
them twice. So the newer file's bounds admit the middle key, which is only in the older;
its bloom, where it has one, denies that key, though the hash gives it the mask of
another. Row groups of two rows put a key first, last and, in the last group of the older
file, alone; that files differ in row group size is left to the theorems, which have any
`Configs`. Two gets (`MaxGets` 2) suffice for each pair of reads to race, on one file or
two; `MaxTick` 12 is never the limit for two gets of two files, and 2 units of cache hold a
footer beside a pk chunk, or a value of one row alone, while a value chunk of two rows
is too large to be kept.

Symmetry (keys and values; readers in `read_path`) is used in runs without liveness.
Deadlock is checked wherever some caller can always act; the log runs stop when their LSNs are used up,
`read_path` when its gets and files are, the benchmark when it has reported.

**Fairness** (`FairSpec`): each caller's own steps are weakly fair (the tokio
runtime polls every woken task; the locks are held for bounded work), and a DuckDB
child that was given a script eventually commits. Nothing restarts a dead process, and
the properties do not ask for it. Nothing is assumed about new calls, crashes or faults, and none of the
steps needs strong fairness.

## 4. Proofs

Every invariant, action property and refinement of the passing runs is proved for
every value of the constants (any sets of keys, values, callers and readers, any
bounds, any subset of the faults that the theorem does not exclude); the two
liveness properties are not. The assumptions are the named
ASSUMEs of the modules, which TLC evaluates in every run: the tombstone is not a
value, limits are natural numbers (of frozen memtables a positive one, as
`memtable.rs:156` asserts), faults are known faults, `"idle"` and `"done"`
are not keys (they are places of a get), the keys of one flush are finitely many.
A theorem that needs more says so as a hypothesis on the behaviour
(`Spec /\ []H => []P`) or on the constants (`ASSUME H PROVE ...`).

### The engine, whatever happens (`EngineProofs`)

`TypeCorrect`, `InvariantHolds` (`EngineInv`), `LsnsAreUnique` and
`WalCoversUnpublished` (`TruncateAfterPublish`) hold with any number of callers and
all faults.

Neither safety property is inductive. `LsnUnique` across a restart needs that
every record anywhere is in the WAL or covered by the watermark that `open` read
(`OpeningCovers`), because that is all `next_lsn` is computed from; this is
`TruncateAfterPublish` carried through the three steps of `open`. That one in
turn needs that a memtable's `max_lsn` is the LSN of one of its rows and a bound on
all (`TablesExact`): the flush truncates through `max_lsn`, while the watermark
the lake publishes is computed by DuckDB from the rows of the staged file. A flush
past its publish knows that the watermark reached its `max_lsn`
(`FlushedIsPublished`), which stays true because watermarks only grow, and because
only a call still waiting for this very job moves on when it commits: a child of an
earlier life, or of a dropped call, moves nobody. A truncation that outlives its
call goes no further than `covered`, which the watermark bounds. The proof has one
lemma per group of actions, and below it one step per conjunct the action can
disturb. The `hostile` run checks the same `EngineInv`.

### The engine, with orderly callers (`EngineSerialProofs`, `EngineFlushProofs`, `EngineReadProofs`)

The other promises of the engine are false in general (section 3). The hypotheses
of `EngineSerial` say what callers must not do for them to be true:

| Hypothesis | Says | Theorems |
|---|---|---|
| `Serial` | no append fails or is dropped; no memtable is frozen with a newer record than a put or delete still between `fetch_add` and the insert (`NoLateWrite`); at most one frozen memtable is above the published watermark (`OneUnpublished`) | `DurabilityHolds`, `SkipsAreSound`, `VisibleIsDurable`, `EngineImplementsKvStore` |
| `SerialReads` | `Serial`, at most one frozen memtable, children die with their engine | `AckedIsVisible`, `ReadsNeverGoBack`, `ReadsMatchRecovery`, `FlushesOnce`, `GetsAreFresh` |
| `OneIndexer` | one call at a time between load and store of `publish_index` | `IndexOnlyGrows` |
| `OrderlyFlushes` | one flush at a time, none dropped or failing before its commit | `NoneIsForgotten` (`FrozenHasOwner`), which also excludes failures after it (`late_error`) |

The run `late_lsn` violates `NoLateWrite` and `failed_flush` violates `OneUnpublished`; the
theorems say that, appends apart, nothing else is needed: writes race as they like.
Nothing in `engine.rs` enforces the hypotheses, but they can be met:

* `LockedIsSerial`, `LockedIsDurable`: callers that hold one lock around writes and one
  around flushes that do not fail, for any `max_frozen_memtables`. `OneWriteIsNotLate`:
  a write that is alone on its way is newer than all of memory (`WriteIsNewest`), so a
  freeze beside it does no harm.
* `QuietFreezesAreNotLate`, `GatedIsSerial`, `GatedIsDurable`, `GatedReads`: any number of
  writes at a time, if a memtable is frozen only while none is between `fetch_add` and
  the insert (`QuietFreeze`: a lock that writes share and `freeze` takes alone). Callers
  can do this around `flush`, not around the flush inside `put`: there it has to be a
  lock of the engine's own. These theorems are what such a change would rest on.
* `LimitOfOneIsSerial`, `LimitOfOneIsDurable`, `LimitOfOneReads`: one writing task and
  `max_frozen_memtables = 1`, where the code's own backpressure does it and any number of
  tasks may flush and fail.

The default of `max_frozen_memtables` is 2 (`config.rs:80`), so with the default a flush
that fails can still be overtaken; that is the run `failed_flush`. Crashes anywhere are
always included, and under `Serial` so are surviving children.

*Why it holds.* Raising the published watermark is the one dangerous step: from then
on recovery and `plan` believe every record up to it to be in the lake. `SerialInv`
therefore says of everything that may be published, a frozen memtable, one in a
call's hands, a staged file, that its rows account for every durable record between
the published watermark and its own (`Complete`) and are the newest of their keys
(`Newest`). A freeze has to establish this, which needs that unpublished durable
records are in memory (`UnpublishedInMemory`) and that a write on its way is newer
than every level below the active memtable (`PendingIsLater`, which is where
`NoLateWrite` is used): an insert then finds everything newer than itself in the active
memtable or still on its way, and may lose to it there; a commit has
to preserve it for the flushes that did not commit, which is where
`OneUnpublished` is used. A retirement is harmless because the id finds the right
memtable and that one is published (`RetiresItsOwn`). For reads, `ReadInv` adds that
memory is ahead of the lake level by level (`LevelsAreOrdered`), so that the first
hit of the lookup is the newest, and that what the index does not name is still in
memory (`IndexOrMemory`); a get between the row tier and the index carries
`ReaderWillFind`. `one_flush_at_a_time` checks `ReadInv`, which contains
`SerialInv`.

`EngineImplementsKvStore` is a step simulation: the map of `KvStore` is what a
recovery would find, only the fsync of a write changes it, and every other step,
crash, flush, retirement, recovery, is a stutter.

### The log (`WalProofs`)

* `WalTypeCorrect`, `LsnInvariantHolds`, `ReplayUnambiguous`: under every fault, with
  any number of appenders. `LsnInv` says of records on disk, in doubt or under way that
  an LSN names one of them; a restart hands LSNs out again, so it has to follow which
  ones can still be replayed.
* `SyncedReplays`: without `short_write`.
* `FreshNamesAreSafe` (`SealedMaxIsBound` and `ActiveNeverDeleted`): under every fault, as
  long as a rotation creates the file it names (`FreshNames`). So name reuse is the only
  way to the loss in `wal_name_reuse`.
* `FreshNamesImplementLog`: without `short_write` and `power_loss` and with `FreshNames`,
  `Wal` implements `DurableLog`, with failing rotations, syncs and removals.
* `AscendingTearsLast` (`TornOnlyInLast`): as long as names ascend, without `short_write`.
* `OrderInvariantHolds`, `OneAppenderAscends`, `OneAppenderIsSafe`: one append at a time
  and no I/O error give both conditions on names through any number of crashes. This is
  the argument of section 3 on names, `OrderInv`: every LSN below the one under way is `Settled`, so a
  restart continues with the LSN that may already have named a file and not below it.
  With `io_error` it is false: a failed rotation skips an LSN.
* `OpensAboveIsFresh`, `FirstLifeIsFresh`, `OpensAboveIsSafe`: with any number of appenders
  and under every fault, names are fresh as long as no restart continues at or below the
  name of a file on disk (`OpensAbove`), so always before the first crash. Within one
  life an LSN is taken once and only its own append can make it a name (`NamesInv`). What
  lets a name recur is thus only that `Engine::open` computes `next_lsn` from records and
  the watermark, and not from the segment names.

The theorems about `Engine` are stated over `DurableLog`. With these, both halves of the
chain from `Wal` to `KvStore` are proved, for one writing task and, under `OpensAbove` and
`QuietFreeze`, for several; they are not composed into one specification.

### Reads of the lake and the caches (`ReadPathProofs`)

* `ReadPathInvariantHolds`, `ReadPathTypeCorrect`, `ResidentExact`, `MapsAlwaysAgree`:
  under every fault, for any number of concurrent reads, any cache size and any sizes
  of ranges.
* `ExactInvariantHolds`, `PruningExact`: where row groups have statistics (no
  `no_stats`), with failing requests, blooms that do not parse and files missing from
  the index.
* `AnswerNewest`: where every live file also has its statistics in the catalog (no
  `no_catalog_stats`), and for keys whose rows the watermarks order (`InFileOrder`).
* `CacheIsLru`: the byte cache under these reads implements `LruCache`, under every
  fault, for any capacity, any sizes and any racing inserts.

DuckDB and DuckLake write these statistics; the code has a path for their absence,
which is what the two faults are.

*The caches.* `ResidentIsExact` needs `MapsAgree` (an eviction by tick removes the entry
it means to) and that cached bytes are the key's own (a second insert of a range
releases as much as it adds, so `saturating_sub` never saturates). The sum of the
entries' sizes is a fold in an order the library chooses; `HeldCounts` turns it into
the number of cells of a set, about which the finite-set theorems say what is
needed. `VictimsMakeRoom` is the eviction loop.

`CacheIsLru` maps the order of use to the order of the ticks. A hit and an insert take
a tick above all others, so what they touch is used last (`NewTickIsLast`). The loop
evicts by the smallest tick until the new entry fits, `LruCache` keeps the most that
fits: the two are the same set because sets of most recent entries are nested, the loop
leaves one that fits, and one that also kept the last victim would not
(`KeepsTheRecent`, with the sizes that `HeldCounts` counts, `WeightIsHeld`). An insert
that is refused for its size, a miss and every step of the reads are stutters.

*The reads.* `WalkInv` says that a read's pieces (asked for, waited for, had) are
always exactly the footer of the file it is at or both chunks of one of its row groups,
whichever cache answered. `FirstGroupIsFinal` is the claim of `read.rs:103`: ranks cut
into groups of `row_group_size` keep the order of the keys, so the first group whose
bounds admit the key is the only one that can hold it. `HolderIsCandidate` is that
neither bounds nor bloom dismiss a file that holds the key, from `NoFalseNegatives`.
`ExactInv` then carries through the awaits that no holder was passed over.

Nothing is assumed of the order of commits. `ListsInv` says of the index, of every list a
flush has loaded and not stored, and of every snapshot, that it is what the catalog listed
after some number of commits, sorted by watermark. So a list that names a commit names all
earlier ones, the get's answer is the first of them that holds the key, and where
watermarks order the rows of the key that is the newest. `index.rs:148-149` takes the
last step for granted ("Watermarks are monotonic"); the property and the theorem state it as
the condition `InFileOrder`, since whether it holds is the engine's affair: a lower LSN
that arrives late (`late_lsn`) can be flushed above a newer one.

`read_path` checks both invariants.

### The bloom filter (`BloomProofs`)

For every width, salt, hash and number of blocks (the widths are positive, the word
width divides a half of the hash, salts and halves are in range): `BlockIndexInBounds`,
the block a probe reads is one of the filter's, so `might_contain` never indexes past
the words; `NoFalseNegatives`, the blob built over a set of keys parses, and
`might_contain` accepts every key of the set. They rest on two facts about division
(`QuotientBelow`, `WordSplits`).

### Only model-checked

Liveness (`CallsReturn`, `StallClears`): fairness and ENABLED are out of the
prover's reach.

The library's induction theorems take an operator and cannot be instantiated here;
the few inductions the proofs need go through the least element of a set of naturals
(`NaturalsOf` in `ReadPathProofs`, `MinOfNaturals`, `MaxOfBounded` in `RecordProofs`).

## 5. Not modelled

* DuckDB, DuckLake, Postgres and S3, beyond the atomic commit and the catalog rows
  the code relies on.
* A DuckDB child that reads the staged file, stalls, and commits what it read after a
  retry has overwritten or removed the file: `CommitPublish` reads and commits in one
  step. A child that is slow to start is modelled.
* How DuckLake's bloom writer computes blocks and bits. It is external, and `Bloom` gives it
  the probe's own arithmetic: the theorems say that filter and probe agree if both use this
  arithmetic, not that DuckLake does.
* A frame that a killed process wrote without syncing it, that the next one replayed and
  that a power failure then takes: `open` syncs only a file it cut (`wal.rs:80-84`), and the
  model takes what `open` finds to be on disk. Such a record was never acknowledged.
* What a power failure does to an unlink: a removed segment that reappears holds only
  records at or below the watermark, which recovery skips.
* The byte formats (frames, CRC, Parquet, hex statistics), murmur3 (the hash is a
  parameter) and the parsing of the data path and the configuration.
* `verify_columns`, a comparison of the catalog's columns with constants at startup.
* Simulated latency: a draw from a distribution and a sleep, which change no answer;
  the object store's put, list, delete and copy, which the engine never calls.
* Of the benchmark, loading the table, choosing the keys, percentiles and printing.

## 6. Plan

Done: the modules, runs and theorems above. What could follow:

1. Proofs: `Durability` with appends that fail or are dropped. Their records may enter the
   WAL and no memtable, so `Complete` would have to be stated for the acknowledged
   records and those read since, not for all durable ones.
2. `Wal`: batches of several records.
3. `Engine` over `Wal` in one specification, and with `ReadPath`, so that a read that
   straddles a flush is checked file by file.
