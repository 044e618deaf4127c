---------------------------- MODULE EngineSerial -----------------------------
(***************************************************************************)
(* When the engine keeps what it promises: what its callers must not do    *)
(* (the hypotheses) and why that is enough (the inductive invariants).     *)
(*                                                                         *)
(* Nothing in engine.rs serialises writes or flushes, and late_lsn and     *)
(* failed_flush show that acknowledged writes are lost without it.  The    *)
(* hypotheses are conditions on a behaviour, met by callers that hold a    *)
(* lock around their calls, by a single caller, or by                      *)
(* max_frozen_memtables = 1.                                               *)
(***************************************************************************)
EXTENDS EngineInvariant

------------------------------------------------------------------------------
(* Hypotheses.                                                              *)

\* Between fetch_add and the insert.
Writing == {"append", "insert"}

\* No memtable was frozen with a newer record than one still on its way.
NoLateWrite ==
    \A c \in Clients : pc[c] \in Writing => \A r \in pending[c], m \in frozen : m.max_lsn < r.lsn

\* At most one frozen memtable still has to be published.
OneUnpublished ==
    \A m, n \in frozen :
        m.max_lsn > PublishedWatermark /\ n.max_lsn > PublishedWatermark => m = n

\* At most one memtable is frozen.
OneFrozen == \A m, n \in frozen : m = n

\* At most one call is inside flush_inner, past its freeze.
OneFlush == \A c, d \in Clients : pc[c] \in FlushPhases /\ pc[d] \in FlushPhases => c = d

\* At most one call holds an index it loaded and has not stored.
OneIndexer == \A c, d \in Clients : pc[c] = "store_index" /\ pc[d] = "store_index" => c = d

\* No append is given up half-way, no write is overtaken by a freeze and no flush by
\* another.  Writes may race, flushes fail, and children of dead processes commit.
Serial ==
    /\ Faults \cap {"wal_error", "dropped_call"} = {}
    /\ NoLateWrite
    /\ OneUnpublished

------------------------------------------------------------------------------
(* No durable write is lost.                                                *)

\* The writes a crash must not take back: they passed the WAL and are still in some
\* level, are acknowledged, or will be.
Durable == Logged \cup UNION {pending[c] : c \in {d \in Clients : pc[d] # "append"}}

Inserting(r) == \E c \in Clients : pc[c] = "insert" /\ r \in pending[c]

CoveredBy(rows, r) == \E s \in rows : s.key = r.key /\ s.lsn >= r.lsn

\* The rows are the newest of their keys, among the records of D up to w.
Newest(D, rows, w) ==
    \A s \in rows, r \in D : r.key = s.key /\ r.lsn <= w => r.lsn <= s.lsn

\* With p published, publishing the rows accounts for every record of D up to w.
Complete(D, p, rows, w) ==
    \A r \in D : p < r.lsn /\ r.lsn <= w => CoveredBy(rows, r)

\* What a flush must be given to publish under the watermark w.
Good(rows, w) == Newest(Durable, rows, w) /\ Complete(Durable, PublishedWatermark, rows, w)

FilesNewest ==
    \A f \in Range(catalog) :
        Exact(f.rows, f.watermark) /\ Newest(Durable, f.rows, f.watermark)

LakeCovers == \A r \in Durable : r.lsn <= PublishedWatermark => CoveredBy(LakeRows, r)

FlushesGood ==
    /\ \A m \in frozen : Good(m.rows, m.max_lsn)
    /\ \A c \in Clients : Good(held[c].rows, held[c].max_lsn)
    /\ \A s \in staging : s.rows # {} => Good(s.rows, s.watermark)

ActiveNewest ==
    \A s \in active.rows, r \in Durable : r.key = s.key => r.lsn <= s.lsn \/ Inserting(r)

UnpublishedInMemory ==
    mode = "up" => \A r \in Durable : r.lsn > PublishedWatermark =>
        \/ Inserting(r)
        \/ CoveredBy(active.rows, r)
        \/ \E m \in frozen : r.lsn <= m.max_lsn

FrozenRows == UNION {m.rows : m \in frozen}

\* A write on its way is newer than every level below the active memtable.
PendingIsLater ==
    \A c \in Clients : pc[c] \in Writing =>
        \A r \in pending[c] :
            /\ \A s \in FrozenRows \cup HeldRows \cup StagedRows \cup LakeRows : s.lsn < r.lsn
            /\ r \notin active.rows \cup acked
            /\ \A d \in Clients \ {c} : r \notin pending[d]

\* The id finds the memtable to retire, and that one is published.
RetiresItsOwn ==
    /\ \A m \in frozen : m.id < active.id
    /\ \A c \in Clients : pc[c] \in FlushPhases =>
          /\ held[c].id < active.id
          /\ \A m \in frozen : m.id = held[c].id => m = held[c]
    /\ \A c \in Clients : pc[c] \in {"retire", "skip_retire"} =>
          held[c].max_lsn <= PublishedWatermark
    /\ mode # "up" => frozen = {}

\* A reader's files are files of the lake.
IndexBehindLake ==
    /\ Range(index) \subseteq Range(catalog)
    /\ \A c \in Clients : Range(loaded[c]) \subseteq Range(catalog)

\* What a file or a memtable claims up to its watermark is complete and newest, so
\* that raising the published watermark to it hides no durable record.
SerialInv ==
    /\ EngineInv
    /\ unsynced = {}
    /\ openWm <= PublishedWatermark
    /\ FilesNewest
    /\ LakeCovers
    /\ FlushesGood
    /\ ActiveNewest
    /\ UnpublishedInMemory
    /\ PendingIsLater
    /\ RetiresItsOwn
    /\ IndexBehindLake

------------------------------------------------------------------------------
(* No durable write is invisible.                                           *)

\* Serial, at most one memtable frozen, and no child outlives its engine.
SerialReads == Serial /\ OneFrozen /\ Faults \cap {"orphan_publish"} = {}

\* The file a memtable becomes.
FileOf(m) == [rows |-> m.rows, watermark |-> m.max_lsn]

BeforeCommit == {"plan", "stage", "publish", "waiting"}

AfterCommit == {"load_index", "store_index", "truncate", "retire"}

Carrying == BeforeCommit \cup AfterCommit

\* One flush moves the one frozen memtable; whatever publishes, publishes that.
FlushOwnsFrozen ==
    /\ \A m \in frozen : m.rows # {}
    /\ \A c \in Clients : pc[c] \in Carrying => held[c] \in frozen
    /\ \A c, d \in Clients : pc[c] \in Carrying /\ pc[d] \in Carrying => c = d
    /\ \A c \in Clients : pc[c] \notin {"skip_truncate", "skip_retire"}
    /\ \A c \in Clients : pc[c] \in {"publish", "waiting"} =>
          \A s \in staging : s.watermark = held[c].max_lsn => s = FileOf(held[c])
    /\ \A job \in duckdb : Waiting(job)

\* Memory is ahead of the lake, level by level.
LevelsAreOrdered ==
    /\ \A s \in active.rows : s.lsn > PublishedWatermark
    /\ \A m \in frozen : PublishedWatermark <= m.max_lsn /\ \A s \in active.rows : m.max_lsn < s.lsn
    /\ \A c \in Clients : pc[c] \in BeforeCommit => \A s \in held[c].rows : s.lsn > PublishedWatermark
    /\ \A i, j \in DOMAIN catalog : i < j =>
          \A r \in catalog[i].rows, s \in catalog[j].rows : r.lsn < s.lsn

\* What the index does not name is still in memory.
IndexOrMemory ==
    /\ mode = "up" => \A f \in Range(catalog) : f \in Range(index) \/ \E m \in frozen : f = FileOf(m)
    /\ \A c \in Clients : /\ pc[c] = "store_index" => loaded[c] = catalog
                          /\ pc[c] \in {"truncate", "retire"} => index = catalog
    /\ mode \in {"watermark_read", "index_loaded"} => openWm = PublishedWatermark
    /\ mode = "index_loaded" => index = catalog

\* A get that missed the row tier will find what it must in the files it reads.
ReaderWillFind ==
    \A r \in Readers : reader[r].floor > 0 =>
        /\ reader[r].at \in Keys => \E f \in Range(index) : \E a \in Of(f.rows, reader[r].at) :
                                       a.lsn >= reader[r].floor
        /\ reader[r].at = "done" => \E a \in reader[r].got : a.lsn >= reader[r].floor

ReadInv ==
    /\ SerialInv
    /\ FlushOwnsFrozen
    /\ LevelsAreOrdered
    /\ IndexOrMemory
    /\ ReaderWillFind

------------------------------------------------------------------------------
(* No frozen memtable is forgotten, and the index only grows.               *)

\* Flushes go one by one, none is dropped and none fails before its commit.
OrderlyFlushes == Faults \cap {"flush_error", "dropped_call"} = {} /\ OneFlush

\* A frozen memtable has its flush, or is what a publish that took effect and was
\* reported as failed has left behind.
OwnedOrPublished ==
    \A m \in frozen :
        \/ \E c \in Clients : pc[c] \in FlushPhases /\ held[c] = m
        \/ "late_error" \in Faults /\ \E f \in Range(catalog) : m.rows = f.rows

\* What is staged under the name of the memtable in hand is that memtable, so that
\* the publish cannot fail for want of a file and publishes all its rows.
OwnerInv ==
    /\ OwnedOrPublished
    /\ \A c \in Clients : pc[c] \in {"stage", "publish", "waiting"} => held[c].rows # {}
    /\ \A c \in Clients : pc[c] \in {"publish", "waiting"} =>
          /\ FileOf(held[c]) \in staging
          /\ \A s \in staging : s.watermark = held[c].max_lsn => s = FileOf(held[c])
    /\ \A c \in Clients : pc[c] = "unstage" => \A m \in frozen : m.id # held[c].id
    /\ \A f \in Range(catalog) : Exact(f.rows, f.watermark)

\* The index a call is about to store is no older than the one it replaces.
IndexInv ==
    /\ IndexBehindLake
    /\ \A c \in Clients : pc[c] = "store_index" => Range(index) \subseteq Range(loaded[c])

------------------------------------------------------------------------------
(* Callers that meet the hypotheses.                                        *)

\* One put or delete at a time is between fetch_add and the insert.
OneWrite == \A c, d \in Clients : pc[c] \in Writing /\ pc[d] \in Writing => c = d

\* The one write on its way is newer than all of memory.
WriteIsNewest ==
    \A c \in Clients : pc[c] \in Writing =>
        \A r \in pending[c], m \in frozen \cup {active} : m.max_lsn < r.lsn

\* A memtable is frozen only while no write is on its way: a lock that writes share,
\* from before fetch_add to after the insert, and a freeze takes alone.
QuietFreeze == frozen' \subseteq frozen \/ \A c \in Clients : pc[c] \notin Writing

\* No append is given up half-way, and calls hold a lock: one for writes, from
\* before fetch_add to after the insert, and one for flushes, none of which fails
\* before its commit.
Locked == Faults \cap {"wal_error", "dropped_call"} = {} /\ OneWrite /\ OrderlyFlushes

\* Writes may race, if freezes are quiet; flushes as in Locked.
Gated == Faults \cap {"wal_error", "dropped_call"} = {} /\ OrderlyFlushes

\* One writing task, any number of flushing ones, and max_frozen_memtables = 1:
\* flushes may also fail.
LimitOfOne ==
    /\ Faults \cap {"wal_error", "dropped_call"} = {}
    /\ \A c, d \in Writers : c = d
    /\ MaxFrozen <= 1

\* put and delete are the writers' alone, and nothing is frozen over the limit.
CallersInv ==
    /\ \A c \in Clients : pc[c] \in Writing => c \in Writers
    /\ IsFiniteSet(frozen)
    /\ MaxFrozen <= 1 => OneFrozen

==============================================================================
