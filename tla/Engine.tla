------------------------------- MODULE Engine --------------------------------
(***************************************************************************)
(* engine.rs: the write path, the read path, flush and recovery, run by    *)
(* any number of concurrent callers over the row tier, the WAL and the     *)
(* lake, with process crashes in between.                                  *)
(*                                                                         *)
(* A caller's position in its call is pc[c]; one action is the code        *)
(* between two points where another task can run or the process can die.   *)
(***************************************************************************)
EXTENDS DurableLog, Lake

CONSTANTS
    Writers,     \* tasks that call put and delete (and flush inline)
    Flushers,    \* tasks that call flush()
    Readers,     \* tasks that call get
    MaxCrashes,  \* bound on process crashes in a run
    Faults       \* which failures the environment may inject

ASSUME EngineAssumption ==
    /\ {"idle", "done"} \cap Keys = {}  \* where a get is, or the key it looks for
    /\ MaxCrashes \in Nat
    /\ Faults \subseteq {"wal_error", "flush_error", "late_error", "dropped_call",
                     "orphan_publish"}

VARIABLES
    mode,      \* "down", the steps of Engine::open, or "up"
    openWm,    \* the watermark Engine::open read
    nextLsn,   \* Engine::next_lsn
    active,    \* MemtableSet::active
    frozen,    \* MemtableSet::frozen
    index,     \* Engine::index
    pc,        \* where each caller is
    pending,   \* the record of each caller's put or delete; {} in a flush()
    held,      \* the frozen memtable each caller is flushing
    loaded,    \* the index a caller loaded and has not stored yet
    reader,    \* each get in progress
    acked,     \* history: the records put or delete returned Ok for
    crashes    \* history: how often the process died

memVars == <<active, frozen>>
callVars == <<pc, pending, held, loaded>>
openVars == <<mode, openWm, nextLsn, crashes>>
vars == <<logVars, lakeVars, openVars, memVars, index, callVars, reader, acked>>

Clients == Writers \cup Flushers

FlushPhases == {"plan", "stage", "publish", "waiting", "load_index", "store_index",
                "truncate", "retire", "unstage", "skip_truncate", "skip_retire"}

Phases == {"idle", "append", "insert", "check", "freeze"} \cup FlushPhases

NoRead == [at |-> "idle", floor |-> 0, got |-> {}]

TypeOK ==
    /\ LogTypeOK
    /\ staging \subseteq File
    /\ duckdb \subseteq [owner : Clients, life : 0 .. MaxCrashes, watermark : 0 .. MaxLsn]
    /\ catalog \in Seq(File)
    /\ mode \in {"down", "watermark_read", "index_loaded", "up"}
    /\ openWm \in 0 .. MaxLsn
    /\ nextLsn \in 1 .. MaxLsn + 1
    /\ active \in Memtable
    /\ frozen \subseteq Memtable
    /\ index \in Seq(File)
    /\ pc \in [Clients -> Phases]
    /\ pending \in [Clients -> SUBSET Record]
    /\ held \in [Clients -> Memtable]
    /\ loaded \in [Clients -> Seq(File)]
    /\ reader \in [Readers -> [at : {"idle"} \cup Keys \cup {"done"},
                               floor : 0 .. MaxLsn, got : SUBSET Record]]
    /\ acked \subseteq Record
    /\ crashes \in 0 .. MaxCrashes

\* Before the first open: an empty WAL directory, an empty table, no process.
Init ==
    /\ LogInit
    /\ LakeInit
    /\ mode = "down"
    /\ openWm = 0
    /\ nextLsn = 1
    /\ active = NewMemtable(0)
    /\ frozen = {}
    /\ index = << >>
    /\ pc = [c \in Clients |-> "idle"]
    /\ pending = [c \in Clients |-> {}]
    /\ held = [c \in Clients |-> NewMemtable(0)]
    /\ loaded = [c \in Clients |-> << >>]
    /\ reader = [r \in Readers |-> NoRead]
    /\ acked = {}
    /\ crashes = 0

------------------------------------------------------------------------------
(* Calls and returns.                                                       *)

At(c, phase) == mode = "up" /\ pc[c] = phase

Goto(c, phase) == pc' = [pc EXCEPT ![c] = phase]

\* The call of c returns: Ok acknowledges its record, Err does not.
Return(c) ==
    /\ Goto(c, "idle")
    /\ pending' = [pending EXCEPT ![c] = {}]
    /\ held' = [held EXCEPT ![c] = NewMemtable(0)]
    /\ loaded' = [loaded EXCEPT ![c] = << >>]

ReturnOk(c) == Return(c) /\ acked' = acked \cup pending[c]

ReturnErr(c) == Return(c) /\ UNCHANGED acked

------------------------------------------------------------------------------
(* Engine::put, Engine::delete and Engine::append.                          *)

\* fetch_add on next_lsn, before any lock is taken.
TakeLsn(c, k, v) ==
    /\ At(c, "idle")
    /\ nextLsn <= MaxLsn
    /\ pending' = [pending EXCEPT ![c] = {[key |-> k, lsn |-> nextLsn, val |-> v]}]
    /\ nextLsn' = nextLsn + 1
    /\ Goto(c, "append")
    /\ UNCHANGED <<logVars, lakeVars, mode, openWm, crashes, memVars, index, held,
                   loaded, reader, acked>>

WalAppend(c) ==
    /\ At(c, "append")
    /\ \E r \in pending[c] : LogAppend(r)
    /\ Goto(c, "insert")
    /\ UNCHANGED <<lakeVars, openVars, memVars, index, pending, held, loaded, reader, acked>>

\* The append fails, or the caller drops the future of put while it runs.
WalAppendFail(c) ==
    /\ Faults \cap {"wal_error", "dropped_call"} # {}
    /\ At(c, "append")
    /\ \E r \in pending[c] : LogAppendFail(r)
    /\ ReturnErr(c)
    /\ UNCHANGED <<lakeVars, openVars, memVars, index, reader>>

\* Nothing waits for the record any more and it still becomes durable: the blocking
\* append of a dropped call runs on, and the bytes a failed append left in the
\* BufWriter go out with the next one.
LateAppend(r) ==
    /\ Faults \cap {"wal_error", "dropped_call"} # {}
    /\ mode = "up"
    /\ LogAppend(r)
    /\ UNCHANGED <<lakeVars, openVars, memVars, index, callVars, reader, acked>>

\* MemtableSet::insert, under the read lock: the record becomes visible.
MemInsert(c) ==
    /\ At(c, "insert")
    /\ \E r \in pending[c] : active' = Insert(active, r)
    /\ Goto(c, "check")
    /\ UNCHANGED <<logVars, lakeVars, openVars, frozen, index, pending, held, loaded,
                   reader, acked>>

\* should_freeze, a second acquisition of the lock: acknowledge, or flush inline.
CheckFreeze(c) ==
    /\ At(c, "check")
    /\ \/ /\ ShouldFreeze(active)
          /\ Goto(c, "freeze")
          /\ UNCHANGED <<pending, held, loaded, acked>>
       \/ /\ ~ShouldFreeze(active)
          /\ ReturnOk(c)
    /\ UNCHANGED <<logVars, lakeVars, openVars, memVars, index, reader>>

------------------------------------------------------------------------------
(* Engine::flush_inner.                                                     *)

CallFlush(c) ==
    /\ At(c, "idle")
    /\ Goto(c, "freeze")
    /\ UNCHANGED <<logVars, lakeVars, openVars, memVars, index, pending, held, loaded,
                   reader, acked>>

\* MemtableSet::freeze, under the write lock.
FreezeStalled(c) ==
    /\ At(c, "freeze")
    /\ Stalled(frozen)
    /\ ReturnErr(c)
    /\ UNCHANGED <<logVars, lakeVars, openVars, memVars, index, reader>>

\* Mutation of FreezeNothing: the flush waits for something to flush.
FreezeNothingWaits(c) ==
    /\ At(c, "freeze")
    /\ ~Stalled(frozen)
    /\ active.rows = {}
    /\ UNCHANGED vars

FreezeNothing(c) ==
    /\ At(c, "freeze")
    /\ ~Stalled(frozen)
    /\ active.rows = {}
    /\ ReturnOk(c)
    /\ UNCHANGED <<logVars, lakeVars, openVars, memVars, index, reader>>

\* Mutation of Freeze: the frozen memtable is handed out but not kept readable.
FreezeUnlisted(c) ==
    /\ At(c, "freeze")
    /\ ~Stalled(frozen)
    /\ active.rows # {}
    /\ held' = [held EXCEPT ![c] = active]
    /\ active' = NewMemtable(active.id + 1)
    /\ Goto(c, "plan")
    /\ UNCHANGED <<logVars, lakeVars, openVars, frozen, index, pending, loaded, reader, acked>>

Freeze(c) ==
    /\ At(c, "freeze")
    /\ ~Stalled(frozen)
    /\ active.rows # {}
    /\ frozen' = frozen \cup {active}
    /\ held' = [held EXCEPT ![c] = active]
    /\ active' = NewMemtable(active.id + 1)
    /\ Goto(c, "plan")
    /\ UNCHANGED <<logVars, lakeVars, openVars, index, pending, loaded, reader, acked>>

\* published_watermark and plan.
PlanFlush(c) ==
    /\ At(c, "plan")
    /\ Goto(c, CASE Plan(PublishedWatermark, held[c]) = "empty" -> "skip_retire"
                 [] Plan(PublishedWatermark, held[c]) = "already_published" -> "skip_truncate"
                 [] OTHER -> "stage")
    /\ UNCHANGED <<logVars, lakeVars, openVars, memVars, index, pending, held, loaded,
                   reader, acked>>

Stage(c) ==
    /\ At(c, "stage")
    /\ StageFile(held[c].max_lsn, held[c].rows)
    /\ Goto(c, "publish")
    /\ UNCHANGED <<logVars, duckdb, catalog, openVars, memVars, index, pending, held,
                   loaded, reader, acked>>

\* Mutation of Publish: the child is spawned and not waited for.
PublishUnawaited(c) ==
    /\ At(c, "publish")
    /\ SpawnPublish([owner |-> c, life |-> crashes, watermark |-> held[c].max_lsn])
    /\ Goto(c, "load_index")
    /\ UNCHANGED <<logVars, staging, catalog, openVars, memVars, index, pending, held,
                   loaded, reader, acked>>

Publish(c) ==
    /\ At(c, "publish")
    /\ SpawnPublish([owner |-> c, life |-> crashes, watermark |-> held[c].max_lsn])
    /\ Goto(c, "waiting")
    /\ UNCHANGED <<logVars, staging, catalog, openVars, memVars, index, pending, held,
                   loaded, reader, acked>>

\* publish_index: load, then the write lock.
LoadIndex(c) ==
    /\ At(c, "load_index")
    /\ loaded' = [loaded EXCEPT ![c] = catalog]
    /\ Goto(c, "store_index")
    /\ UNCHANGED <<logVars, lakeVars, openVars, memVars, index, pending, held, reader, acked>>

\* Mutation of StoreIndex: the index loaded after the publish is dropped.
StoreIndexDropped(c) ==
    /\ At(c, "store_index")
    /\ Goto(c, "truncate")
    /\ UNCHANGED <<logVars, lakeVars, openVars, memVars, index, pending, held, loaded,
                   reader, acked>>

StoreIndex(c) ==
    /\ At(c, "store_index")
    /\ index' = loaded[c]
    /\ Goto(c, "truncate")
    /\ UNCHANGED <<logVars, lakeVars, openVars, memVars, pending, held, loaded, reader, acked>>

\* truncate_wal, on the flush path and on the already-published path.
Truncate(c) ==
    /\ \/ At(c, "truncate") /\ Goto(c, "retire")
       \/ At(c, "skip_truncate") /\ Goto(c, "skip_retire")
    /\ LogTruncate(held[c].max_lsn)
    /\ UNCHANGED <<lakeVars, openVars, memVars, index, pending, held, loaded, reader, acked>>

\* Mutation of Retire: the flushed memtable is not found and stays.
RetireMisses(c) ==
    /\ \/ At(c, "retire") /\ Goto(c, "unstage") /\ UNCHANGED <<pending, held, loaded, acked>>
       \/ At(c, "skip_retire") /\ ReturnOk(c)
    /\ UNCHANGED <<logVars, lakeVars, openVars, memVars, index, reader>>

\* MemtableSet::retire, by identity.  A flush that staged a file has it to remove;
\* the other two paths return.
Retire(c) ==
    /\ \/ At(c, "retire") /\ Goto(c, "unstage") /\ UNCHANGED <<pending, held, loaded, acked>>
       \/ At(c, "skip_retire") /\ ReturnOk(c)
    /\ frozen' = {m \in frozen : m.id # held[c].id}
    /\ UNCHANGED <<logVars, lakeVars, openVars, active, index, reader>>

\* remove_file of the staged file; an error is ignored.
Unstage(c) ==
    /\ At(c, "unstage")
    /\ \/ UnstageFile(held[c].max_lsn)
       \/ Faults \cap {"flush_error", "dropped_call"} # {} /\ UNCHANGED staging
    /\ \/ ReturnOk(c)
       \/ "dropped_call" \in Faults /\ ReturnErr(c)
    /\ UNCHANGED <<logVars, duckdb, catalog, openVars, memVars, index, reader>>

\* Any await of flush_inner fails: `?' returns the error and leaves the frozen
\* memtable where it is.
FlushFail(c) ==
    /\ "flush_error" \in Faults
    /\ At(c, "plan") \/ At(c, "load_index")
    /\ ReturnErr(c)
    /\ UNCHANGED <<logVars, lakeVars, openVars, memVars, index, reader>>

\* stage fails, or is dropped, after File::create has truncated the file.
StageFail(c) ==
    /\ Faults \cap {"flush_error", "dropped_call"} # {}
    /\ At(c, "stage")
    /\ StageFile(held[c].max_lsn, {})
    /\ ReturnErr(c)
    /\ UNCHANGED <<logVars, duckdb, catalog, openVars, memVars, index, reader>>

\* truncate_through fails between two remove_file calls, or its caller is dropped.
TruncateFail(c) ==
    /\ Faults \cap {"flush_error", "dropped_call"} # {}
    /\ At(c, "truncate") \/ At(c, "skip_truncate")
    /\ LogTruncate(held[c].max_lsn)
    /\ ReturnErr(c)
    /\ UNCHANGED <<lakeVars, openVars, memVars, index, reader>>

\* The blocking truncate_through of a dropped call runs on.
LateTruncate ==
    /\ "dropped_call" \in Faults
    /\ mode = "up"
    /\ LogTruncate(covered)
    /\ UNCHANGED <<lakeVars, openVars, memVars, index, callVars, reader, acked>>

\* The caller drops the future of put, delete or flush at an await whose result is
\* not there yet or was not polled: nothing after the await happens, and what was
\* started on another thread or in a child process goes on.
Abandon(c) ==
    /\ "dropped_call" \in Faults
    /\ \E phase \in {"insert", "plan", "stage", "publish", "waiting", "load_index",
                      "store_index", "retire", "skip_retire"} : At(c, phase)
    /\ ReturnErr(c)
    /\ UNCHANGED <<logVars, lakeVars, openVars, memVars, index, reader>>

------------------------------------------------------------------------------
(* The DuckDB child.  It is not killed with the engine or with the future   *)
(* that awaits it: a job of an earlier life, or of a dropped call, may      *)
(* still commit.                                                            *)

\* The call that spawned the job still awaits it.
Waiting(job) ==
    /\ job.life = crashes
    /\ At(job.owner, "waiting")
    /\ job.watermark = held[job.owner].max_lsn

DuckCommit(job) ==
    /\ CommitPublish(job)
    /\ pc' = IF Waiting(job) THEN [pc EXCEPT ![job.owner] = "load_index"] ELSE pc
    /\ UNCHANGED <<logVars, openVars, memVars, index, pending, held, loaded, reader, acked>>

\* The child commits and exits with an error: publish fails, though it took effect.
DuckCommitThenFail(job) ==
    /\ "late_error" \in Faults
    /\ Waiting(job)
    /\ CommitPublish(job)
    /\ ReturnErr(job.owner)
    /\ UNCHANGED <<logVars, openVars, memVars, index, reader>>

DuckFail(job) ==
    /\ duckdb' = duckdb \ {job}
    /\ \/ /\ Waiting(job)
          /\ "flush_error" \in Faults \/ StagedFor(job) = {}
          /\ ReturnErr(job.owner)
       \/ /\ ~Waiting(job)
          /\ UNCHANGED <<callVars, acked>>
    /\ UNCHANGED <<logVars, staging, catalog, openVars, memVars, index, reader>>

------------------------------------------------------------------------------
(* Engine::get.                                                             *)

\* The row tier answers first.  `floor' is the newest LSN acknowledged for the
\* key when the get looks: what it must not miss.
GetRowTier(r, k) ==
    /\ mode = "up"
    /\ reader[r].at = "idle"
    /\ LET hit == RowTierGet(frozen \cup {active}, k)
       IN  reader' = [reader EXCEPT ![r] =
                        [at |-> IF hit = {} THEN k ELSE "done",
                         floor |-> MaxLsnOf(Of(acked, k)), got |-> hit]]
    /\ UNCHANGED <<logVars, lakeVars, openVars, memVars, index, callVars, acked>>

\* A row-tier miss: snapshot the index and read the files it names.
GetColumnar(r) ==
    /\ reader[r].at \in Keys
    /\ LET answers == ColumnarGet(index, reader[r].at)
       IN  \E hit \in IF answers = {} THEN {{}} ELSE {{a} : a \in answers} :
             reader' = [reader EXCEPT ![r].at = "done", ![r].got = hit]
    /\ UNCHANGED <<logVars, lakeVars, openVars, memVars, index, callVars, acked>>

GetReturn(r) ==
    /\ reader[r].at = "done"
    /\ reader' = [reader EXCEPT ![r] = NoRead]
    /\ UNCHANGED <<logVars, lakeVars, openVars, memVars, index, callVars, acked>>

------------------------------------------------------------------------------
(* Crash and Engine::open.                                                  *)

\* The process dies wherever it is: memory and calls in progress are gone.
Crash ==
    /\ mode # "down"
    /\ crashes < MaxCrashes
    /\ crashes' = crashes + 1
    /\ mode' = "down"
    /\ openWm' = 0
    /\ nextLsn' = 1
    /\ active' = NewMemtable(0)
    /\ frozen' = {}
    /\ index' = << >>
    /\ pc' = [c \in Clients |-> "idle"]
    /\ pending' = [c \in Clients |-> {}]
    /\ held' = [c \in Clients |-> NewMemtable(0)]
    /\ loaded' = [c \in Clients |-> << >>]
    /\ reader' = [r \in Readers |-> NoRead]
    /\ LogCrash
    /\ \E alive \in SUBSET duckdb :
          /\ alive # {} => "orphan_publish" \in Faults
          /\ duckdb' = alive
    /\ UNCHANGED <<staging, catalog, acked>>

OpenWatermark ==
    /\ mode = "down"
    /\ mode' = "watermark_read"
    /\ openWm' = PublishedWatermark
    /\ UNCHANGED <<logVars, lakeVars, nextLsn, crashes, memVars, index, callVars, reader, acked>>

\* Mutation of OpenIndex: the index starts empty.
OpenIndexEmpty ==
    /\ mode = "watermark_read"
    /\ mode' = "index_loaded"
    /\ UNCHANGED <<logVars, lakeVars, openWm, nextLsn, crashes, memVars, index, callVars,
                   reader, acked>>

OpenIndex ==
    /\ mode = "watermark_read"
    /\ mode' = "index_loaded"
    /\ index' = catalog
    /\ UNCHANGED <<logVars, lakeVars, openWm, nextLsn, crashes, memVars, callVars, reader, acked>>

\* Mutation of FirstLsn: it clears the WAL only, not the published files.
FirstLsnForgetsLake == LogMaxLsn + 1

\* Mutation of FirstLsn: it leaves a gap.
FirstLsnLeavesGap == Max({LogMaxLsn, openWm}) + 2

\* What next_lsn resumes at: above both the WAL and the published files.
FirstLsn == Max({LogMaxLsn, openWm}) + 1

\* Wal::open, the replay loop and next_lsn.
OpenWal ==
    /\ mode = "index_loaded"
    /\ mode' = "up"
    /\ active' = Replayed(LogReplay(openWm))
    /\ nextLsn' = FirstLsn
    /\ UNCHANGED <<logVars, lakeVars, openWm, crashes, frozen, index, callVars, reader, acked>>

------------------------------------------------------------------------------

Flush(c) ==
    \/ FreezeStalled(c) \/ FreezeNothing(c) \/ Freeze(c) \/ PlanFlush(c) \/ Stage(c)
    \/ Publish(c) \/ LoadIndex(c) \/ StoreIndex(c) \/ Truncate(c) \/ Retire(c) \/ Unstage(c)

FlushFault(c) == FlushFail(c) \/ StageFail(c) \/ TruncateFail(c) \/ Abandon(c)

Write(c) == WalAppend(c) \/ MemInsert(c) \/ CheckFreeze(c)

Next ==
    \/ \E c \in Writers :
          \/ \E k \in Keys, v \in Values \cup {Tombstone} : TakeLsn(c, k, v)
          \/ Write(c)
          \/ WalAppendFail(c)
    \/ \E c \in Flushers : CallFlush(c)
    \/ \E c \in Clients : Flush(c) \/ FlushFault(c)
    \/ \E r \in unsynced : LateAppend(r)
    \/ LateTruncate
    \/ \E job \in duckdb : DuckCommit(job) \/ DuckCommitThenFail(job) \/ DuckFail(job)
    \/ \E r \in Readers :
          \/ \E k \in Keys : GetRowTier(r, k)
          \/ GetColumnar(r)
          \/ GetReturn(r)
    \/ Crash
    \/ OpenWatermark
    \/ OpenIndex
    \/ OpenWal

Spec == Init /\ [][Next]_vars

------------------------------------------------------------------------------
(* What a caller, and a recovery, would read.                               *)

\* Engine::get taken in one step.
Get(k) ==
    LET hit == RowTierGet(frozen \cup {active}, k)
    IN  IF hit # {} THEN hit ELSE ColumnarGet(index, k)

\* Engine::get after a crash here and an undisturbed Engine::open: the replayed
\* suffix of the WAL answers first, then the lake.
Recovered(k) ==
    LET suffix == Of(LogReplay(PublishedWatermark), k)
    IN  IF suffix # {} THEN Winners(suffix) ELSE ColumnarGet(catalog, k)

\* An answer that r, or a later write to its key, accounts for.
Covers(answers, r) == answers # {} /\ \A a \in answers : a.lsn >= r.lsn

\* Records that passed through the WAL, wherever they are now.
MemRows == active.rows \cup UNION {m.rows : m \in frozen}
HeldRows == UNION {held[c].rows : c \in Clients}
StagedRows == UNION {s.rows : s \in staging}
LakeRows == UNION {f.rows : f \in Range(catalog)}
Logged == wal \cup MemRows \cup HeldRows \cup StagedRows \cup LakeRows \cup acked

\* All records there are, those still on their way into the WAL included.
AllRecords == Logged \cup unsynced \cup UNION {pending[c] : c \in Clients}

------------------------------------------------------------------------------
(* Properties of every configuration: any number of writers and flushers,   *)
(* crashes, failed calls and surviving DuckDB processes.                    *)

\* Two records never share an LSN, in whatever level and from whichever life of
\* the process they come: next_lsn clears the WAL and the lake after a restart.
LsnUnique == \A r, s \in AllRecords : r.lsn = s.lsn => r = s

\* Publish before truncate: a record that went through the WAL is still in it
\* or at or below the watermark the lake publishes, at every step of any flush.
TruncateAfterPublish == \A r \in Logged : r \in wal \/ r.lsn <= PublishedWatermark

------------------------------------------------------------------------------
(* Properties of the intended use: one flush and one write at a time.       *)

\* No acknowledged write is lost: if the process died now, the next open would
\* read it or a later write to its key.
Durability == \A r \in acked : Covers(Recovered(r.key), r)

\* No acknowledged write is invisible, not even while its memtable moves from
\* the active slot through the frozen list into the lake.
Visibility == mode = "up" => \A r \in acked : Covers(Get(r.key), r)

\* A get that looked into the row tier, missed, and went on to the files while
\* a flush was retiring a memtable still returns something as new as what had
\* been acknowledged when it started.
ReadsAreFresh ==
    \A r \in Readers : reader[r].at = "done" /\ reader[r].floor > 0 =>
        \E a \in reader[r].got : a.lsn >= reader[r].floor

\* What is readable is what a crash would preserve: outside the window between
\* fsync and insert, memory and durable state answer every key alike.
ReadMatchesRecovery ==
    mode = "up" /\ (\A c \in Clients : pc[c] # "insert") =>
        \A k \in Keys : Get(k) = Recovered(k)

\* Durable, then visible: whatever a get can return, a crash at that instant would
\* not take back, even in the window between fsync and insert and after calls that
\* were dropped half-way.
DurableBeforeVisible ==
    mode = "up" => \A k \in Keys : \A a \in Get(k) : Covers(Recovered(k), a)

\* A record is in at most one lake file: no flush is published twice.
PublishedOnce ==
    \A i, j \in DOMAIN catalog : i # j => catalog[i].rows \cap catalog[j].rows = {}

\* plan's AlreadyPublished is exact: the rows it lets the flush skip are in the
\* lake, or superseded there.
SkipIsSound ==
    \A c \in Clients : pc[c] \in {"skip_truncate", "skip_retire"} =>
        \A r \in held[c].rows : \E s \in Of(LakeRows, r.key) : s.lsn >= r.lsn

\* A frozen memtable is in the hands of a flush that goes on to retire it.  One that
\* is not, published or not, keeps its slot of the frozen list until the process ends,
\* and shadows every later version of its keys that leaves memory before it.
FrozenHasOwner == \A m \in frozen : \E c \in Clients : pc[c] \in FlushPhases /\ held[c] = m

\* Reads are monotonic: while the process is up, what a get answers for a key never
\* becomes older, whichever of two racing writes is inserted last, and wherever a flush
\* is between its freeze, its commit, the new index and its retire.
GetNeverGoesBack ==
    [][mode = "up" /\ mode' = "up" =>
          \A k \in Keys : \A a \in Get(k) : Covers(Get(k)', a)]_vars

\* The index that a flush loads before its write lock is not older than the one it
\* replaces: while two callers flush, no store of one falls between load and store of
\* the other.
IndexNeverRegresses ==
    [][mode = "up" /\ mode' = "up" => Range(index) \subseteq Range(index')]_vars

\* The map a restart would serve: the newest write of each key.
StoredMap ==
    [k \in Keys |->
        IF Recovered(k) = {} THEN [ver |-> 0, val |-> Tombstone]
        ELSE LET a == CHOOSE a \in Recovered(k) : TRUE IN [ver |-> a.lsn, val |-> a.val]]

Promises == [k \in Keys |-> MaxLsnOf(Of(acked, k))]

KV == INSTANCE KvStore WITH kv <- StoredMap, promise <- Promises

\* Flushes, crashes and recoveries are invisible: the engine implements a
\* durable map in which only an fsynced write changes an answer, and never back.
ImplementsKvStore == KV!Spec

------------------------------------------------------------------------------
(* Liveness.  The runtime schedules every ready task, and the catalog and   *)
(* the DuckDB process answer.                                               *)

Fairness ==
    /\ \A c \in Writers : WF_vars(Write(c))
    /\ \A c \in Clients : WF_vars(Flush(c))
    /\ \A c \in Clients : WF_vars(\E job \in duckdb : job.owner = c /\ DuckCommit(job))
    /\ \A r \in Readers : WF_vars(GetColumnar(r))

FairSpec == Spec /\ Fairness

\* Every put, delete and flush returns (or dies with the process), however the
\* other callers' flushes interleave with it.
CallsReturn == \A c \in Clients : pc[c] # "idle" ~> pc[c] = "idle"

\* Backpressure is temporary: a full frozen list gets a free slot again.
StallClears == Stalled(frozen) ~> ~Stalled(frozen)

==============================================================================
