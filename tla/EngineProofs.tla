---------------------------- MODULE EngineProofs -----------------------------
(***************************************************************************)
(* Properties of Engine.tla for any number of keys, values, writers,       *)
(* flushers, readers and crashes, and whatever faults are injected.        *)
(***************************************************************************)
EXTENDS EngineInvariant, RecordProofs

------------------------------------------------------------------------------
(* The watermark of the catalog.                                            *)

\* The published watermark bounds the watermarks of the live files.
LEMMA WatermarkOfFiles ==
    ASSUME catalog \in Seq(File)
    PROVE  /\ PublishedWatermark \in 0 .. MaxLsn
           /\ \A f \in Range(catalog) : f.watermark <= PublishedWatermark
           /\ \/ PublishedWatermark = 0
              \/ \E f \in Range(catalog) : f.watermark = PublishedWatermark
<1> DEFINE S == {0} \cup {f.watermark : f \in Range(catalog)}
<1>1. MaxLsn \in Nat
  BY RecordAssumption
<1>2. Range(catalog) \subseteq File
  BY DEF Range
<1>3. S \in SUBSET (0 .. MaxLsn) /\ S # {}
  BY <1>1, <1>2 DEF File
<1>4. Max(S) \in S /\ \A x \in S : x <= Max(S)
  BY <1>1, <1>3, MaxOfBounded
<1>5. PublishedWatermark = Max(S)
  BY DEF PublishedWatermark
<1> HIDE DEF S
<1>6. PublishedWatermark \in S /\ \A x \in S : x <= PublishedWatermark
  BY <1>4, <1>5
<1> QED
  BY <1>3, <1>6 DEF S

------------------------------------------------------------------------------
(* What the operators on memtables and files return.                        *)

\* Memtable::insert leaves a memtable.
LEMMA InsertType ==
    ASSUME NEW mt \in Memtable, NEW r \in Record
    PROVE  Insert(mt, r) \in Memtable
<1>1. (mt.rows \ Of(mt.rows, r.key)) \cup {r} \in SUBSET Record
  BY DEF Memtable, Of
<1>2. mt.bytes + 1 \in Nat /\ r.lsn \in 0 .. MaxLsn
  BY RecordAssumption DEF Memtable, Record, Lsn
<1> QED
  BY <1>1, <1>2 DEF Insert, Memtable

\* The replay of a finite log leaves a memtable.
LEMMA ReplayedType ==
    ASSUME NEW R \in SUBSET Record, IsFiniteSet(R)
    PROVE  Replayed(R) \in Memtable
<1>1. Cardinality(R) \in Nat
  BY FS_CardinalityType
<1>2. Winners(R) \in SUBSET Record
  BY DEF Winners
<1>3. MaxLsnOf(R) \in 0 .. MaxLsn
  BY MaxLsnOfRecords
<1> QED
  BY <1>1, <1>2, <1>3 DEF Replayed, Memtable

\* A row-tier lookup returns records of the memtables.
LEMMA RowTierGetType ==
    ASSUME NEW tables \in SUBSET Memtable, NEW k
    PROVE  RowTierGet(tables, k) \in SUBSET Record
<1> SUFFICES ASSUME NEW a \in RowTierGet(tables, k) PROVE a \in Record
  OBVIOUS
<1>1. PICK m \in tables : a \in Of(m.rows, k)
  BY DEF RowTierGet
<1> QED
  BY <1>1 DEF Of, Memtable

\* A columnar lookup returns rows of the files.
LEMMA ColumnarGetType ==
    ASSUME NEW ix \in Seq(File), NEW k
    PROVE  ColumnarGet(ix, k) \in SUBSET Record
<1> SUFFICES ASSUME NEW a \in ColumnarGet(ix, k) PROVE a \in Record
  OBVIOUS
<1>1. PICK f \in Range(ix) : a \in Of(f.rows, k)
  BY DEF ColumnarGet
<1>2. f \in File
  BY DEF Range
<1> QED
  BY <1>1, <1>2 DEF Of, File

------------------------------------------------------------------------------
(* Type correctness.                                                        *)

\* A call that returns leaves the call variables well typed.
LEMMA ReturnType ==
    ASSUME TypeOK, NEW c \in Clients, Return(c)
    PROVE  /\ pc' \in [Clients -> Phases]
           /\ pending' \in [Clients -> SUBSET Record]
           /\ held' \in [Clients -> Memtable]
           /\ loaded' \in [Clients -> Seq(File)]
<1>1. NewMemtable(0) \in Memtable
  BY RecordAssumption DEF NewMemtable, Memtable
<1>2. << >> \in Seq(File)
  OBVIOUS
<1> QED
  BY <1>1, <1>2 DEF Return, Goto, TypeOK, Phases

\* The two ways a call returns keep acked a set of records.
LEMMA AckType ==
    ASSUME TypeOK, NEW c \in Clients, ReturnOk(c) \/ ReturnErr(c)
    PROVE  acked' \subseteq Record /\ Return(c)
BY DEF TypeOK, ReturnOk, ReturnErr

\* The steps that touch only the log, memory and the call variables.
LEMMA WriteTypeStep ==
    ASSUME TypeOK, FiniteLog, NEW c \in Writers,
           \/ \E k \in Keys, v \in Values \cup {Tombstone} : TakeLsn(c, k, v)
           \/ Write(c)
           \/ WalAppendFail(c)
    PROVE  TypeOK' /\ FiniteLog'
<1> USE RecordAssumption
<1>0. c \in Clients
  BY DEF Clients
<1>1. CASE \E k \in Keys, v \in Values \cup {Tombstone} : TakeLsn(c, k, v)
  <2>1. PICK k \in Keys, v \in Values \cup {Tombstone} : TakeLsn(c, k, v)
    BY <1>1
  <2>2. nextLsn \in Lsn /\ nextLsn' \in 1 .. MaxLsn + 1
    BY <2>1 DEF TypeOK, TakeLsn, Lsn
  <2>3. [key |-> k, lsn |-> nextLsn, val |-> v] \in Record
    BY <2>2 DEF Record
  <2>4. pending' \in [Clients -> SUBSET Record] /\ pc' \in [Clients -> Phases]
    BY <1>0, <2>1, <2>3 DEF TypeOK, TakeLsn, Goto, Phases
  <2> QED
    BY <2>1, <2>2, <2>4 DEF TypeOK, TakeLsn, LogTypeOK, FiniteLog, logVars, lakeVars, memVars
<1>2. CASE WalAppend(c)
  <2>1. PICK r \in pending[c] : LogAppend(r)
    BY <1>2 DEF WalAppend
  <2>2. r \in Record
    BY <1>0 DEF TypeOK
  <2>3. LogTypeOK'
    BY <2>1, <2>2 DEF TypeOK, LogTypeOK, LogAppend
  <2>4. FiniteLog'
    <3>1. IsFiniteSet(wal \cup {r})
      BY FS_AddElement DEF FiniteLog
    <3>2. IsFiniteSet(unsynced \ {r})
      BY FS_RemoveElement DEF FiniteLog
    <3> QED BY <2>1, <3>1, <3>2 DEF LogAppend, FiniteLog
  <2>5. pc' \in [Clients -> Phases]
    BY <1>0, <1>2 DEF TypeOK, WalAppend, Goto, Phases
  <2> QED
    BY <1>2, <2>3, <2>4, <2>5 DEF TypeOK, WalAppend, lakeVars, openVars, memVars
<1>3. CASE WalAppendFail(c)
  <2>1. PICK r \in pending[c] : LogAppendFail(r)
    BY <1>3 DEF WalAppendFail
  <2>2. r \in Record
    BY <1>0 DEF TypeOK
  <2>3. LogTypeOK'
    BY <2>1, <2>2 DEF TypeOK, LogTypeOK, LogAppendFail
  <2>4. FiniteLog'
    <3>1. IsFiniteSet(unsynced \cup {r})
      BY FS_AddElement DEF FiniteLog
    <3> QED BY <2>1, <3>1 DEF LogAppendFail, FiniteLog
  <2>5. ReturnErr(c)
    BY <1>3 DEF WalAppendFail
  <2> QED
    BY <1>0, <1>3, <2>3, <2>4, <2>5, ReturnType, AckType
    DEF TypeOK, WalAppendFail, lakeVars, openVars, memVars
<1>4. CASE MemInsert(c)
  <2>1. PICK r \in pending[c] : active' = Insert(active, r)
    BY <1>4 DEF MemInsert
  <2>2. r \in Record /\ active \in Memtable
    BY <1>0 DEF TypeOK
  <2>3. active' \in Memtable
    BY <2>1, <2>2, InsertType
  <2>4. pc' \in [Clients -> Phases]
    BY <1>0, <1>4 DEF TypeOK, MemInsert, Goto, Phases
  <2> QED
    BY <1>4, <2>3, <2>4 DEF TypeOK, MemInsert, FiniteLog, LogTypeOK, logVars, lakeVars, openVars
<1>5. CASE CheckFreeze(c)
  <2>1. CASE ReturnOk(c)
    BY <1>0, <1>5, <2>1, ReturnType, AckType
    DEF TypeOK, CheckFreeze, FiniteLog, LogTypeOK, logVars, lakeVars, openVars, memVars
  <2>2. CASE Goto(c, "freeze") /\ UNCHANGED <<pending, held, loaded, acked>>
    <3>1. pc' \in [Clients -> Phases]
      BY <1>0, <2>2 DEF TypeOK, Goto, Phases
    <3> QED
      BY <1>5, <2>2, <3>1
      DEF TypeOK, CheckFreeze, FiniteLog, LogTypeOK, logVars, lakeVars, openVars, memVars
  <2> QED BY <1>5, <2>1, <2>2 DEF CheckFreeze
<1> QED
  BY <1>1, <1>2, <1>3, <1>4, <1>5 DEF Write

\* An append becomes durable with nothing waiting for it.
LEMMA LateAppendType ==
    ASSUME TypeOK, FiniteLog, NEW r \in unsynced, LateAppend(r)
    PROVE  TypeOK' /\ FiniteLog'
<1>1. wal' = wal \cup {r} /\ unsynced' = unsynced \ {r} /\ covered' = covered
  BY DEF LateAppend, LogAppend
<1>2. LogTypeOK'
  BY <1>1 DEF TypeOK, LogTypeOK
<1>3. IsFiniteSet(wal \cup {r}) /\ IsFiniteSet(unsynced \ {r})
  BY FS_AddElement, FS_RemoveElement DEF FiniteLog
<1> QED
  BY <1>1, <1>2, <1>3 DEF LateAppend, TypeOK, FiniteLog, lakeVars, openVars, memVars, callVars

\* Truncating the log leaves it a finite set of records.
LEMMA TruncateType ==
    ASSUME TypeOK, FiniteLog, NEW w \in 0 .. MaxLsn, LogTruncate(w)
    PROVE  LogTypeOK' /\ FiniteLog'
<1>1. PICK gone \in SUBSET {r \in wal : r.lsn <= w} : wal' = wal \ gone
  BY DEF LogTruncate
<1>2. IsFiniteSet(wal \ gone)
  BY FS_Subset DEF FiniteLog
<1>3. covered' \in 0 .. MaxLsn
  BY DEF LogTruncate, TypeOK, LogTypeOK
<1> QED
  BY <1>1, <1>2, <1>3 DEF LogTruncate, TypeOK, LogTypeOK, FiniteLog

\* A truncation runs on with nothing waiting for it.
LEMMA LateTruncateType ==
    ASSUME TypeOK, FiniteLog, LateTruncate
    PROVE  TypeOK' /\ FiniteLog'
<1>1. covered \in 0 .. MaxLsn
  BY DEF TypeOK, LogTypeOK
<1>2. LogTypeOK' /\ FiniteLog'
  BY <1>1, TruncateType DEF LateTruncate
<1> QED
  BY <1>2 DEF LateTruncate, TypeOK, lakeVars, openVars, memVars, callVars

\* The steps of flush_inner and of its error paths.
LEMMA FlushTypeStep ==
    ASSUME TypeOK, FiniteLog, NEW c \in Clients,
           Flush(c) \/ FlushFault(c) \/ CallFlush(c)
    PROVE  TypeOK' /\ FiniteLog'
<1> USE RecordAssumption
<1>0. /\ held[c] \in Memtable
      /\ held[c].rows \subseteq Record
      /\ held[c].max_lsn \in 0 .. MaxLsn
      /\ crashes \in 0 .. MaxCrashes
  BY DEF TypeOK, Memtable
<1>1. CASE FreezeStalled(c)
  <2>1. ReturnOk(c) \/ ReturnErr(c)
    BY <1>1 DEF FreezeStalled
  <2> QED
    BY <1>1, <2>1, ReturnType, AckType
    DEF TypeOK, FreezeStalled, FiniteLog, LogTypeOK, logVars, lakeVars, openVars, memVars
<1>2. CASE FreezeNothing(c)
  <2>1. ReturnOk(c) \/ ReturnErr(c)
    BY <1>2 DEF FreezeNothing
  <2> QED
    BY <1>2, <2>1, ReturnType, AckType
    DEF TypeOK, FreezeNothing, FiniteLog, LogTypeOK, logVars, lakeVars, openVars, memVars
<1>3. CASE Freeze(c)
  <2>1. active' \in Memtable /\ frozen' \subseteq Memtable
    BY <1>3 DEF TypeOK, Freeze, Memtable, NewMemtable
  <2>2. held' \in [Clients -> Memtable] /\ pc' \in [Clients -> Phases]
    BY <1>3 DEF TypeOK, Freeze, Goto, Phases, FlushPhases
  <2> QED
    BY <1>3, <2>1, <2>2 DEF TypeOK, Freeze, FiniteLog, LogTypeOK, logVars, lakeVars, openVars, memVars
<1>4. CASE PlanFlush(c)
  <2>1. pc' \in [Clients -> Phases]
    BY <1>4 DEF TypeOK, PlanFlush, Goto, Phases, FlushPhases
  <2> QED
    BY <1>4, <2>1 DEF TypeOK, PlanFlush, FiniteLog, LogTypeOK, logVars, lakeVars, openVars, memVars
<1>5. CASE Stage(c)
  <2>1. staging' \subseteq File
    BY <1>0, <1>5 DEF TypeOK, Stage, StageFile, File
  <2>2. pc' \in [Clients -> Phases]
    BY <1>5 DEF TypeOK, Stage, Goto, Phases, FlushPhases
  <2> QED
    BY <1>5, <2>1, <2>2 DEF TypeOK, Stage, FiniteLog, LogTypeOK, logVars, lakeVars, openVars, memVars
<1>6. CASE Publish(c)
  <2>1. duckdb' \subseteq [owner : Clients, life : 0 .. MaxCrashes, watermark : 0 .. MaxLsn]
    BY <1>0, <1>6 DEF TypeOK, Publish, SpawnPublish
  <2>2. pc' \in [Clients -> Phases]
    BY <1>6 DEF TypeOK, Publish, Goto, Phases, FlushPhases
  <2> QED
    BY <1>6, <2>1, <2>2 DEF TypeOK, Publish, FiniteLog, LogTypeOK, logVars, lakeVars, openVars, memVars
<1>7. CASE LoadIndex(c)
  <2>1. loaded' \in [Clients -> Seq(File)] /\ pc' \in [Clients -> Phases]
    BY <1>7 DEF TypeOK, LoadIndex, Goto, Phases, FlushPhases
  <2> QED
    BY <1>7, <2>1 DEF TypeOK, LoadIndex, FiniteLog, LogTypeOK, logVars, lakeVars, openVars, memVars
<1>8. CASE StoreIndex(c)
  <2>1. index' \in Seq(File) /\ pc' \in [Clients -> Phases]
    BY <1>8 DEF TypeOK, StoreIndex, Goto, Phases, FlushPhases
  <2> QED
    BY <1>8, <2>1 DEF TypeOK, StoreIndex, FiniteLog, LogTypeOK, logVars, lakeVars, openVars, memVars
<1>9. CASE Truncate(c)
  <2>1. LogTypeOK' /\ FiniteLog'
    BY <1>0, <1>9, TruncateType DEF Truncate
  <2>2. pc' \in [Clients -> Phases]
    BY <1>9 DEF TypeOK, Truncate, Goto, Phases, FlushPhases
  <2> QED
    BY <1>9, <2>1, <2>2 DEF TypeOK, Truncate, lakeVars, openVars, memVars
<1>10. CASE Retire(c)
  <2>1. frozen' \subseteq Memtable
    BY <1>10 DEF TypeOK, Retire
  <2>2. CASE ReturnOk(c)
    BY <1>10, <2>1, <2>2, ReturnType, AckType
    DEF TypeOK, Retire, FiniteLog, LogTypeOK, logVars, lakeVars, openVars, memVars
  <2>3. CASE Goto(c, "unstage") /\ UNCHANGED <<pending, held, loaded, acked>>
    <3>1. pc' \in [Clients -> Phases]
      BY <2>3 DEF TypeOK, Goto, Phases, FlushPhases
    <3> QED
      BY <1>10, <2>1, <2>3, <3>1
      DEF TypeOK, Retire, FiniteLog, LogTypeOK, logVars, lakeVars, openVars, memVars
  <2> QED BY <1>10, <2>2, <2>3 DEF Retire
<1>15. CASE Unstage(c)
  <2>1. ReturnOk(c) \/ ReturnErr(c)
    BY <1>15 DEF Unstage
  <2>2. staging' \subseteq File
    BY <1>15 DEF TypeOK, Unstage, UnstageFile
  <2> QED
    BY <1>15, <2>1, <2>2, ReturnType, AckType
    DEF TypeOK, Unstage, FiniteLog, LogTypeOK, logVars, lakeVars, openVars, memVars
<1>11. CASE FlushFail(c)
  <2>1. ReturnOk(c) \/ ReturnErr(c)
    BY <1>11 DEF FlushFail
  <2> QED
    BY <1>11, <2>1, ReturnType, AckType
    DEF TypeOK, FlushFail, FiniteLog, LogTypeOK, logVars, lakeVars, openVars, memVars
<1>16. CASE Abandon(c)
  <2>1. ReturnErr(c)
    BY <1>16 DEF Abandon
  <2> QED
    BY <1>16, <2>1, ReturnType, AckType
    DEF TypeOK, Abandon, FiniteLog, LogTypeOK, logVars, lakeVars, openVars, memVars
<1>12. CASE StageFail(c)
  <2>1. ReturnErr(c)
    BY <1>12 DEF StageFail
  <2>2. staging' \subseteq File
    BY <1>0, <1>12 DEF TypeOK, StageFail, StageFile, File
  <2> QED
    BY <1>12, <2>1, <2>2, ReturnType, AckType
    DEF TypeOK, StageFail, FiniteLog, LogTypeOK, logVars, lakeVars, openVars, memVars
<1>13. CASE TruncateFail(c)
  <2>1. LogTypeOK' /\ FiniteLog'
    BY <1>0, <1>13, TruncateType DEF TruncateFail
  <2>2. ReturnErr(c)
    BY <1>13 DEF TruncateFail
  <2> QED
    BY <1>13, <2>1, <2>2, ReturnType, AckType
    DEF TypeOK, TruncateFail, lakeVars, openVars, memVars
<1>14. CASE CallFlush(c)
  <2>1. pc' \in [Clients -> Phases]
    BY <1>14 DEF TypeOK, CallFlush, Goto, Phases, FlushPhases
  <2> QED
    BY <1>14, <2>1 DEF TypeOK, CallFlush, FiniteLog, LogTypeOK, logVars, lakeVars, openVars, memVars
<1> QED
  BY <1>1, <1>2, <1>3, <1>4, <1>5, <1>6, <1>7, <1>8, <1>9, <1>10, <1>11, <1>12, <1>13, <1>14, <1>15,
     <1>16
  DEF Flush, FlushFault

\* A commit appends a file of records, and takes the job away.
LEMMA CommitType ==
    ASSUME TypeOK, NEW job \in duckdb, CommitPublish(job)
    PROVE  /\ catalog' \in Seq(File)
           /\ staging' \subseteq File
           /\ duckdb' \subseteq [owner : Clients, life : 0 .. MaxCrashes, watermark : 0 .. MaxLsn]
<1>1. PICK s \in StagedFor(job) :
          catalog' = Append(catalog, [rows |-> s.rows, watermark |-> MaxLsnOf(s.rows)])
  BY DEF CommitPublish
<1>2. s.rows \in SUBSET Record
  BY DEF StagedFor, TypeOK, File
<1>3. [rows |-> s.rows, watermark |-> MaxLsnOf(s.rows)] \in File
  BY <1>2, MaxLsnOfRecords DEF File
<1>4. catalog' \in Seq(File)
  BY <1>1, <1>3 DEF TypeOK
<1> QED
  BY <1>4 DEF TypeOK, CommitPublish

\* The steps of the DuckDB child.
LEMMA DuckTypeStep ==
    ASSUME TypeOK, FiniteLog, NEW job \in duckdb,
           DuckCommit(job) \/ DuckCommitThenFail(job) \/ DuckFail(job)
    PROVE  TypeOK' /\ FiniteLog'
<1>0. job.owner \in Clients
  BY DEF TypeOK
<1>1. CASE DuckCommit(job)
  <2>1. /\ catalog' \in Seq(File)
        /\ staging' \subseteq File
        /\ duckdb' \subseteq [owner : Clients, life : 0 .. MaxCrashes, watermark : 0 .. MaxLsn]
    BY <1>1, CommitType DEF DuckCommit
  <2>2. pc' \in [Clients -> Phases]
    BY <1>0, <1>1 DEF TypeOK, DuckCommit, Phases, FlushPhases
  <2> QED
    BY <1>1, <2>1, <2>2
    DEF TypeOK, DuckCommit, FiniteLog, LogTypeOK, logVars, openVars, memVars
<1>3. CASE DuckCommitThenFail(job)
  <2>1. /\ catalog' \in Seq(File)
        /\ staging' \subseteq File
        /\ duckdb' \subseteq [owner : Clients, life : 0 .. MaxCrashes, watermark : 0 .. MaxLsn]
    BY <1>3, CommitType DEF DuckCommitThenFail
  <2>2. ReturnErr(job.owner)
    BY <1>3 DEF DuckCommitThenFail
  <2> QED
    BY <1>0, <1>3, <2>1, <2>2, ReturnType, AckType
    DEF TypeOK, DuckCommitThenFail, FiniteLog, LogTypeOK, logVars, openVars, memVars
<1>2. CASE DuckFail(job)
  <2>1. duckdb' \subseteq [owner : Clients, life : 0 .. MaxCrashes, watermark : 0 .. MaxLsn]
    BY <1>2 DEF TypeOK, DuckFail
  <2>2. CASE ReturnErr(job.owner)
    BY <1>0, <1>2, <2>1, <2>2, ReturnType, AckType
    DEF TypeOK, DuckFail, FiniteLog, LogTypeOK, logVars, openVars, memVars
  <2>3. CASE UNCHANGED <<callVars, acked>>
    BY <1>2, <2>1, <2>3
    DEF TypeOK, DuckFail, FiniteLog, LogTypeOK, logVars, openVars, memVars, callVars
  <2> QED BY <1>2, <2>2, <2>3 DEF DuckFail
<1> QED
  BY <1>1, <1>2, <1>3

\* The steps of a get.
LEMMA ReadTypeStep ==
    ASSUME TypeOK, FiniteLog, NEW r \in Readers,
           \/ \E k \in Keys : GetRowTier(r, k)
           \/ GetColumnar(r)
           \/ GetReturn(r)
    PROVE  TypeOK' /\ FiniteLog'
<1> USE RecordAssumption
<1> DEFINE Read == [at : {"idle"} \cup Keys \cup {"done"}, floor : 0 .. MaxLsn,
                    got : SUBSET Record]
<1>0. reader \in [Readers -> Read]
  BY DEF TypeOK
<1>1. CASE \E k \in Keys : GetRowTier(r, k)
  <2>1. PICK k \in Keys : GetRowTier(r, k)
    BY <1>1
  <2> DEFINE hit == RowTierGet(frozen \cup {active}, k)
  <2>2. hit \in SUBSET Record
    <3>1. frozen \cup {active} \in SUBSET Memtable
      BY DEF TypeOK
    <3> QED BY <3>1, RowTierGetType
  <2>3. MaxLsnOf(Of(acked, k)) \in 0 .. MaxLsn
    <3>1. Of(acked, k) \in SUBSET Record
      BY DEF TypeOK, Of
    <3> QED BY <3>1, MaxLsnOfRecords
  <2>4. reader' = [reader EXCEPT ![r] = [at |-> IF hit = {} THEN k ELSE "done",
                                         floor |-> MaxLsnOf(Of(acked, k)), got |-> hit]]
    BY <2>1 DEF GetRowTier
  <2> HIDE DEF hit
  <2>5. reader' \in [Readers -> Read]
    BY <1>0, <2>2, <2>3, <2>4
  <2> QED
    BY <2>1, <2>5
    DEF TypeOK, GetRowTier, FiniteLog, LogTypeOK, logVars, lakeVars, openVars, memVars, callVars
<1>2. CASE GetColumnar(r)
  <2> DEFINE answers == ColumnarGet(index, reader[r].at)
  <2>1. answers \in SUBSET Record
    BY ColumnarGetType DEF TypeOK
  <2>2. PICK hit \in IF answers = {} THEN {{}} ELSE {{a} : a \in answers} :
            reader' = [reader EXCEPT ![r].at = "done", ![r].got = hit]
    BY <1>2 DEF GetColumnar
  <2>3. hit \in SUBSET Record
    BY <2>1, <2>2
  <2>4. reader' \in [Readers -> Read]
    BY <1>0, <2>2, <2>3
  <2> QED
    BY <1>2, <2>4
    DEF TypeOK, GetColumnar, FiniteLog, LogTypeOK, logVars, lakeVars, openVars, memVars, callVars
<1>3. CASE GetReturn(r)
  <2>1. reader' \in [Readers -> Read]
    BY <1>0, <1>3 DEF GetReturn, NoRead
  <2> QED
    BY <1>3, <2>1
    DEF TypeOK, GetReturn, FiniteLog, LogTypeOK, logVars, lakeVars, openVars, memVars, callVars
<1> QED
  BY <1>1, <1>2, <1>3

\* The process dies, or Engine::open takes a step.
LEMMA RestartTypeStep ==
    ASSUME TypeOK, FiniteLog, Crash \/ OpenWatermark \/ OpenIndex \/ OpenWal
    PROVE  TypeOK' /\ FiniteLog'
<1> USE RecordAssumption
<1>1. CASE Crash
  <2>1. PICK late \in SUBSET unsynced : wal' = wal \cup late
    BY <1>1 DEF Crash, LogCrash
  <2>2. LogTypeOK'
    BY <1>1, <2>1 DEF Crash, LogCrash, TypeOK, LogTypeOK
  <2>3. FiniteLog'
    <3>1. IsFiniteSet(late)
      BY FS_Subset DEF FiniteLog
    <3>2. IsFiniteSet(wal \cup late)
      BY <3>1, FS_Union DEF FiniteLog
    <3> QED BY <1>1, <2>1, <3>2, FS_EmptySet DEF Crash, LogCrash, FiniteLog
  <2>4. NewMemtable(0) \in Memtable /\ << >> \in Seq(File) /\ NoRead.got \in SUBSET Record
    BY DEF NewMemtable, Memtable, NoRead
  <2>5. /\ active' \in Memtable /\ frozen' \subseteq Memtable /\ index' \in Seq(File)
        /\ pc' \in [Clients -> Phases] /\ pending' \in [Clients -> SUBSET Record]
        /\ held' \in [Clients -> Memtable] /\ loaded' \in [Clients -> Seq(File)]
    BY <1>1, <2>4 DEF Crash, Phases
  <2>6. reader' \in [Readers -> [at : {"idle"} \cup Keys \cup {"done"},
                                 floor : 0 .. MaxLsn, got : SUBSET Record]]
    BY <1>1 DEF Crash, NoRead
  <2>7. crashes' \in 0 .. MaxCrashes /\ nextLsn' \in 1 .. MaxLsn + 1 /\ openWm' \in 0 .. MaxLsn
    BY <1>1, EngineAssumption DEF Crash, TypeOK
  <2>8. duckdb' \subseteq [owner : Clients, life : 0 .. MaxCrashes, watermark : 0 .. MaxLsn]
    BY <1>1 DEF Crash, TypeOK
  <2> QED
    BY <1>1, <2>2, <2>3, <2>5, <2>6, <2>7, <2>8 DEF TypeOK, Crash
<1>2. CASE OpenWatermark
  <2>1. openWm' \in 0 .. MaxLsn
    BY <1>2, WatermarkOfFiles DEF OpenWatermark, TypeOK
  <2> QED
    BY <1>2, <2>1
    DEF TypeOK, OpenWatermark, FiniteLog, LogTypeOK, logVars, lakeVars, memVars, callVars
<1>3. CASE OpenIndex
  BY <1>3 DEF TypeOK, OpenIndex, FiniteLog, LogTypeOK, logVars, lakeVars, memVars, callVars
<1>4. CASE OpenWal
  <2>1. LogReplay(openWm) \in SUBSET Record /\ IsFiniteSet(LogReplay(openWm))
    BY FS_Subset DEF LogReplay, TypeOK, LogTypeOK, FiniteLog
  <2>2. active' \in Memtable
    BY <1>4, <2>1, ReplayedType DEF OpenWal
  <2>3. LogMaxLsn \in 0 .. MaxLsn /\ openWm \in 0 .. MaxLsn
    BY MaxLsnOfRecords DEF LogMaxLsn, TypeOK, LogTypeOK
  <2>4. Max({LogMaxLsn, openWm}) \in 0 .. MaxLsn
    BY <2>3, MaxOfBounded
  <2>5. nextLsn' \in 1 .. MaxLsn + 1
    BY <1>4, <2>4 DEF OpenWal, FirstLsn
  <2> QED
    BY <1>4, <2>2, <2>5
    DEF TypeOK, OpenWal, FiniteLog, LogTypeOK, logVars, lakeVars, memVars, callVars
<1> QED
  BY <1>1, <1>2, <1>3, <1>4

\* The initial state, in which the engine was never opened, is well typed.
LEMMA TypeInit == Init => TypeOK /\ FiniteLog
<1> SUFFICES ASSUME Init PROVE TypeOK /\ FiniteLog
  OBVIOUS
<1> USE RecordAssumption, EngineAssumption
<1>1. NewMemtable(0) \in Memtable /\ << >> \in Seq(File)
  BY DEF NewMemtable, Memtable
<1>2. /\ active \in Memtable /\ frozen \subseteq Memtable /\ index \in Seq(File)
      /\ pc \in [Clients -> Phases] /\ pending \in [Clients -> SUBSET Record]
      /\ held \in [Clients -> Memtable] /\ loaded \in [Clients -> Seq(File)]
  BY <1>1 DEF Init, Phases
<1>3. reader \in [Readers -> [at : {"idle"} \cup Keys \cup {"done"},
                              floor : 0 .. MaxLsn, got : SUBSET Record]]
  BY DEF Init, NoRead
<1>4. crashes \in 0 .. MaxCrashes /\ nextLsn \in 1 .. MaxLsn + 1 /\ openWm \in 0 .. MaxLsn
  BY DEF Init
<1>5. LogTypeOK /\ FiniteLog
  BY FS_EmptySet DEF Init, LogInit, LogTypeOK, FiniteLog
<1> QED
  BY <1>1, <1>2, <1>3, <1>4, <1>5 DEF Init, LakeInit, TypeOK

\* Every step preserves the type invariant and the finiteness of the log.
LEMMA TypeStep == TypeOK /\ FiniteLog /\ [Next]_vars => TypeOK' /\ FiniteLog'
<1> SUFFICES ASSUME TypeOK, FiniteLog, [Next]_vars PROVE TypeOK' /\ FiniteLog'
  OBVIOUS
<1>1. CASE UNCHANGED vars
  BY <1>1 DEF vars, TypeOK, FiniteLog, LogTypeOK, logVars, lakeVars, openVars, memVars, callVars
<1>2. CASE Next
  <2>1. CASE \E c \in Writers : \/ \E k \in Keys, v \in Values \cup {Tombstone} : TakeLsn(c, k, v)
                               \/ Write(c)
                               \/ WalAppendFail(c)
    BY <2>1, WriteTypeStep
  <2>2. CASE \E c \in Clients : Flush(c) \/ FlushFault(c) \/ CallFlush(c)
    BY <2>2, FlushTypeStep
  <2>3. CASE \E job \in duckdb : DuckCommit(job) \/ DuckCommitThenFail(job) \/ DuckFail(job)
    BY <2>3, DuckTypeStep
  <2>6. CASE (\E r \in unsynced : LateAppend(r)) \/ LateTruncate
    BY <2>6, LateAppendType, LateTruncateType
  <2>4. CASE \E r \in Readers : \/ \E k \in Keys : GetRowTier(r, k)
                               \/ GetColumnar(r)
                               \/ GetReturn(r)
    BY <2>4, ReadTypeStep
  <2>5. CASE Crash \/ OpenWatermark \/ OpenIndex \/ OpenWal
    BY <2>5, RestartTypeStep
  <2> QED
    BY <1>2, <2>1, <2>2, <2>3, <2>4, <2>5, <2>6 DEF Next, Clients
<1> QED
  BY <1>1, <1>2

\* Type correctness: in every behaviour of the engine, with any callers and
\* faults, every level holds records with LSNs in range, and the log is finite.
THEOREM TypeCorrect == Spec => [](TypeOK /\ FiniteLog)
  BY TypeInit, TypeStep, PTL DEF Spec

------------------------------------------------------------------------------
(* The inductive invariant: general facts.                                  *)

\* Where a logged record can be.
LEMMA InLogged ==
    \A r : r \in Logged <=>
        \/ r \in wal
        \/ r \in active.rows
        \/ \E m \in frozen : r \in m.rows
        \/ \E c \in Clients : r \in held[c].rows
        \/ \E s \in staging : r \in s.rows
        \/ \E f \in Range(catalog) : r \in f.rows
        \/ r \in acked
BY DEF Logged, MemRows, HeldRows, StagedRows, LakeRows

\* Where any record can be.
LEMMA InAllRecords ==
    \A r : r \in AllRecords <=>
        r \in Logged \/ r \in unsynced \/ \E c \in Clients : r \in pending[c]
BY DEF AllRecords

\* The same, in the next state.
LEMMA InLoggedNext ==
    \A r : r \in Logged' <=>
        \/ r \in wal'
        \/ r \in active'.rows
        \/ \E m \in frozen' : r \in m.rows
        \/ \E c \in Clients : r \in held'[c].rows
        \/ \E s \in staging' : r \in s.rows
        \/ \E f \in Range(catalog') : r \in f.rows
        \/ r \in acked'
BY DEF Logged, MemRows, HeldRows, StagedRows, LakeRows

\* And for all records.
LEMMA InAllRecordsNext ==
    \A r : r \in AllRecords' <=>
        r \in Logged' \/ r \in unsynced' \/ \E c \in Clients : r \in pending'[c]
BY DEF AllRecords

\* Every record anywhere is a record with an LSN in range.
LEMMA AllRecordsTyped ==
    ASSUME TypeOK
    PROVE  AllRecords \subseteq Record /\ \A r \in Record : r.lsn \in Nat
<1> SUFFICES ASSUME NEW r, r \in AllRecords PROVE r \in Record
  BY RecordAssumption DEF Record, Lsn
<1>1. CASE r \in Logged
  <2>1. Range(catalog) \subseteq File
    BY DEF TypeOK, Range
  <2>2. CASE \E f \in Range(catalog) : r \in f.rows
    BY <2>1, <2>2 DEF File
  <2>3. CASE \E x \in staging : r \in x.rows
    BY <2>3 DEF TypeOK, File
  <2>4. CASE r \in active.rows \/ (\E m \in frozen : r \in m.rows)
             \/ (\E d \in Clients : r \in held[d].rows)
    BY <2>4 DEF TypeOK, Memtable
  <2>5. CASE r \in wal \/ r \in acked
    BY <2>5 DEF TypeOK, LogTypeOK
  <2> QED BY <1>1, <2>2, <2>3, <2>4, <2>5, InLogged
<1>2. CASE r \in unsynced \/ \E d \in Clients : r \in pending[d]
  BY <1>2 DEF TypeOK, LogTypeOK
<1> QED
  BY <1>1, <1>2, InAllRecords

\* Offering a record to a memtable keeps max_lsn exact and adds no other record.
LEMMA InsertExact ==
    ASSUME NEW mt \in Memtable, NEW r \in Record, Exact(mt.rows, mt.max_lsn)
    PROVE  /\ Exact(Insert(mt, r).rows, Insert(mt, r).max_lsn)
           /\ \A s \in Insert(mt, r).rows : s \in mt.rows \/ s = r
<1> DEFINE new == Insert(mt, r)
<1>1. /\ new.rows = IF \E s \in Of(mt.rows, r.key) : s.lsn >= r.lsn
                    THEN mt.rows
                    ELSE (mt.rows \ Of(mt.rows, r.key)) \cup {r}
      /\ new.max_lsn = IF r.lsn > mt.max_lsn THEN r.lsn ELSE mt.max_lsn
  BY DEF Insert, Memtable
<1>2. /\ r.lsn \in Nat \ {0} /\ mt.max_lsn \in Nat
      /\ \A s \in mt.rows : s.lsn \in Nat
  BY RecordAssumption DEF Memtable, Record, Lsn
<1>3. \A s \in new.rows : s \in mt.rows \/ s = r
  BY <1>1
<1>4. CASE \E s \in Of(mt.rows, r.key) : s.lsn >= r.lsn
  <2>1. PICK s \in mt.rows : s.lsn >= r.lsn
    BY <1>4 DEF Of
  <2>2. s.lsn <= mt.max_lsn
    BY <2>1 DEF Exact
  <2>3. new.rows = mt.rows /\ new.max_lsn = mt.max_lsn
    BY <1>1, <1>2, <1>4, <2>1, <2>2
  <2> QED BY <1>3, <2>3
<1>5. CASE ~(\E s \in Of(mt.rows, r.key) : s.lsn >= r.lsn)
  <2>1. new.rows = (mt.rows \ Of(mt.rows, r.key)) \cup {r}
    BY <1>1, <1>5
  <2> HIDE DEF new
  <2>2. \A s \in mt.rows : s.lsn <= mt.max_lsn
    BY DEF Exact
  <2>3. \A s \in new.rows : s.lsn <= new.max_lsn
    BY <1>1, <1>2, <2>1, <2>2
  <2>4. \E s \in new.rows : s.lsn = new.max_lsn
    <3>1. CASE r.lsn > mt.max_lsn
      BY <1>1, <2>1, <3>1
    <3>2. CASE ~(r.lsn > mt.max_lsn)
      <4>1. PICK s \in mt.rows : s.lsn = mt.max_lsn
        BY <1>2, <3>2 DEF Exact
      <4>2. s \notin Of(mt.rows, r.key)
        BY <1>2, <1>5, <3>2, <4>1
      <4> QED BY <1>1, <2>1, <3>2, <4>1, <4>2
    <3> QED BY <3>1, <3>2
  <2> QED BY <1>3, <2>3, <2>4 DEF Exact, new
<1> QED
  BY <1>4, <1>5

\* A replayed memtable is exact and holds only replayed records.
LEMMA ReplayedExact ==
    ASSUME NEW R \in SUBSET Record
    PROVE  /\ Exact(Replayed(R).rows, Replayed(R).max_lsn)
           /\ Replayed(R).rows \subseteq R
<1>1. Replayed(R).rows = Winners(R) /\ Replayed(R).max_lsn = MaxLsnOf(R)
  BY DEF Replayed
<1>2. Winners(R) \subseteq R
  BY DEF Winners
<1>3. /\ MaxLsnOf(R) \in 0 .. MaxLsn
      /\ \A r \in R : r.lsn <= MaxLsnOf(R)
      /\ MaxLsnOf(R) = 0 \/ \E r \in R : r.lsn = MaxLsnOf(R)
  BY MaxLsnOfRecords
<1>4. \A r \in R : r.lsn \in Nat \ {0}
  BY RecordAssumption DEF Record, Lsn
<1>5. CASE R = {}
  BY <1>1, <1>2, <1>3, <1>5 DEF Exact
<1>6. CASE R # {}
  <2>1. PICK r \in R : r.lsn = MaxLsnOf(R)
    BY <1>3, <1>4, <1>6
  <2>2. r \in Winners(R)
    BY <1>3, <2>1 DEF Winners, Of
  <2> QED BY <1>1, <1>2, <1>3, <2>1, <2>2 DEF Exact
<1> QED
  BY <1>5, <1>6

\* A step of a running engine that moves records around without making new
\* ones, and makes no safe record unsafe, keeps LSNs unique and records safe.
LEMMA RunningStep ==
    ASSUME EngineInv, mode = "up", mode' = "up", nextLsn' = nextLsn,
           \A r : r \in AllRecords' => r \in AllRecords,
           \A r : r \in Logged' => r \in Logged \/ Safe(r),
           \A r : Safe(r) => Safe(r)',
           TypeOK', FiniteLog', TablesExact', PendingIsSafe',
           covered' <= PublishedWatermark', FlushedIsPublished'
    PROVE  EngineInv'
<1>1. LsnUnique'
  BY DEF EngineInv, LsnUnique
<1>2. LsnsBelowNext'
  BY DEF EngineInv, LsnsBelowNext
<1>3. TruncateAfterPublish'
  BY DEF EngineInv, TruncateAfterPublish, Safe
<1>4. DownIsEmpty' /\ OpeningCovers'
  BY DEF DownIsEmpty, OpeningCovers
<1> QED
  BY <1>1, <1>2, <1>3, <1>4 DEF EngineInv

\* A step that leaves the catalog alone leaves the watermark alone.
LEMMA SameWatermark == catalog' = catalog => PublishedWatermark' = PublishedWatermark
BY DEF PublishedWatermark

\* What a return does to the call variables.
LEMMA ReturnFacts ==
    ASSUME TypeOK, NEW c \in Clients, Return(c)
    PROVE  /\ pc'[c] = "idle" /\ pending'[c] = {}
           /\ held'[c].rows = {} /\ held'[c].max_lsn = 0
           /\ \A d \in Clients : d # c =>
                 pc'[d] = pc[d] /\ pending'[d] = pending[d] /\ held'[d] = held[d]
BY DEF TypeOK, Return, Goto, NewMemtable

\* A call returns: memtables and staged files may go, truncation may have
\* happened, and of the caller's record only an acknowledgement remains.
LEMMA ReturnStep ==
    ASSUME EngineInv, TypeOK', FiniteLog', mode = "up", NEW c \in Clients,
           (ReturnOk(c) /\ pc[c] # "append") \/ ReturnErr(c),
           UNCHANGED <<openVars, active, catalog>>,
           wal' \subseteq wal,
           \A r \in wal : r \in wal' \/ r.lsn <= PublishedWatermark,
           \A r \in unsynced' : r \in unsynced \/ r \in pending[c],
           covered' <= PublishedWatermark,
           frozen' \subseteq frozen,
           \A s \in staging' : s \in staging \/ s.rows = {}
    PROVE  EngineInv'
<1> USE SameWatermark
<1>0. /\ Return(c)
      /\ acked' = acked \/ (acked' = acked \cup pending[c] /\ pc[c] # "append")
      /\ TypeOK
      /\ mode' = mode /\ nextLsn' = nextLsn /\ crashes' = crashes
      /\ PublishedWatermark' = PublishedWatermark
  BY DEF ReturnOk, ReturnErr, EngineInv, openVars
<1>1. /\ pc'[c] = "idle" /\ pending'[c] = {}
      /\ held'[c].rows = {} /\ held'[c].max_lsn = 0
      /\ \A d \in Clients : d # c =>
            pc'[d] = pc[d] /\ pending'[d] = pending[d] /\ held'[d] = held[d]
  BY <1>0, ReturnFacts
<1>2. \A r : Safe(r) => Safe(r)'
  BY <1>0 DEF Safe
<1>3. \A r : r \in Logged' => r \in Logged \/ Safe(r)
  <2> SUFFICES ASSUME NEW r, r \in Logged' PROVE r \in Logged \/ Safe(r)
    OBVIOUS
  <2>1. CASE r \in acked'
    BY <1>0, <2>1, InLogged DEF EngineInv, PendingIsSafe
  <2>2. CASE r \notin acked'
    <3>1. CASE \E d \in Clients : r \in held'[d].rows
      BY <1>1, <3>1, InLogged
    <3>2. CASE \E x \in staging' : r \in x.rows
      BY <3>2, InLogged
    <3> QED BY <2>2, <3>1, <3>2, InLogged, InLoggedNext
  <2> QED BY <2>1, <2>2
<1>4. \A r : r \in AllRecords' => r \in AllRecords
  <2> SUFFICES ASSUME NEW r, r \in AllRecords' PROVE r \in AllRecords
    OBVIOUS
  <2>1. CASE r \in Logged'
    <3>1. CASE r \in acked'
      BY <1>0, <3>1, InLogged, InAllRecords
    <3>2. CASE \E d \in Clients : r \in held'[d].rows
      BY <1>1, <3>2, InLogged, InAllRecords
    <3>3. CASE \E x \in staging' : r \in x.rows
      BY <3>3, InLogged, InAllRecords
    <3> QED BY <2>1, <3>1, <3>2, <3>3, InLogged, InLoggedNext, InAllRecords
  <2>2. CASE r \in unsynced' \/ \E d \in Clients : r \in pending'[d]
    BY <1>1, <2>2, InAllRecords
  <2> QED BY <2>1, <2>2, InAllRecordsNext
<1>5. TablesExact'
  <2>1. Exact(held'[c].rows, held'[c].max_lsn)
    BY <1>1 DEF Exact
  <2>2. \A d \in Clients : Exact(held'[d].rows, held'[d].max_lsn)
    BY <1>1, <2>1 DEF EngineInv, TablesExact
  <2> QED BY <2>2 DEF EngineInv, TablesExact
<1>6. PendingIsSafe'
  BY <1>1, <1>2 DEF EngineInv, PendingIsSafe
<1>7. FlushedIsPublished'
  BY <1>0, <1>1 DEF EngineInv, FlushedIsPublished
<1> QED
  BY <1>0, <1>2, <1>3, <1>4, <1>5, <1>6, <1>7, RunningStep

\* A call moves on to its next phase: it may stage its memtable or truncate through
\* its watermark, and changes nothing else the invariant speaks of.
LEMMA MoveStep ==
    ASSUME EngineInv, TypeOK', FiniteLog', mode = "up", NEW c \in Clients, NEW ph,
           pc' = [pc EXCEPT ![c] = ph],
           pc[c] # "append", ph # "append",
           ph \in {"load_index", "store_index", "truncate", "skip_truncate"} =>
               held[c].max_lsn <= PublishedWatermark,
           UNCHANGED <<openVars, active, catalog, unsynced, pending, held, acked>>,
           frozen' \subseteq frozen,
           wal' \subseteq wal,
           \A r \in wal : r \in wal' \/ r.lsn <= PublishedWatermark,
           covered' <= PublishedWatermark,
           \A s \in staging' : s \in staging \/ (/\ s.rows = held[c].rows
                                                 /\ s.watermark = held[c].max_lsn)
    PROVE  EngineInv'
<1> USE SameWatermark
<1>0. /\ TypeOK
      /\ mode' = mode /\ nextLsn' = nextLsn /\ crashes' = crashes
      /\ active' = active
      /\ PublishedWatermark' = PublishedWatermark
  BY DEF EngineInv, openVars
<1>1. pc'[c] = ph /\ \A d \in Clients : d # c => pc'[d] = pc[d]
  BY <1>0 DEF TypeOK
<1>2. \A r : Safe(r) => Safe(r)'
  BY <1>0 DEF Safe
<1>3. \A r : r \in Logged' => r \in Logged
  <2> SUFFICES ASSUME NEW r, r \in Logged' PROVE r \in Logged
    OBVIOUS
  <2>1. CASE \E x \in staging' : r \in x.rows
    BY <2>1, InLogged
  <2> QED BY <1>0, <2>1, InLogged, InLoggedNext
<1>4. \A r : r \in AllRecords' => r \in AllRecords
  BY <1>3, InAllRecords, InAllRecordsNext
<1>5. TablesExact'
  BY <1>0 DEF EngineInv, TablesExact
<1>6. PendingIsSafe'
  BY <1>1, <1>2 DEF EngineInv, PendingIsSafe
<1>7. FlushedIsPublished'
  BY <1>0, <1>1 DEF EngineInv, FlushedIsPublished
<1> QED
  BY <1>0, <1>2, <1>3, <1>4, <1>5, <1>6, <1>7, RunningStep

------------------------------------------------------------------------------
(* The inductive invariant: one lemma per part of Next.                     *)

\* Truncating through a published watermark removes only published records.
LEMMA TruncateKeeps ==
    ASSUME EngineInv, NEW w \in 0 .. MaxLsn, w <= PublishedWatermark, LogTruncate(w)
    PROVE  /\ wal' \subseteq wal
           /\ \A r \in wal : r \in wal' \/ r.lsn <= PublishedWatermark
           /\ covered' <= PublishedWatermark
           /\ unsynced' = unsynced
<1>1. PICK gone \in SUBSET {r \in wal : r.lsn <= w} : wal' = wal \ gone
  BY DEF LogTruncate
<1>2. /\ PublishedWatermark \in Nat /\ w \in Nat /\ wal \subseteq Record
      /\ \A r \in wal : r.lsn \in Nat
  BY WatermarkOfFiles, RecordAssumption DEF EngineInv, TypeOK, LogTypeOK, Record, Lsn
<1>3. \A r \in gone : r.lsn <= PublishedWatermark
  BY <1>1, <1>2
<1>4. covered' <= PublishedWatermark
  BY DEF LogTruncate, EngineInv
<1> QED
  BY <1>1, <1>3, <1>4 DEF LogTruncate

\* The flush steps that move on: plan, stage, publish, index, truncate, retire.
LEMMA FlushMoves ==
    ASSUME EngineInv, TypeOK', FiniteLog', NEW c \in Clients,
           \/ CallFlush(c) \/ PlanFlush(c) \/ Stage(c) \/ Publish(c)
           \/ LoadIndex(c) \/ StoreIndex(c) \/ Truncate(c)
    PROVE  EngineInv'
<1>0. /\ held[c].max_lsn \in 0 .. MaxLsn /\ held[c] \in Memtable
      /\ PublishedWatermark \in 0 .. MaxLsn
      /\ covered <= PublishedWatermark
  BY WatermarkOfFiles DEF EngineInv, TypeOK, Memtable
<1>1. CASE CallFlush(c)
  BY <1>0, <1>1, MoveStep
  DEF CallFlush, At, Goto, logVars, lakeVars, memVars
<1>2. CASE PlanFlush(c)
  <2> DEFINE ph == CASE Plan(PublishedWatermark, held[c]) = "empty" -> "skip_retire"
                     [] Plan(PublishedWatermark, held[c]) = "already_published" -> "skip_truncate"
                     [] OTHER -> "stage"
  <2>1. /\ ph \in {"skip_retire", "skip_truncate", "stage"}
        /\ ph = "skip_truncate" => held[c].max_lsn <= PublishedWatermark
    BY DEF Plan
  <2>2. mode = "up" /\ pc[c] = "plan" /\ pc' = [pc EXCEPT ![c] = ph]
    BY <1>2 DEF PlanFlush, At, Goto
  <2>3. /\ UNCHANGED <<wal, covered, staging, duckdb, frozen>>
        /\ UNCHANGED <<openVars, active, catalog, unsynced, pending, held, acked>>
    BY <1>2 DEF PlanFlush, logVars, lakeVars, memVars
  <2> HIDE DEF ph
  <2> QED BY <1>0, <2>1, <2>2, <2>3, MoveStep
<1>3. CASE Stage(c)
  <2>1. \A s \in staging' : s \in staging \/ (/\ s.rows = held[c].rows
                                             /\ s.watermark = held[c].max_lsn)
    BY <1>3 DEF Stage, StageFile
  <2>2. mode = "up" /\ pc[c] = "stage" /\ pc' = [pc EXCEPT ![c] = "publish"]
    BY <1>3 DEF Stage, At, Goto
  <2>3. /\ UNCHANGED <<wal, covered, duckdb, frozen>>
        /\ UNCHANGED <<openVars, active, catalog, unsynced, pending, held, acked>>
    BY <1>3 DEF Stage, logVars, memVars
  <2> QED BY <1>0, <2>1, <2>2, <2>3, MoveStep
<1>4. CASE Publish(c)
  <2>2. mode = "up" /\ pc[c] = "publish" /\ pc' = [pc EXCEPT ![c] = "waiting"]
    BY <1>4 DEF Publish, At, Goto
  <2>3. /\ UNCHANGED <<wal, covered, staging, frozen>>
        /\ UNCHANGED <<openVars, active, catalog, unsynced, pending, held, acked>>
    BY <1>4 DEF Publish, logVars, memVars
  <2> QED BY <1>0, <2>2, <2>3, MoveStep
<1>5. CASE LoadIndex(c)
  <2>1. held[c].max_lsn <= PublishedWatermark
    BY <1>5 DEF EngineInv, FlushedIsPublished, LoadIndex, At
  <2> QED BY <1>0, <1>5, <2>1, MoveStep DEF LoadIndex, At, Goto, logVars, lakeVars, memVars
<1>6. CASE StoreIndex(c)
  <2>1. held[c].max_lsn <= PublishedWatermark
    BY <1>6 DEF EngineInv, FlushedIsPublished, StoreIndex, At
  <2> QED BY <1>0, <1>6, <2>1, MoveStep DEF StoreIndex, At, Goto, logVars, lakeVars, memVars
<1>7. CASE Truncate(c)
  <2>1. held[c].max_lsn <= PublishedWatermark
    BY <1>7 DEF EngineInv, FlushedIsPublished, Truncate, At
  <2>2. /\ wal' \subseteq wal
        /\ \A r \in wal : r \in wal' \/ r.lsn <= PublishedWatermark
        /\ covered' <= PublishedWatermark
        /\ unsynced' = unsynced
    BY <1>0, <1>7, <2>1, TruncateKeeps DEF Truncate
  <2> QED BY <1>0, <1>7, <2>1, <2>2, MoveStep DEF Truncate, At, Goto, lakeVars, memVars
<1> QED
  BY <1>1, <1>2, <1>3, <1>4, <1>5, <1>6, <1>7

\* The flush steps and failures that end the call.
LEMMA FlushReturns ==
    ASSUME EngineInv, TypeOK', FiniteLog', NEW c \in Clients,
           \/ FreezeStalled(c) \/ FreezeNothing(c) \/ Retire(c) \/ Unstage(c)
           \/ FlushFail(c) \/ StageFail(c) \/ TruncateFail(c) \/ Abandon(c)
    PROVE  EngineInv'
<1>0. /\ held[c].max_lsn \in 0 .. MaxLsn
      /\ PublishedWatermark \in 0 .. MaxLsn
      /\ covered <= PublishedWatermark
  BY WatermarkOfFiles DEF EngineInv, TypeOK, Memtable
<1>1. CASE FreezeStalled(c)
  BY <1>0, <1>1, ReturnStep DEF FreezeStalled, At, logVars, lakeVars, memVars
<1>2. CASE FreezeNothing(c)
  BY <1>0, <1>2, ReturnStep DEF FreezeNothing, At, logVars, lakeVars, memVars
<1>3. CASE Retire(c)
  <2>1. CASE At(c, "skip_retire") /\ ReturnOk(c)
    BY <1>0, <1>3, <2>1, ReturnStep DEF Retire, At, logVars, lakeVars
  <2>2. CASE At(c, "retire") /\ Goto(c, "unstage") /\ UNCHANGED <<pending, held, loaded, acked>>
    BY <1>0, <1>3, <2>2, MoveStep DEF Retire, At, Goto, logVars, lakeVars
  <2> QED BY <1>3, <2>1, <2>2 DEF Retire
<1>4. CASE Unstage(c)
  BY <1>0, <1>4, ReturnStep DEF Unstage, UnstageFile, At, logVars, memVars
<1>5. CASE FlushFail(c)
  BY <1>0, <1>5, ReturnStep DEF FlushFail, At, logVars, lakeVars, memVars
<1>6. CASE StageFail(c)
  BY <1>0, <1>6, ReturnStep DEF StageFail, StageFile, At, logVars, memVars
<1>7. CASE TruncateFail(c)
  <2>1. held[c].max_lsn <= PublishedWatermark
    BY <1>7 DEF EngineInv, FlushedIsPublished, TruncateFail, At
  <2>2. /\ wal' \subseteq wal
        /\ \A r \in wal : r \in wal' \/ r.lsn <= PublishedWatermark
        /\ covered' <= PublishedWatermark
        /\ unsynced' = unsynced
    BY <1>0, <1>7, <2>1, TruncateKeeps DEF TruncateFail
  <2> QED BY <1>0, <1>7, <2>2, ReturnStep DEF TruncateFail, At, lakeVars, memVars
<1>8. CASE Abandon(c)
  BY <1>0, <1>8, ReturnStep DEF Abandon, At, logVars, lakeVars, memVars
<1> QED
  BY <1>1, <1>2, <1>3, <1>4, <1>5, <1>6, <1>7, <1>8

\* What a dropped or failed call left behind takes effect.
LEMMA LateStep ==
    ASSUME EngineInv, TypeOK', FiniteLog',
           (\E r \in unsynced : LateAppend(r)) \/ LateTruncate
    PROVE  EngineInv'
<1>0. /\ mode = "up" /\ mode' = "up" /\ nextLsn' = nextLsn
      /\ UNCHANGED <<staging, catalog, active, frozen, pc, pending, held, acked>>
      /\ PublishedWatermark' = PublishedWatermark
      /\ covered <= PublishedWatermark
  BY SameWatermark
  DEF LateAppend, LateTruncate, lakeVars, openVars, memVars, callVars, EngineInv
<1>1. /\ \A r \in wal' : r \in wal \/ r \in unsynced
      /\ \A r \in wal : r \in wal' \/ r.lsn <= PublishedWatermark
      /\ unsynced' \subseteq unsynced
      /\ covered' <= PublishedWatermark
  <2>1. CASE \E r \in unsynced : LateAppend(r)
    BY <1>0, <2>1 DEF LateAppend, LogAppend
  <2>2. CASE LateTruncate
    <3>1. covered \in 0 .. MaxLsn
      BY DEF EngineInv, TypeOK, LogTypeOK
    <3> QED BY <1>0, <2>2, <3>1, TruncateKeeps DEF LateTruncate
  <2> QED BY <2>1, <2>2
<1>2. \A r : r \in Logged' => r \in Logged \/ r \in wal'
  BY <1>0, InLogged, InLoggedNext
<1>3. \A r : r \in AllRecords' => r \in AllRecords
  BY <1>0, <1>1, <1>2, InLogged, InAllRecords, InAllRecordsNext
<1>4. \A r : Safe(r) => Safe(r)'
  BY <1>0, <1>1 DEF Safe
<1>5. TruncateAfterPublish'
  BY <1>0, <1>1, <1>2 DEF EngineInv, TruncateAfterPublish
<1>6. LsnUnique' /\ LsnsBelowNext'
  BY <1>0, <1>3 DEF EngineInv, LsnUnique, LsnsBelowNext
<1>7. PendingIsSafe' /\ covered' <= PublishedWatermark'
  BY <1>0, <1>1, <1>4 DEF EngineInv, PendingIsSafe
<1>8. DownIsEmpty' /\ OpeningCovers'
  BY <1>0 DEF DownIsEmpty, OpeningCovers
<1>9. FlushedIsPublished' /\ TablesExact'
  BY <1>0 DEF EngineInv, FlushedIsPublished, TablesExact
<1> QED
  BY <1>5, <1>6, <1>7, <1>8, <1>9 DEF EngineInv

\* TakeLsn hands out an LSN above every record there is.
LEMMA TakeLsnStep ==
    ASSUME EngineInv, TypeOK', FiniteLog', NEW c \in Writers,
           NEW k \in Keys, NEW v \in Values \cup {Tombstone}, TakeLsn(c, k, v)
    PROVE  EngineInv'
<1> DEFINE new == [key |-> k, lsn |-> nextLsn, val |-> v]
<1>0. /\ c \in Clients /\ TypeOK /\ mode = "up" /\ mode' = "up" /\ pc[c] = "idle"
      /\ nextLsn \in Nat /\ nextLsn' = nextLsn + 1
      /\ PublishedWatermark' = PublishedWatermark
      /\ crashes' = crashes
  BY SameWatermark DEF Clients, EngineInv, TypeOK, TakeLsn, At, lakeVars
<1>1. /\ pc'[c] = "append" /\ \A d \in Clients : d # c => pc'[d] = pc[d]
      /\ pending'[c] = {new} /\ \A d \in Clients : d # c => pending'[d] = pending[d]
  BY <1>0 DEF TakeLsn, Goto, TypeOK
<1>2. /\ UNCHANGED <<wal, unsynced, covered, staging, duckdb, catalog>>
      /\ UNCHANGED <<active, frozen, held, acked>>
  BY DEF TakeLsn, logVars, lakeVars, memVars
<1>3. \A r : r \in Logged' => r \in Logged
  BY <1>2, InLogged, InLoggedNext
<1>4. \A r : r \in AllRecords' => r \in AllRecords \/ r = new
  BY <1>1, <1>2, <1>3, InAllRecords, InAllRecordsNext
<1>5. \A r \in AllRecords : r.lsn < nextLsn
  BY <1>0 DEF EngineInv, LsnsBelowNext
<1>6. \A r \in AllRecords : r.lsn \in Nat
  BY <1>0, AllRecordsTyped
<1>7. new.lsn = nextLsn
  OBVIOUS
<1> HIDE DEF new
<1>8. LsnUnique'
  <2> SUFFICES ASSUME NEW r \in AllRecords', NEW s \in AllRecords', r.lsn = s.lsn PROVE r = s
    BY DEF LsnUnique
  <2>1. CASE r = new \/ s = new
    BY <1>0, <1>4, <1>5, <1>6, <1>7, <2>1
  <2>2. CASE r # new /\ s # new
    BY <1>4, <2>2 DEF EngineInv, LsnUnique
  <2> QED BY <2>1, <2>2
<1>9. LsnsBelowNext'
  BY <1>0, <1>4, <1>5, <1>6, <1>7 DEF LsnsBelowNext
<1>10. TruncateAfterPublish' /\ covered' <= PublishedWatermark'
  BY <1>0, <1>2, <1>3 DEF EngineInv, TruncateAfterPublish
<1>11. PendingIsSafe'
  BY <1>0, <1>1, <1>2 DEF EngineInv, PendingIsSafe, Safe
<1>12. DownIsEmpty' /\ OpeningCovers'
  BY <1>0 DEF DownIsEmpty, OpeningCovers
<1>13. FlushedIsPublished'
  BY <1>0, <1>1, <1>2 DEF EngineInv, FlushedIsPublished
<1>14. TablesExact'
  BY <1>2 DEF EngineInv, TablesExact
<1> QED
  BY <1>8, <1>9, <1>10, <1>11, <1>12, <1>13, <1>14 DEF EngineInv

\* The other steps of a write: append, its failure, insert and the size check.
LEMMA WriteStep ==
    ASSUME EngineInv, TypeOK', FiniteLog', NEW c \in Writers, Write(c) \/ WalAppendFail(c)
    PROVE  EngineInv'
<1>0. /\ c \in Clients /\ TypeOK /\ covered <= PublishedWatermark
      /\ active \in Memtable
      /\ Exact(active.rows, active.max_lsn)
  BY DEF Clients, EngineInv, TypeOK, TablesExact
<1>1. CASE WalAppend(c)
  <2>0. PICK r \in pending[c] : LogAppend(r)
    BY <1>1 DEF WalAppend
  <2>1. /\ mode = "up" /\ mode' = "up" /\ nextLsn' = nextLsn /\ crashes' = crashes
        /\ pc[c] = "append" /\ pc'[c] = "insert"
        /\ \A d \in Clients : d # c => pc'[d] = pc[d]
    BY <1>0, <1>1 DEF WalAppend, At, Goto, openVars, TypeOK
  <2>2. /\ wal' = wal \cup {r} /\ unsynced' = unsynced \ {r} /\ covered' = covered
        /\ UNCHANGED <<staging, duckdb, catalog>>
        /\ UNCHANGED <<active, frozen, pending, held, acked>>
        /\ PublishedWatermark' = PublishedWatermark
    BY <1>1, <2>0, SameWatermark DEF WalAppend, LogAppend, lakeVars, memVars
  <2>3. \A s : s \in AllRecords' => s \in AllRecords
    <3>1. \A s : s \in Logged' => s \in Logged \/ s = r
      BY <2>2, InLogged, InLoggedNext
    <3> QED BY <1>0, <2>2, <3>1, InAllRecords, InAllRecordsNext
  <2>4. \A s : Safe(s) => Safe(s)'
    BY <2>2 DEF Safe
  <2>5. TruncateAfterPublish'
    <3>1. \A s : s \in Logged' => s \in Logged \/ s = r
      BY <2>2, InLogged, InLoggedNext
    <3> QED BY <2>2, <3>1 DEF EngineInv, TruncateAfterPublish
  <2>6. PendingIsSafe'
    <3> SUFFICES ASSUME NEW d \in Clients, pc'[d] # "append", NEW s \in pending'[d]
                 PROVE  Safe(s)'
      BY <2>2 DEF EngineInv, PendingIsSafe
    <3>1. CASE d # c
      BY <2>1, <2>2, <2>4, <3>1 DEF EngineInv, PendingIsSafe
    <3>2. CASE d = c
      <4>1. s \in pending[c] /\ r \in pending[c]
        BY <2>2, <3>2
      <4>2. s = r
        BY <1>0, <4>1 DEF EngineInv, PendingIsSafe
      <4> QED BY <2>2, <4>2 DEF Safe
    <3> QED BY <3>1, <3>2
  <2>7. LsnUnique' /\ LsnsBelowNext'
    BY <2>1, <2>3 DEF EngineInv, LsnUnique, LsnsBelowNext
  <2>8. DownIsEmpty' /\ OpeningCovers' /\ covered' <= PublishedWatermark'
    BY <1>0, <2>1, <2>2 DEF DownIsEmpty, OpeningCovers
  <2>9. FlushedIsPublished' /\ TablesExact'
    BY <2>1, <2>2 DEF EngineInv, FlushedIsPublished, TablesExact
  <2> QED BY <2>5, <2>6, <2>7, <2>8, <2>9 DEF EngineInv
<1>2. CASE WalAppendFail(c)
  <2>1. PICK r \in pending[c] : LogAppendFail(r)
    BY <1>2 DEF WalAppendFail
  <2>2. \A s \in unsynced' : s \in unsynced \/ s \in pending[c]
    BY <2>1 DEF LogAppendFail
  <2>3. wal' = wal /\ covered' = covered
    BY <2>1 DEF LogAppendFail
  <2> QED BY <1>0, <1>2, <2>2, <2>3, ReturnStep DEF WalAppendFail, At, lakeVars, memVars
<1>3. CASE MemInsert(c)
  <2>0. PICK r \in pending[c] : active' = Insert(active, r)
    BY <1>3 DEF MemInsert
  <2>1. /\ mode = "up" /\ mode' = "up" /\ nextLsn' = nextLsn /\ crashes' = crashes
        /\ pc[c] = "insert" /\ pc'[c] = "check"
        /\ \A d \in Clients : d # c => pc'[d] = pc[d]
    BY <1>0, <1>3 DEF MemInsert, At, Goto, openVars, TypeOK
  <2>2. /\ UNCHANGED <<wal, unsynced, covered, staging, duckdb, catalog>>
        /\ UNCHANGED <<frozen, pending, held, acked>>
        /\ PublishedWatermark' = PublishedWatermark
    BY <1>3, SameWatermark DEF MemInsert, logVars, lakeVars
  <2>3. r \in Record /\ Safe(r)
    BY <1>0, <2>1 DEF TypeOK, EngineInv, PendingIsSafe
  <2>4. /\ Exact(active'.rows, active'.max_lsn)
        /\ \A s \in active'.rows : s \in active.rows \/ s = r
    BY <1>0, <2>0, <2>3, InsertExact
  <2>5. \A s : s \in Logged' => s \in Logged \/ s = r
    BY <2>2, <2>4, InLogged, InLoggedNext
  <2>6. \A s : s \in AllRecords' => s \in AllRecords
    BY <1>0, <2>2, <2>5, InAllRecords, InAllRecordsNext
  <2>7. \A s : Safe(s) => Safe(s)'
    BY <2>2 DEF Safe
  <2>8. TablesExact'
    BY <2>2, <2>4 DEF EngineInv, TablesExact
  <2>9. PendingIsSafe' /\ covered' <= PublishedWatermark'
    BY <1>0, <2>1, <2>2, <2>7 DEF EngineInv, PendingIsSafe
  <2>10. FlushedIsPublished'
    BY <2>1, <2>2 DEF EngineInv, FlushedIsPublished
  <2> QED BY <2>1, <2>3, <2>5, <2>6, <2>7, <2>8, <2>9, <2>10, RunningStep
<1>4. CASE CheckFreeze(c)
  <2>1. CASE ReturnOk(c)
    BY <1>0, <1>4, <2>1, ReturnStep DEF CheckFreeze, At, logVars, lakeVars, memVars
  <2>2. CASE Goto(c, "freeze") /\ UNCHANGED <<pending, held, loaded, acked>>
    BY <1>0, <1>4, <2>2, MoveStep DEF CheckFreeze, At, Goto, logVars, lakeVars, memVars
  <2> QED BY <1>4, <2>1, <2>2 DEF CheckFreeze
<1> QED
  BY <1>1, <1>2, <1>3, <1>4 DEF Write

\* Freezing moves the active memtable into the caller's hands.
LEMMA FreezeStep ==
    ASSUME EngineInv, TypeOK', FiniteLog', NEW c \in Clients, Freeze(c)
    PROVE  EngineInv'
<1>0. /\ TypeOK /\ covered <= PublishedWatermark
      /\ mode = "up" /\ mode' = "up" /\ nextLsn' = nextLsn /\ crashes' = crashes
      /\ pc[c] = "freeze" /\ pc'[c] = "plan" /\ held'[c] = active
      /\ \A d \in Clients : d # c => pc'[d] = pc[d] /\ held'[d] = held[d]
  BY DEF EngineInv, TypeOK, Freeze, At, Goto, openVars
<1>1. /\ UNCHANGED <<wal, unsynced, covered, staging, duckdb, catalog>>
      /\ UNCHANGED <<pending, acked>>
      /\ frozen' = frozen \cup {active}
      /\ active'.rows = {} /\ active'.max_lsn = 0
      /\ PublishedWatermark' = PublishedWatermark
  BY SameWatermark DEF Freeze, NewMemtable, logVars, lakeVars
<1>2. \A r : r \in Logged' => r \in Logged
  BY <1>0, <1>1, InLogged, InLoggedNext
<1>3. \A r : r \in AllRecords' => r \in AllRecords
  BY <1>1, <1>2, InAllRecords, InAllRecordsNext
<1>4. \A r : Safe(r) => Safe(r)'
  BY <1>1 DEF Safe
<1>5. TablesExact'
  <2>1. Exact(active'.rows, active'.max_lsn)
    BY <1>1 DEF Exact
  <2>2. \A d \in Clients : Exact(held'[d].rows, held'[d].max_lsn)
    BY <1>0 DEF EngineInv, TablesExact
  <2> QED BY <1>1, <2>1, <2>2 DEF EngineInv, TablesExact
<1>6. PendingIsSafe' /\ covered' <= PublishedWatermark'
  BY <1>0, <1>1, <1>4 DEF EngineInv, PendingIsSafe
<1>7. FlushedIsPublished'
  BY <1>0, <1>1 DEF EngineInv, FlushedIsPublished
<1> QED
  BY <1>0, <1>2, <1>3, <1>4, <1>5, <1>6, <1>7, RunningStep

\* The MAX(lsn) statistic of a staged file is the watermark in its name.
LEMMA StagedWatermark ==
    ASSUME TypeOK, TablesExact, NEW job, NEW s \in StagedFor(job)
    PROVE  /\ MaxLsnOf(s.rows) = s.watermark
           /\ s.watermark = job.watermark
           /\ s \in staging
           /\ [rows |-> s.rows, watermark |-> MaxLsnOf(s.rows)] \in File
<1>1. s \in staging /\ s.rows # {} /\ s.watermark = job.watermark
  BY DEF StagedFor
<1>2. s.rows \in SUBSET Record /\ s.watermark \in 0 .. MaxLsn
  BY <1>1 DEF TypeOK, File
<1>3. /\ MaxLsnOf(s.rows) \in 0 .. MaxLsn
      /\ \A r \in s.rows : r.lsn <= MaxLsnOf(s.rows)
      /\ MaxLsnOf(s.rows) = 0 \/ \E r \in s.rows : r.lsn = MaxLsnOf(s.rows)
  BY <1>2, MaxLsnOfRecords
<1>4. PICK r \in s.rows : r.lsn = s.watermark
  BY <1>1 DEF TablesExact, Exact
<1>5. \A x \in s.rows : x.lsn <= s.watermark
  BY <1>1 DEF TablesExact, Exact
<1>6. MaxLsnOf(s.rows) = s.watermark
  BY <1>2, <1>3, <1>4, <1>5
<1> QED
  BY <1>1, <1>2, <1>3, <1>6 DEF File

\* A commit appends a file whose rows were staged; the watermark does not
\* decrease and reaches the name of the staged file.
LEMMA CommitRaises ==
    ASSUME EngineInv, TypeOK', NEW job \in duckdb, CommitPublish(job)
    PROVE  /\ PublishedWatermark <= PublishedWatermark'
           /\ job.watermark <= PublishedWatermark'
           /\ PublishedWatermark' \in {PublishedWatermark, job.watermark}
           /\ PublishedWatermark \in Nat /\ PublishedWatermark' \in Nat
           /\ \A f \in Range(catalog') :
                 f \in Range(catalog) \/ \E s \in staging : f.rows = s.rows
<1>0. /\ TypeOK /\ TablesExact /\ catalog \in Seq(File) /\ catalog' \in Seq(File)
      /\ MaxLsn \in Nat
  BY RecordAssumption DEF EngineInv, TypeOK
<1>1. PICK s \in StagedFor(job) :
          catalog' = Append(catalog, [rows |-> s.rows, watermark |-> MaxLsnOf(s.rows)])
  BY DEF CommitPublish
<1> DEFINE new == [rows |-> s.rows, watermark |-> MaxLsnOf(s.rows)]
<1>2. /\ MaxLsnOf(s.rows) = s.watermark
      /\ s.watermark = job.watermark
      /\ s \in staging
      /\ new \in File
  BY <1>0, StagedWatermark
<1>3. new.rows = s.rows /\ new.watermark = job.watermark
  BY <1>2
<1>4. catalog' = Append(catalog, new)
  BY <1>1
<1> HIDE DEF new
<1>5. Range(catalog') = Range(catalog) \cup {new}
  BY <1>0, <1>2, <1>4, RangeOfAppend
<1>6. /\ PublishedWatermark \in 0 .. MaxLsn
      /\ PublishedWatermark = 0 \/ \E f \in Range(catalog) : f.watermark = PublishedWatermark
      /\ \A f \in Range(catalog) : f.watermark <= PublishedWatermark
  BY <1>0, WatermarkOfFiles
<1>7. /\ PublishedWatermark' \in 0 .. MaxLsn
      /\ \A f \in Range(catalog') : f.watermark <= PublishedWatermark'
      /\ PublishedWatermark' = 0 \/ \E f \in Range(catalog') : f.watermark = PublishedWatermark'
  <2> DEFINE S == {0} \cup {f.watermark : f \in Range(catalog')}
  <2>1. Range(catalog') \subseteq File
    BY <1>0 DEF Range
  <2>2. S \in SUBSET (0 .. MaxLsn) /\ S # {}
    BY <1>0, <2>1 DEF File
  <2>3. Max(S) \in S /\ \A x \in S : x <= Max(S)
    BY <1>0, <2>2, MaxOfBounded
  <2>4. PublishedWatermark' = Max(S)
    BY DEF PublishedWatermark
  <2> HIDE DEF S
  <2>5. PublishedWatermark' \in S /\ \A x \in S : x <= PublishedWatermark'
    BY <2>3, <2>4
  <2> QED BY <2>2, <2>5 DEF S
<1>8. job.watermark <= PublishedWatermark'
  BY <1>3, <1>5, <1>7
<1>9. PublishedWatermark <= PublishedWatermark'
  BY <1>5, <1>6, <1>7
<1>10. \A f \in Range(catalog') : f \in Range(catalog) \/ \E x \in staging : f.rows = x.rows
  BY <1>2, <1>3, <1>5
<1>11. PublishedWatermark' \in {PublishedWatermark, job.watermark}
  BY <1>3, <1>5, <1>6, <1>7, <1>9
<1> QED
  BY <1>0, <1>6, <1>7, <1>8, <1>9, <1>10, <1>11

\* A commit.  The flush that awaits it moves on or returns; a job left over from an
\* earlier life or from a dropped call has none.
LEMMA CommitStep ==
    ASSUME EngineInv, TypeOK', FiniteLog', NEW job \in duckdb, CommitPublish(job),
           UNCHANGED <<wal, unsynced, covered, mode, openWm, nextLsn, crashes>>,
           UNCHANGED <<active, frozen, acked>>,
           \A d \in Clients :
               \/ pc'[d] = pc[d] /\ pending'[d] = pending[d] /\ held'[d] = held[d]
               \/ /\ pc[d] = "waiting" /\ pc'[d] = "load_index"
                  /\ pending'[d] = pending[d] /\ held'[d] = held[d]
                  /\ held[d].max_lsn = job.watermark
               \/ /\ pc'[d] = "idle" /\ pending'[d] = {}
                  /\ held'[d].rows = {} /\ held'[d].max_lsn = 0
    PROVE  EngineInv'
<1>0. TypeOK /\ staging' = staging
  BY DEF EngineInv, CommitPublish
<1>a. /\ covered \in Nat
      /\ \A r \in Record : r.lsn \in Nat
      /\ \A d \in Clients : held[d].max_lsn \in Nat
  <2>1. covered \in Nat
    BY <1>0 DEF TypeOK, LogTypeOK
  <2>2. \A d \in Clients : held[d].max_lsn \in Nat
    BY <1>0 DEF TypeOK, Memtable
  <2>3. \A r \in Record : r.lsn \in Nat
    BY <1>0, AllRecordsTyped
  <2> QED BY <2>1, <2>2, <2>3
<1>1. /\ PublishedWatermark <= PublishedWatermark'
      /\ job.watermark <= PublishedWatermark'
      /\ PublishedWatermark \in Nat /\ PublishedWatermark' \in Nat
      /\ \A f \in Range(catalog') :
            f \in Range(catalog) \/ \E s \in staging : f.rows = s.rows
  BY CommitRaises
<1>b. \A d \in Clients : /\ \A r \in held'[d].rows : r \in held[d].rows
                         /\ \A r \in pending'[d] : r \in pending[d]
  OBVIOUS
<1>2. \A r : r \in Logged' => r \in Logged
  BY <1>0, <1>1, <1>b, InLogged, InLoggedNext
<1>3. \A r : r \in AllRecords' => r \in AllRecords
  BY <1>2, <1>b, InAllRecords, InAllRecordsNext
<1>4. \A r \in Record : Safe(r) => Safe(r)'
  BY <1>a, <1>1 DEF Safe
<1>5. LsnUnique' /\ LsnsBelowNext'
  BY <1>3 DEF EngineInv, LsnUnique, LsnsBelowNext
<1>6. Logged \subseteq Record
  BY <1>0, AllRecordsTyped, InAllRecords
<1>7. TruncateAfterPublish'
  BY <1>2, <1>4, <1>6 DEF EngineInv, TruncateAfterPublish, Safe
<1>8. covered' <= PublishedWatermark'
  BY <1>a, <1>1 DEF EngineInv
<1>9. PendingIsSafe'
  <2>1. \A d \in Clients : pending[d] \subseteq Record
    BY <1>0 DEF TypeOK
  <2> QED BY <1>4, <2>1 DEF EngineInv, PendingIsSafe
<1>10. DownIsEmpty' /\ OpeningCovers'
  <2>1. DownIsEmpty'
    BY DEF EngineInv, DownIsEmpty
  <2> QED BY <1>2, <2>1 DEF EngineInv, OpeningCovers
<1>11. FlushedIsPublished'
  <2> SUFFICES ASSUME NEW d \in Clients,
                      pc'[d] \in {"load_index", "store_index", "truncate", "skip_truncate"}
               PROVE  held'[d].max_lsn <= PublishedWatermark'
    BY DEF FlushedIsPublished
  <2>1. CASE pc'[d] = pc[d] /\ held'[d] = held[d]
    <3>1. held[d].max_lsn <= PublishedWatermark
      BY <2>1 DEF EngineInv, FlushedIsPublished
    <3> QED BY <1>a, <1>1, <2>1, <3>1
  <2>2. CASE held'[d] = held[d] /\ held[d].max_lsn = job.watermark
    BY <1>1, <2>2
  <2> QED BY <2>1, <2>2
<1>12. TablesExact'
  <2>1. \A R, n : R = {} /\ n = 0 => Exact(R, n)
    BY DEF Exact
  <2>2. \A d \in Clients : Exact(held'[d].rows, held'[d].max_lsn)
    BY <2>1 DEF EngineInv, TablesExact
  <2> QED BY <1>0, <2>2 DEF EngineInv, TablesExact
<1> QED
  BY <1>5, <1>7, <1>8, <1>9, <1>10, <1>11, <1>12 DEF EngineInv

\* The two outcomes of a commit for the flush that awaits it.
LEMMA DuckCommitStep ==
    ASSUME EngineInv, TypeOK', FiniteLog', NEW job \in duckdb,
           DuckCommit(job) \/ DuckCommitThenFail(job)
    PROVE  EngineInv'
<1>0. TypeOK /\ job.owner \in Clients
  BY DEF EngineInv, TypeOK
<1>1. CASE DuckCommit(job)
  <2>1. /\ CommitPublish(job)
        /\ UNCHANGED <<wal, unsynced, covered, mode, openWm, nextLsn, crashes>>
        /\ UNCHANGED <<active, frozen, acked, pending, held>>
    BY <1>1 DEF DuckCommit, logVars, openVars, memVars
  <2>2. \A d \in Clients : pc'[d] = pc[d] \/ (/\ pc[d] = "waiting" /\ pc'[d] = "load_index"
                                              /\ held[d].max_lsn = job.watermark)
    BY <1>0, <1>1 DEF DuckCommit, Waiting, At, TypeOK
  <2> QED BY <2>1, <2>2, CommitStep
<1>2. CASE DuckCommitThenFail(job)
  <2>1. /\ CommitPublish(job)
        /\ UNCHANGED <<wal, unsynced, covered, mode, openWm, nextLsn, crashes>>
        /\ UNCHANGED <<active, frozen, acked>>
        /\ Return(job.owner)
    BY <1>2 DEF DuckCommitThenFail, ReturnErr, logVars, openVars, memVars
  <2>2. /\ pc'[job.owner] = "idle" /\ pending'[job.owner] = {}
        /\ held'[job.owner].rows = {} /\ held'[job.owner].max_lsn = 0
        /\ \A d \in Clients : d # job.owner =>
              pc'[d] = pc[d] /\ pending'[d] = pending[d] /\ held'[d] = held[d]
    BY <1>0, <2>1, ReturnFacts
  <2> QED BY <2>1, <2>2, CommitStep
<1> QED
  BY <1>1, <1>2

\* A DuckDB child fails, or one that nobody awaits ends.
LEMMA DuckFailStep ==
    ASSUME EngineInv, TypeOK', FiniteLog', NEW job \in duckdb, DuckFail(job)
    PROVE  EngineInv'
<1>0. /\ TypeOK /\ covered <= PublishedWatermark
      /\ job.owner \in Clients
  BY DEF EngineInv, TypeOK
<1>1. /\ UNCHANGED <<wal, unsynced, covered, staging, catalog, active, frozen>>
      /\ UNCHANGED openVars
  BY DEF DuckFail, logVars, memVars
<1>2. CASE Waiting(job) /\ ReturnErr(job.owner)
  BY <1>0, <1>1, <1>2, ReturnStep DEF Waiting, At
<1>3. CASE UNCHANGED <<callVars, acked>>
  <2>1. /\ UNCHANGED <<mode, openWm, nextLsn, crashes, pc, pending, held, acked>>
        /\ PublishedWatermark' = PublishedWatermark
    BY <1>1, <1>3, SameWatermark DEF openVars, callVars
  <2>2. \A r : (r \in Logged' <=> r \in Logged) /\ (r \in AllRecords' <=> r \in AllRecords)
    BY <1>1, <2>1, InLogged, InLoggedNext, InAllRecords, InAllRecordsNext
  <2>3. LsnUnique' /\ LsnsBelowNext' /\ TruncateAfterPublish' /\ OpeningCovers'
    BY <1>1, <2>1, <2>2
    DEF EngineInv, LsnUnique, LsnsBelowNext, TruncateAfterPublish, OpeningCovers
  <2>4. /\ TablesExact' /\ PendingIsSafe' /\ DownIsEmpty'
        /\ covered' <= PublishedWatermark' /\ FlushedIsPublished'
    BY <1>0, <1>1, <2>1
    DEF EngineInv, TablesExact, PendingIsSafe, Safe, DownIsEmpty, FlushedIsPublished
  <2> QED BY <2>3, <2>4 DEF EngineInv
<1> QED
  BY <1>2, <1>3 DEF DuckFail

\* The invariant says nothing about readers, the index or loaded indexes.
LEMMA ReaderStep ==
    ASSUME EngineInv, TypeOK', FiniteLog',
           UNCHANGED <<logVars, lakeVars, openVars, memVars, pc, pending, held, acked>>
    PROVE  EngineInv'
<1>1. /\ UNCHANGED <<wal, unsynced, covered, staging, duckdb, catalog, active, frozen>>
      /\ UNCHANGED <<mode, openWm, nextLsn, crashes, pc, pending, held, acked>>
      /\ PublishedWatermark' = PublishedWatermark
  BY SameWatermark DEF logVars, lakeVars, openVars, memVars
<1>2. \A r : (r \in Logged' <=> r \in Logged) /\ (r \in AllRecords' <=> r \in AllRecords)
  BY <1>1, InLogged, InLoggedNext, InAllRecords, InAllRecordsNext
<1>3. LsnUnique' /\ LsnsBelowNext' /\ TruncateAfterPublish' /\ OpeningCovers'
  BY <1>1, <1>2
  DEF EngineInv, LsnUnique, LsnsBelowNext, TruncateAfterPublish, OpeningCovers
<1>4. /\ TablesExact' /\ PendingIsSafe' /\ DownIsEmpty'
      /\ covered' <= PublishedWatermark' /\ FlushedIsPublished'
  BY <1>1
  DEF EngineInv, TablesExact, PendingIsSafe, Safe, DownIsEmpty, FlushedIsPublished
<1> QED
  BY <1>3, <1>4 DEF EngineInv

\* A crash: memory goes, the fate of unsynced records is settled, and whatever
\* was logged is still in the WAL or published.
LEMMA CrashStep ==
    ASSUME EngineInv, TypeOK', FiniteLog', Crash
    PROVE  EngineInv'
<1>0. /\ TypeOK /\ crashes \in Nat /\ covered <= PublishedWatermark
      /\ mode' = "down" /\ crashes' = crashes + 1
      /\ unsynced' = {} /\ covered' = covered /\ duckdb' \subseteq duckdb
      /\ UNCHANGED <<staging, catalog, acked>>
      /\ active'.rows = {} /\ active'.max_lsn = 0 /\ frozen' = {}
      /\ PublishedWatermark' = PublishedWatermark
  <2>1. TypeOK /\ crashes \in Nat /\ covered <= PublishedWatermark
    BY DEF EngineInv, TypeOK
  <2>2. unsynced' = {} /\ covered' = covered
    BY DEF Crash, LogCrash
  <2> QED BY <2>1, <2>2, SameWatermark DEF Crash, NewMemtable
<1>1. /\ \A c \in Clients : pc'[c] = "idle" /\ pending'[c] = {}
      /\ \A c \in Clients : held'[c].rows = {} /\ held'[c].max_lsn = 0
  BY DEF Crash, NewMemtable
<1>2. PICK late \in SUBSET unsynced : wal' = wal \cup late
  BY DEF Crash, LogCrash
<1>3. \A r : r \in Logged' => r \in Logged \/ r \in late
  BY <1>0, <1>1, <1>2, InLogged, InLoggedNext
<1>4. \A r : r \in AllRecords' => r \in AllRecords
  BY <1>0, <1>1, <1>2, <1>3, InAllRecords, InAllRecordsNext
<1>5. LsnUnique' /\ LsnsBelowNext' /\ OpeningCovers'
  BY <1>0, <1>4 DEF EngineInv, LsnUnique, LsnsBelowNext, OpeningCovers
<1>6. TruncateAfterPublish' /\ covered' <= PublishedWatermark'
  BY <1>0, <1>2, <1>3 DEF EngineInv, TruncateAfterPublish
<1>7. TablesExact'
  <2>1. \A R, n : R = {} /\ n = 0 => Exact(R, n)
    BY DEF Exact
  <2>2. Exact(active'.rows, active'.max_lsn)
    BY <1>0, <2>1
  <2>3. \A c \in Clients : Exact(held'[c].rows, held'[c].max_lsn)
    BY <1>1, <2>1
  <2> QED BY <1>0, <2>2, <2>3 DEF EngineInv, TablesExact
<1>8. PendingIsSafe' /\ DownIsEmpty' /\ FlushedIsPublished'
  BY <1>0, <1>1 DEF PendingIsSafe, DownIsEmpty, FlushedIsPublished
<1> QED
  BY <1>5, <1>6, <1>7, <1>8 DEF EngineInv

\* The three steps of Engine::open.
LEMMA OpenStep ==
    ASSUME EngineInv, TypeOK', FiniteLog', OpenWatermark \/ OpenIndex \/ OpenWal
    PROVE  EngineInv'
<1>0. /\ TypeOK /\ covered <= PublishedWatermark /\ mode # "up"
      /\ UNCHANGED <<wal, unsynced, covered, staging, duckdb, catalog>>
      /\ UNCHANGED <<frozen, pc, pending, held, acked, crashes>>
      /\ PublishedWatermark' = PublishedWatermark
  BY SameWatermark
  DEF EngineInv, OpenWatermark, OpenIndex, OpenWal, logVars, lakeVars, memVars, callVars
<1>1. /\ unsynced = {}
      /\ \A c \in Clients : pending[c] = {} /\ pc[c] = "idle"
  BY <1>0 DEF EngineInv, DownIsEmpty
<1>2. /\ \A s \in active'.rows : s \in active.rows \/ s \in wal
      /\ Exact(active'.rows, active'.max_lsn)
  <2>1. CASE active' = active
    BY <2>1 DEF EngineInv, TablesExact
  <2>2. CASE OpenWal
    <3>1. LogReplay(openWm) \in SUBSET Record /\ LogReplay(openWm) \subseteq wal
      BY <1>0 DEF LogReplay, TypeOK, LogTypeOK
    <3>2. active' = Replayed(LogReplay(openWm))
      BY <2>2 DEF OpenWal
    <3>3. /\ Exact(active'.rows, active'.max_lsn)
          /\ active'.rows \subseteq LogReplay(openWm)
      BY <3>1, <3>2, ReplayedExact
    <3> QED BY <3>1, <3>3
  <2> QED BY <2>1, <2>2 DEF OpenWatermark, OpenIndex, memVars
<1>3. \A r : r \in Logged' => r \in Logged
  BY <1>0, <1>2, InLogged, InLoggedNext
<1>4. \A r : r \in AllRecords' => r \in Logged
  BY <1>0, <1>1, <1>3, InAllRecordsNext
<1>5. LsnUnique' /\ TruncateAfterPublish' /\ covered' <= PublishedWatermark'
  BY <1>0, <1>3, <1>4, InAllRecords DEF EngineInv, LsnUnique, TruncateAfterPublish
<1>6. LsnsBelowNext'
  <2>1. CASE OpenWal
    <3> DEFINE top == Max({LogMaxLsn, openWm})
    <3>1. /\ LogMaxLsn \in 0 .. MaxLsn /\ openWm \in 0 .. MaxLsn /\ MaxLsn \in Nat
          /\ \A r \in wal : r.lsn <= LogMaxLsn
      BY <1>0, MaxLsnOfRecords, RecordAssumption DEF LogMaxLsn, TypeOK, LogTypeOK
    <3>2. /\ {LogMaxLsn, openWm} \in SUBSET (0 .. MaxLsn)
          /\ {LogMaxLsn, openWm} # {}
      BY <3>1
    <3>3. /\ top \in {LogMaxLsn, openWm}
          /\ \A x \in {LogMaxLsn, openWm} : x <= top
      BY <3>1, <3>2, MaxOfBounded
    <3>4. nextLsn' = top + 1
      BY <2>1 DEF OpenWal, FirstLsn
    <3> HIDE DEF top
    <3>5. \A r \in Logged : r \in wal \/ r.lsn <= openWm
      BY <2>1 DEF EngineInv, OpeningCovers, OpenWal
    <3>6. \A r \in Logged : r.lsn \in Nat
      BY <1>0, AllRecordsTyped, InAllRecords
    <3>7. \A r \in Logged : r.lsn < nextLsn'
      BY <3>1, <3>3, <3>4, <3>5, <3>6
    <3> QED BY <1>4, <3>7 DEF LsnsBelowNext
  <2>2. CASE OpenWatermark \/ OpenIndex
    BY <2>2 DEF LsnsBelowNext, OpenWatermark, OpenIndex
  <2> QED BY <2>1, <2>2
<1>7. OpeningCovers'
  <2>1. CASE OpenWatermark
    BY <1>0, <1>3, <2>1 DEF OpeningCovers, OpenWatermark, EngineInv, TruncateAfterPublish
  <2>2. CASE OpenIndex
    BY <1>0, <1>3, <2>2 DEF OpeningCovers, OpenIndex, EngineInv
  <2>3. CASE OpenWal
    BY <2>3 DEF OpeningCovers, OpenWal
  <2> QED BY <2>1, <2>2, <2>3
<1>8. TablesExact'
  BY <1>0, <1>2 DEF EngineInv, TablesExact
<1>9. PendingIsSafe' /\ DownIsEmpty' /\ FlushedIsPublished'
  BY <1>0, <1>1 DEF PendingIsSafe, DownIsEmpty, FlushedIsPublished
<1> QED
  BY <1>5, <1>6, <1>7, <1>8, <1>9 DEF EngineInv

\* Nothing has been written before the first open.
LEMMA InvariantInit == Init => EngineInv
<1> SUFFICES ASSUME Init PROVE EngineInv
  OBVIOUS
<1>1. TypeOK /\ FiniteLog
  BY TypeInit
<1>2. /\ wal = {} /\ unsynced = {} /\ covered = 0
      /\ staging = {} /\ duckdb = {} /\ catalog = << >>
      /\ active.rows = {} /\ active.max_lsn = 0 /\ frozen = {} /\ acked = {}
      /\ mode = "down"
      /\ \A c \in Clients : pc[c] = "idle" /\ pending[c] = {}
      /\ \A c \in Clients : held[c].rows = {} /\ held[c].max_lsn = 0
  BY DEF Init, LogInit, LakeInit, NewMemtable
<1>3. Range(catalog) = {}
  BY <1>2 DEF Range
<1>4. \A r : r \notin Logged /\ r \notin AllRecords
  BY <1>2, <1>3, InLogged, InAllRecords
<1>5. LsnUnique /\ LsnsBelowNext /\ TruncateAfterPublish /\ OpeningCovers
  BY <1>4 DEF LsnUnique, LsnsBelowNext, TruncateAfterPublish, OpeningCovers
<1>6. covered <= PublishedWatermark
  BY <1>1, <1>2, WatermarkOfFiles DEF TypeOK
<1>7. TablesExact
  <2>1. \A R, n : R = {} /\ n = 0 => Exact(R, n)
    BY DEF Exact
  <2> QED BY <1>2, <2>1 DEF TablesExact
<1>8. PendingIsSafe /\ DownIsEmpty /\ FlushedIsPublished
  BY <1>2 DEF PendingIsSafe, DownIsEmpty, FlushedIsPublished
<1> QED
  BY <1>1, <1>5, <1>6, <1>7, <1>8 DEF EngineInv

\* Every step of every caller, child process, crash and recovery preserves it.
LEMMA InvariantStep == EngineInv /\ [Next]_vars => EngineInv'
<1> SUFFICES ASSUME EngineInv, [Next]_vars PROVE EngineInv'
  OBVIOUS
<1>0. TypeOK' /\ FiniteLog'
  BY TypeStep DEF EngineInv
<1>1. CASE UNCHANGED vars
  BY <1>0, <1>1, ReaderStep DEF vars, callVars
<1>2. CASE \E c \in Writers : \/ \E k \in Keys, v \in Values \cup {Tombstone} : TakeLsn(c, k, v)
                             \/ Write(c)
                             \/ WalAppendFail(c)
  BY <1>0, <1>2, TakeLsnStep, WriteStep
<1>3. CASE \E c \in Clients : Flush(c) \/ FlushFault(c) \/ CallFlush(c)
  <2>1. PICK c \in Clients : Flush(c) \/ FlushFault(c) \/ CallFlush(c)
    BY <1>3
  <2> QED BY <1>0, <2>1, FlushMoves, FlushReturns, FreezeStep DEF Flush, FlushFault
<1>7. CASE (\E r \in unsynced : LateAppend(r)) \/ LateTruncate
  BY <1>0, <1>7, LateStep
<1>4. CASE \E job \in duckdb : DuckCommit(job) \/ DuckCommitThenFail(job) \/ DuckFail(job)
  BY <1>0, <1>4, DuckCommitStep, DuckFailStep
<1>5. CASE \E r \in Readers : \/ \E k \in Keys : GetRowTier(r, k)
                             \/ GetColumnar(r)
                             \/ GetReturn(r)
  BY <1>0, <1>5, ReaderStep DEF GetRowTier, GetColumnar, GetReturn, callVars
<1>6. CASE Crash \/ OpenWatermark \/ OpenIndex \/ OpenWal
  BY <1>0, <1>6, CrashStep, OpenStep
<1> QED
  BY <1>1, <1>2, <1>3, <1>4, <1>5, <1>6, <1>7 DEF Next, Clients

\* The inductive invariant holds in every reachable state, whatever the number
\* of concurrent callers, failed calls, crashes and surviving DuckDB processes.
THEOREM InvariantHolds == Spec => []EngineInv
  BY InvariantInit, InvariantStep, PTL DEF Spec

\* No LSN is ever given to two records, across concurrent fetch_adds and across
\* restarts: Engine::open's next_lsn clears the WAL and the published files.
THEOREM LsnsAreUnique == Spec => []LsnUnique
<1>1. EngineInv => LsnUnique
  BY DEF EngineInv
<1> QED
  BY <1>1, InvariantHolds, PTL

\* Publish before truncate: no interleaving of writes, flushes, failures and
\* crashes removes from the WAL a record above the published watermark.
THEOREM WalCoversUnpublished == Spec => []TruncateAfterPublish
<1>1. EngineInv => TruncateAfterPublish
  BY DEF EngineInv
<1> QED
  BY <1>1, InvariantHolds, PTL

==============================================================================
