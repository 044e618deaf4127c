-------------------------- MODULE EngineReadProofs ---------------------------
(***************************************************************************)
(* Reads: with writes one by one and at most one memtable frozen, nothing  *)
(* acknowledged is ever invisible, and what is readable is what a crash    *)
(* would preserve.  ReadInv is inductive under SerialReads.                *)
(***************************************************************************)
EXTENDS EngineFlushProofs

------------------------------------------------------------------------------
(* What the row tier and the files answer.                                  *)

\* The parts of the invariant the lemmas on reads use.
LEMMA ReadParts ==
    ASSUME ReadInv
    PROVE  /\ SerialInv /\ EngineInv /\ TypeOK
           /\ PublishedWatermark \in Nat
           /\ \A r \in Durable : r \in Record /\ r.lsn \in Nat
           /\ \A m \in frozen : m.max_lsn \in Nat /\ m.id \in Nat /\ m.id < active.id
           /\ active.id \in Nat /\ frozen \subseteq Memtable
BY DurableTyped, LevelsTyped DEF ReadInv, SerialInv, EngineInv, RetiresItsOwn, TypeOK, Memtable

\* A row-tier miss means that neither the active memtable nor the frozen one holds
\* the key; a hit is the active memtable's row, or else the frozen one's.
LEMMA RowTierAnswer ==
    ASSUME ReadInv, OneFrozen, NEW k
    PROVE  \/ /\ Of(active.rows, k) # {}
              /\ RowTierGet(frozen \cup {active}, k) = Of(active.rows, k)
           \/ /\ Of(active.rows, k) = {}
              /\ \E m \in frozen : /\ Of(m.rows, k) # {}
                                   /\ RowTierGet(frozen \cup {active}, k) = Of(m.rows, k)
           \/ /\ \A m \in frozen \cup {active} : Of(m.rows, k) = {}
              /\ RowTierGet(frozen \cup {active}, k) = {}
<1> DEFINE holders == {m \in frozen \cup {active} : Of(m.rows, k) # {}}
           top == {h \in holders : \A n \in holders : n.id <= h.id}
<1>0. /\ \A m \in frozen : m.id \in Nat /\ m.id < active.id
      /\ active.id \in Nat
      /\ RowTierGet(frozen \cup {active}, k) = UNION {Of(m.rows, k) : m \in top}
  BY ReadParts DEF RowTierGet
<1>a. \A t : top = {t} => RowTierGet(frozen \cup {active}, k) = Of(t.rows, k)
  <2> SUFFICES ASSUME NEW t, top = {t}
               PROVE  UNION {Of(m.rows, k) : m \in top} = Of(t.rows, k)
    BY <1>0
  <2>1. \A x : x \in UNION {Of(m.rows, k) : m \in top} <=> \E m \in top : x \in Of(m.rows, k)
    OBVIOUS
  <2> HIDE DEF top
  <2> QED BY <2>1
<1> HIDE DEF top
<1>1. CASE Of(active.rows, k) # {}
  <2> USE DEF top
  <2>1. active \in holders /\ \A n \in holders : n.id <= active.id
    BY <1>0, <1>1
  <2>2. \A h \in top : h = active
    BY <1>0, <2>1
  <2>3. top = {active}
    BY <2>1, <2>2
  <2> HIDE DEF top
  <2> QED BY <1>a, <1>1, <2>3
<1>2. CASE Of(active.rows, k) = {} /\ \E m \in frozen : Of(m.rows, k) # {}
  <2>1. PICK m \in frozen : Of(m.rows, k) # {}
    BY <1>2
  <2>2. holders = {m}
    BY <1>2, <2>1 DEF OneFrozen
  <2>3. top = {m}
    BY <1>0, <2>1, <2>2 DEF top
  <2> QED BY <1>a, <1>2, <2>1, <2>3
<1>3. CASE \A m \in frozen \cup {active} : Of(m.rows, k) = {}
  <2>1. top = {}
    BY <1>3 DEF top
  <2> QED BY <1>0, <1>3, <2>1
<1> QED
  BY <1>1, <1>2, <1>3

\* Where a durable record, or a newer write to its key, is found.
LEMMA DurableIsSomewhere ==
    ASSUME ReadInv, mode = "up", NEW r \in Durable, ~Inserting(r)
    PROVE  \/ CoveredBy(active.rows, r)
           \/ \E m \in frozen : CoveredBy(m.rows, r)
           \/ \E f \in Range(index) : CoveredBy(f.rows, r)
<1>0. /\ PublishedWatermark \in Nat /\ r.lsn \in Nat
      /\ LakeCovers /\ UnpublishedInMemory /\ FlushesGood
      /\ \A f \in Range(catalog) : f \in Range(index) \/ \E m \in frozen : f = FileOf(m)
  BY ReadParts DEF ReadInv, SerialInv, IndexOrMemory
<1>1. CASE r.lsn <= PublishedWatermark
  <2>1. PICK f \in Range(catalog) : CoveredBy(f.rows, r)
    BY <1>0, <1>1 DEF LakeCovers, LakeRows, CoveredBy
  <2>2. CASE f \in Range(index)
    BY <2>1, <2>2
  <2>3. CASE \E m \in frozen : f = FileOf(m)
    BY <2>1, <2>3 DEF FileOf
  <2> QED BY <1>0, <2>2, <2>3
<1>2. CASE r.lsn > PublishedWatermark
  <2>1. \/ CoveredBy(active.rows, r)
        \/ \E m \in frozen : r.lsn <= m.max_lsn
    BY <1>0, <1>2 DEF UnpublishedInMemory
  <2>2. ASSUME NEW m \in frozen, r.lsn <= m.max_lsn
        PROVE  CoveredBy(m.rows, r)
    <3>1. Complete(Durable, PublishedWatermark, m.rows, m.max_lsn)
      BY <1>0 DEF FlushesGood, Good
    <3> QED BY <1>0, <1>2, <2>2, <3>1 DEF Complete
  <2> QED BY <2>1, <2>2
<1> QED
  BY <1>0, <1>1, <1>2

\* What the row tier answers is not older than any durable record of its key.
LEMMA RowTierIsNewest ==
    ASSUME ReadInv, OneFrozen, mode = "up", NEW r \in Durable, ~Inserting(r),
           NEW a \in RowTierGet(frozen \cup {active}, r.key)
    PROVE  a.lsn >= r.lsn
<1>0. /\ PublishedWatermark \in Nat /\ r.lsn \in Nat
      /\ ActiveNewest /\ FlushesGood /\ UnpublishedInMemory
      /\ \A m \in frozen : m.max_lsn \in Nat /\ PublishedWatermark <= m.max_lsn
      /\ \A s \in Durable : s.lsn \in Nat
  BY ReadParts DEF ReadInv, SerialInv, LevelsAreOrdered
<1>1. CASE a \in Of(active.rows, r.key)
  <2>1. a \in active.rows /\ a.key = r.key /\ a \in Durable
    BY <1>1, InLogged, InDurable DEF Of
  <2> QED BY <1>0, <2>1 DEF ActiveNewest
<1>2. ASSUME Of(active.rows, r.key) = {}, NEW m \in frozen, a \in Of(m.rows, r.key)
      PROVE  a.lsn >= r.lsn
  <2>1. a \in m.rows /\ a.key = r.key /\ a \in Durable
    BY <1>2, InLogged, InDurable DEF Of
  <2>2. CASE r.lsn <= m.max_lsn
    <3>1. Newest(Durable, m.rows, m.max_lsn)
      BY <1>0 DEF FlushesGood, Good
    <3> QED BY <1>0, <2>1, <2>2, <3>1 DEF Newest
  <2>3. CASE r.lsn > m.max_lsn
    <3>1. \A n \in frozen : n = m
      BY DEF OneFrozen
    <3>2. CoveredBy(active.rows, r)
      BY <1>0, <2>3, <3>1 DEF UnpublishedInMemory
    <3> QED BY <1>2, <3>2 DEF CoveredBy, Of
  <2> QED BY <1>0, <2>2, <2>3
<1> QED
  BY <1>1, <1>2, RowTierAnswer

\* A get that misses the row tier finds every durable record of its key, or a newer
\* one, in the files the index names.
LEMMA MissIsInIndex ==
    ASSUME ReadInv, OneFrozen, mode = "up", NEW r \in Durable, ~Inserting(r),
           RowTierGet(frozen \cup {active}, r.key) = {}
    PROVE  \E f \in Range(index) : CoveredBy(f.rows, r)
<1>1. \A m \in frozen \cup {active} : Of(m.rows, r.key) = {}
  BY RowTierAnswer
<1>2. \A m \in frozen \cup {active} : ~CoveredBy(m.rows, r)
  BY <1>1 DEF Of, CoveredBy
<1> QED
  BY <1>2, DurableIsSomewhere

\* Engine::get, taken in one step, answers every durable record of the key or a
\* newer one, outside the window between fsync and insert.
LEMMA DurableIsVisible ==
    ASSUME ReadInv, OneFrozen, mode = "up", NEW r \in Durable, ~Inserting(r)
    PROVE  Covers(Get(r.key), r)
<1> DEFINE hit == RowTierGet(frozen \cup {active}, r.key)
<1>1. CASE hit # {}
  <2>1. Get(r.key) = hit
    BY <1>1 DEF Get
  <2>2. \A a \in hit : a.lsn >= r.lsn
    BY RowTierIsNewest
  <2> QED BY <1>1, <2>1, <2>2 DEF Covers
<1>2. CASE hit = {}
  <2>1. Get(r.key) = ColumnarGet(index, r.key)
    BY <1>2 DEF Get
  <2>2. PICK f \in Range(index) : CoveredBy(f.rows, r)
    BY <1>2, MissIsInIndex
  <2>3. PICK s \in f.rows : s.key = r.key /\ s.lsn >= r.lsn
    BY <2>2 DEF CoveredBy
  <2>4. index \in Seq(File) /\ Range(index) \subseteq Range(catalog) /\ SerialInv
    BY ReadParts DEF TypeOK, SerialInv, IndexBehindLake
  <2>5. Covers(ColumnarGet(index, r.key), s)
    BY <2>3, <2>4, FilesAnswer
  <2>6. s \in Durable
    BY <2>4, InLogged, InDurable DEF LakeRows
  <2>7. \A a \in ColumnarGet(index, r.key) : a \in Durable
    <3> SUFFICES ASSUME NEW a \in ColumnarGet(index, r.key) PROVE a \in Durable
      OBVIOUS
    <3>1. PICK g \in Range(index) : a \in Of(g.rows, r.key)
      BY DEF ColumnarGet
    <3> QED BY <2>4, <3>1, InLogged, InDurable DEF Of
  <2>8. \A d \in Durable : d.lsn \in Nat
    BY ReadParts
  <2> QED BY <2>1, <2>3, <2>5, <2>6, <2>7, <2>8 DEF Covers
<1> QED
  BY <1>1, <1>2

------------------------------------------------------------------------------
(* ReadInv is inductive: steps that leave the lake alone.                   *)

\* Calls move on with their memtable, or leave it; the active memtable may grow.
LEMMA ReadKept ==
    ASSUME ReadInv, SerialInv',
           UNCHANGED <<mode, openWm, catalog, reader>>,
           frozen' \subseteq frozen,
           \A s \in active'.rows :
               \/ s \in active.rows
               \/ s.lsn > PublishedWatermark /\ \A m \in frozen : m.max_lsn < s.lsn,
           index' \in {index, catalog},
           frozen' = frozen \/ index' = catalog,
           \A c \in Clients : pc'[c] \in Carrying =>
               pc[c] \in Carrying /\ held'[c] = held[c] /\ held[c] \in frozen',
           \A c \in Clients : pc'[c] \in BeforeCommit => pc[c] \in BeforeCommit,
           \A c \in Clients : pc'[c] \notin {"skip_truncate", "skip_retire"},
           \A c \in Clients : pc'[c] \in {"publish", "waiting"} =>
               \A s \in staging' : s.watermark = held[c].max_lsn => s = FileOf(held[c]),
           \A job \in duckdb' : /\ job.life = crashes' /\ mode' = "up"
                               /\ pc'[job.owner] = "waiting"
                               /\ job.watermark = held'[job.owner].max_lsn,
           \A c \in Clients : pc'[c] = "store_index" => loaded'[c] = catalog,
           \A c \in Clients : pc'[c] \in {"truncate", "retire"} => index' = catalog
    PROVE  ReadInv'
<1>0. /\ PublishedWatermark' = PublishedWatermark
      /\ Range(index) \subseteq Range(catalog)
      /\ BeforeCommit \subseteq Carrying
  BY SameWatermark DEF ReadInv, SerialInv, IndexBehindLake, Carrying
<1>1. FlushOwnsFrozen'
  <2>1. \A m \in frozen' : m.rows # {}
    BY DEF ReadInv, FlushOwnsFrozen
  <2>2. \A c, d \in Clients : pc'[c] \in Carrying /\ pc'[d] \in Carrying => c = d
    BY DEF ReadInv, FlushOwnsFrozen
  <2>3. \A job \in duckdb' : Waiting(job)'
    BY DEF Waiting, At
  <2>4. {"publish", "waiting"} \subseteq Carrying
    BY DEF Carrying, BeforeCommit
  <2>5. \A c \in Clients : pc'[c] \in {"publish", "waiting"} =>
            \A s \in staging' : s.watermark = held'[c].max_lsn => s = FileOf(held'[c])
    BY <2>4
  <2> QED BY <2>1, <2>2, <2>3, <2>5 DEF FlushOwnsFrozen, Carrying, BeforeCommit, AfterCommit, FileOf
<1>2. LevelsAreOrdered'
  <2>1. /\ \A s \in active'.rows : s.lsn > PublishedWatermark'
        /\ \A m \in frozen' : /\ PublishedWatermark' <= m.max_lsn
                              /\ \A s \in active'.rows : m.max_lsn < s.lsn
    BY <1>0 DEF ReadInv, LevelsAreOrdered
  <2>2. \A c \in Clients : pc'[c] \in BeforeCommit =>
            \A s \in held'[c].rows : s.lsn > PublishedWatermark'
    BY <1>0 DEF ReadInv, LevelsAreOrdered
  <2>3. \A i, j \in DOMAIN catalog' : i < j =>
            \A r \in catalog'[i].rows, s \in catalog'[j].rows : r.lsn < s.lsn
    BY DEF ReadInv, LevelsAreOrdered
  <2> QED BY <2>1, <2>2, <2>3 DEF LevelsAreOrdered, BeforeCommit
<1>3. IndexOrMemory'
  BY <1>0 DEF ReadInv, IndexOrMemory, FileOf
<1>4. ReaderWillFind'
  BY <1>0 DEF ReadInv, ReaderWillFind
<1> QED
  BY <1>1, <1>2, <1>3, <1>4 DEF ReadInv

\* What ReadInv says of the calls, in the words ReadKept needs.
LEMMA ReadCalls ==
    ASSUME ReadInv
    PROVE  /\ pc \in [Clients -> Phases] /\ held \in [Clients -> Memtable]
           /\ loaded \in [Clients -> Seq(File)] /\ pending \in [Clients -> SUBSET Record]
           /\ duckdb \subseteq [owner : Clients, life : 0 .. MaxCrashes, watermark : 0 .. MaxLsn]
           /\ \A c \in Clients : pc[c] \in Carrying => held[c] \in frozen
           /\ \A c, d \in Clients : pc[c] \in Carrying /\ pc[d] \in Carrying => c = d
           /\ \A c \in Clients : pc[c] \notin {"skip_truncate", "skip_retire"}
           /\ \A c \in Clients : pc[c] \in {"publish", "waiting"} =>
                  \A s \in staging : s.watermark = held[c].max_lsn => s = FileOf(held[c])
           /\ \A job \in duckdb : /\ job.life = crashes /\ mode = "up"
                                 /\ pc[job.owner] = "waiting"
                                 /\ job.watermark = held[job.owner].max_lsn
                                 /\ job.owner \in Clients
           /\ \A c \in Clients : pc[c] = "store_index" => loaded[c] = catalog
           /\ \A c \in Clients : pc[c] \in {"truncate", "retire"} => index = catalog
<1>1. TypeOK /\ FlushOwnsFrozen /\ IndexOrMemory
  BY ReadParts DEF ReadInv
<1>2. \A job \in duckdb : job.owner \in Clients
  BY <1>1 DEF TypeOK
<1> QED
  BY <1>1, <1>2 DEF TypeOK, FlushOwnsFrozen, IndexOrMemory, Waiting, At

\* Steps of calls that are not carrying a memtable, and of nobody.
LEMMA ReadQuiet ==
    ASSUME ReadInv, SerialInv',
           UNCHANGED <<mode, openWm, crashes, lakeVars, frozen, index, reader>>,
           \A s \in active'.rows :
               \/ s \in active.rows
               \/ s.lsn > PublishedWatermark /\ \A m \in frozen : m.max_lsn < s.lsn,
           \A c \in Clients :
               \/ pc'[c] = pc[c] /\ held'[c] = held[c] /\ loaded'[c] = loaded[c]
               \/ pc[c] \notin FlushPhases /\ pc'[c] \notin FlushPhases
    PROVE  ReadInv'
<1>1. /\ Carrying \subseteq FlushPhases /\ BeforeCommit \subseteq Carrying
      /\ {"publish", "waiting", "store_index", "truncate", "retire"} \subseteq Carrying
      /\ {"skip_truncate", "skip_retire"} \subseteq FlushPhases
  BY DEF Carrying, BeforeCommit, AfterCommit, FlushPhases
<1>2. UNCHANGED <<staging, duckdb, catalog>>
  BY DEF lakeVars
<1>3. \A job \in duckdb' : /\ job.life = crashes' /\ mode' = "up"
                          /\ pc'[job.owner] = "waiting"
                          /\ job.watermark = held'[job.owner].max_lsn
  BY <1>1, <1>2, ReadCalls
<1> QED
  BY <1>1, <1>2, <1>3, ReadCalls, ReadKept

\* The steps of a write.
LEMMA ReadWrite ==
    ASSUME ReadInv, SerialInv', Serial, NEW c \in Writers,
           \/ \E k \in Keys, v \in Values \cup {Tombstone} : TakeLsn(c, k, v)
           \/ Write(c)
    PROVE  ReadInv'
<1>0. /\ c \in Clients /\ TypeOK
      /\ pc \in [Clients -> Phases] /\ held \in [Clients -> Memtable]
      /\ loaded \in [Clients -> Seq(File)]
      /\ {"idle", "append", "insert", "check", "freeze"} \cap FlushPhases = {}
  BY ReadParts, ReadCalls DEF Clients, FlushPhases
<1>1. /\ UNCHANGED <<mode, openWm, crashes, lakeVars, frozen, index, reader>>
      /\ pc[c] \in {"idle", "append", "insert", "check"}
      /\ pc'[c] \in {"idle", "append", "insert", "check", "freeze"}
      /\ \A d \in Clients : d # c => pc'[d] = pc[d] /\ held'[d] = held[d] /\ loaded'[d] = loaded[d]
  <2>1. CASE \E k \in Keys, v \in Values \cup {Tombstone} : TakeLsn(c, k, v)
    BY <1>0, <2>1 DEF TakeLsn, At, Goto, memVars
  <2>2. CASE WalAppend(c) \/ MemInsert(c)
    BY <1>0, <2>2 DEF WalAppend, MemInsert, At, Goto, memVars, openVars
  <2>3. CASE CheckFreeze(c)
    BY <1>0, <2>3 DEF CheckFreeze, At, Goto, ReturnOk, Return, memVars, openVars
  <2> QED BY <2>1, <2>2, <2>3 DEF Write
<1>2. \A s \in active'.rows :
          \/ s \in active.rows
          \/ s.lsn > PublishedWatermark /\ \A m \in frozen : m.max_lsn < s.lsn
  <2>1. CASE MemInsert(c)
    <3>1. PICK r \in pending[c] : active' = Insert(active, r) /\ pc[c] = "insert"
      BY <2>1 DEF MemInsert, At
    <3>2. /\ r \in Record /\ PublishedWatermark < r.lsn /\ r.lsn \in Nat
          /\ \A m \in frozen : m.max_lsn < r.lsn
      BY <1>0, <3>1, ReadParts, PendingAbove DEF Writing
    <3>3. active \in Memtable /\ Exact(active.rows, active.max_lsn) /\ PublishedWatermark \in Nat
      BY <1>0, ReadParts DEF TypeOK, EngineInv, TablesExact
    <3>4. \A s \in active'.rows : s \in active.rows \/ s = r
      BY <3>1, <3>2, <3>3, InsertExact
    <3> QED BY <3>2, <3>3, <3>4
  <2>2. CASE ~MemInsert(c)
    BY <2>2 DEF Write, TakeLsn, WalAppend, CheckFreeze, memVars
  <2> QED BY <2>1, <2>2
<1> QED
  BY <1>0, <1>1, <1>2, ReadQuiet

\* A planned flush always has something to write.
LEMMA PlanIsWrite ==
    ASSUME ReadInv, NEW c \in Clients, pc[c] = "plan"
    PROVE  Plan(PublishedWatermark, held[c]) = "write"
<1>1. /\ held[c] \in frozen /\ held[c].rows # {}
      /\ \A s \in held[c].rows : s.lsn > PublishedWatermark
      /\ Exact(held[c].rows, held[c].max_lsn)
  BY ReadParts DEF ReadInv, FlushOwnsFrozen, LevelsAreOrdered, Carrying, BeforeCommit, EngineInv,
     TablesExact
<1>2. held[c].max_lsn \in Nat /\ PublishedWatermark \in Nat
  BY <1>1, ReadParts
<1>3. held[c].max_lsn > PublishedWatermark
  BY <1>1 DEF Exact
<1> QED
  BY <1>1, <1>2, <1>3 DEF Plan

\* The steps of a flush, all but the freeze.
LEMMA ReadFlush ==
    ASSUME ReadInv, SerialInv', Serial, NEW c \in Clients,
           Flush(c) \/ FlushFault(c) \/ CallFlush(c), ~Freeze(c)
    PROVE  ReadInv'
<1>0. /\ pc \in [Clients -> Phases] /\ held \in [Clients -> Memtable]
      /\ loaded \in [Clients -> Seq(File)] /\ frozen \subseteq Memtable
      /\ mode = "up" => \A d \in Clients : pc[d] \notin {"skip_truncate", "skip_retire"}
      /\ "dropped_call" \notin Faults
  BY ReadCalls, ReadParts DEF Serial
<1>a. /\ Carrying = {"plan", "stage", "publish", "waiting", "load_index", "store_index", "truncate",
                    "retire"}
      /\ BeforeCommit = {"plan", "stage", "publish", "waiting"}
      /\ {"idle", "freeze"} \cap FlushPhases = {}
  BY DEF Carrying, BeforeCommit, AfterCommit, FlushPhases
<1>b. ASSUME NEW ph, Goto(c, ph), UNCHANGED <<held, duckdb, crashes, mode>>, pc[c] # "waiting"
      PROVE  \A job \in duckdb' : /\ job.life = crashes' /\ mode' = "up"
                                /\ pc'[job.owner] = "waiting"
                                /\ job.watermark = held'[job.owner].max_lsn
  BY <1>b, <1>0, ReadCalls DEF Goto
<1>c. ASSUME Return(c), UNCHANGED <<duckdb, crashes, mode>>, pc[c] # "waiting"
      PROVE  \A job \in duckdb' : /\ job.life = crashes' /\ mode' = "up"
                                /\ pc'[job.owner] = "waiting"
                                /\ job.watermark = held'[job.owner].max_lsn
  BY <1>c, <1>0, ReadCalls DEF Goto, Return
<1>1. CASE CallFlush(c) \/ FreezeStalled(c) \/ FreezeNothing(c)
  <2>1. /\ UNCHANGED <<mode, openWm, crashes, lakeVars, frozen, active, index, reader>>
        /\ pc[c] \in {"idle", "freeze"} /\ pc'[c] \in {"idle", "freeze"}
        /\ \A d \in Clients : d # c => pc'[d] = pc[d] /\ held'[d] = held[d] /\ loaded'[d] = loaded[d]
    BY <1>0, <1>1 DEF CallFlush, FreezeStalled, FreezeNothing, At, Goto, ReturnOk, ReturnErr,
       Return, memVars, openVars
  <2> QED BY <1>a, <2>1, ReadQuiet
<1>2. CASE PlanFlush(c) \/ Publish(c) \/ Truncate(c)
  <2>1. /\ UNCHANGED <<mode, openWm, crashes, staging, catalog, frozen, active, index, reader,
                      held, loaded>>
        /\ mode = "up"
    BY <1>2 DEF PlanFlush, Publish, Truncate, At, memVars, openVars, lakeVars
  <2>2. \A d \in Clients : d # c => pc'[d] = pc[d]
    BY <1>0, <1>2 DEF PlanFlush, Publish, Truncate, Goto
  <2>3. \/ pc[c] = "plan" /\ Goto(c, "stage") /\ duckdb' = duckdb
        \/ pc[c] = "publish" /\ Goto(c, "waiting") /\ Publish(c)
        \/ pc[c] = "truncate" /\ Goto(c, "retire") /\ duckdb' = duckdb
    <3>1. CASE PlanFlush(c)
      <4>1. pc[c] = "plan"
        BY <3>1 DEF PlanFlush, At
      <4> QED BY <3>1, <4>1, PlanIsWrite DEF PlanFlush, lakeVars
    <3>2. CASE Publish(c)
      BY <3>2 DEF Publish, At
    <3>3. CASE Truncate(c)
      BY <1>0, <3>3 DEF Truncate, At, lakeVars
    <3> QED BY <1>2, <3>1, <3>2, <3>3
  <2>4. \A job \in duckdb' : /\ job.life = crashes' /\ mode' = "up"
                            /\ pc'[job.owner] = "waiting"
                            /\ job.watermark = held'[job.owner].max_lsn
    <3>1. CASE duckdb' = duckdb
      BY <1>b, <2>1, <2>3, <3>1
    <3>2. CASE Publish(c) /\ pc[c] = "publish" /\ Goto(c, "waiting")
      <4>1. /\ duckdb' = duckdb \cup {[owner |-> c, life |-> crashes, watermark |-> held[c].max_lsn]}
            /\ pc'[c] = "waiting"
        BY <1>0, <3>2 DEF Publish, SpawnPublish, Goto
      <4> QED BY <2>1, <2>2, <3>2, <4>1, ReadCalls
    <3> QED BY <2>3, <3>1, <3>2
  <2>5. /\ pc[c] \in Carrying /\ pc'[c] \in {"stage", "waiting", "retire"}
        /\ pc'[c] \in BeforeCommit => pc[c] \in BeforeCommit
        /\ pc'[c] = "waiting" => pc[c] = "publish"
        /\ pc'[c] = "retire" => pc[c] = "truncate"
    BY <1>0, <1>a, <2>3 DEF Goto
  <2> QED BY <1>a, <2>1, <2>2, <2>4, <2>5, ReadCalls, ReadKept
<1>3. CASE LoadIndex(c) \/ StoreIndex(c)
  <2>1. /\ UNCHANGED <<mode, openWm, crashes, staging, duckdb, catalog, frozen, active, reader, held>>
        /\ \A d \in Clients : d # c => pc'[d] = pc[d] /\ loaded'[d] = loaded[d]
    BY <1>0, <1>3 DEF LoadIndex, StoreIndex, Goto, memVars, openVars, lakeVars
  <2>2. \/ /\ pc[c] = "load_index" /\ Goto(c, "store_index") /\ pc'[c] = "store_index"
           /\ loaded'[c] = catalog /\ index' = index
        \/ /\ pc[c] = "store_index" /\ Goto(c, "truncate") /\ pc'[c] = "truncate"
           /\ index' = catalog
    BY <1>0, <1>3, ReadCalls DEF LoadIndex, StoreIndex, At, Goto
  <2>3. \A job \in duckdb' : /\ job.life = crashes' /\ mode' = "up"
                            /\ pc'[job.owner] = "waiting"
                            /\ job.watermark = held'[job.owner].max_lsn
    BY <1>b, <2>1, <2>2
  <2> QED BY <1>a, <2>1, <2>2, <2>3, ReadCalls, ReadKept
<1>4. CASE Stage(c)
  <2>1. /\ UNCHANGED <<mode, openWm, crashes, duckdb, catalog, frozen, active, index, reader, held,
                      loaded>>
        /\ pc[c] = "stage" /\ pc'[c] = "publish" /\ Goto(c, "publish")
        /\ \A d \in Clients : d # c => pc'[d] = pc[d]
        /\ staging' = {s \in staging : s.watermark # held[c].max_lsn} \cup {FileOf(held[c])}
    BY <1>0, <1>4 DEF Stage, StageFile, FileOf, At, Goto, memVars, openVars
  <2>2. \A d \in Clients : pc'[d] \in {"publish", "waiting"} => d = c
    BY <1>a, <2>1, ReadCalls
  <2>3. \A job \in duckdb' : /\ job.life = crashes' /\ mode' = "up"
                            /\ pc'[job.owner] = "waiting"
                            /\ job.watermark = held'[job.owner].max_lsn
    BY <1>b, <2>1
  <2> QED BY <1>a, <2>1, <2>2, <2>3, ReadCalls, ReadKept
<1>5. CASE Retire(c)
  <2>1. /\ UNCHANGED <<mode, openWm, crashes, staging, duckdb, catalog, active, index, reader, held,
                      loaded>>
        /\ pc[c] = "retire" /\ pc'[c] = "unstage" /\ Goto(c, "unstage") /\ mode = "up"
        /\ \A d \in Clients : d # c => pc'[d] = pc[d]
        /\ frozen' \subseteq frozen
    BY <1>0, <1>5 DEF Retire, At, Goto, lakeVars, openVars
  <2>2. \A d \in Clients : pc'[d] \notin Carrying
    BY <1>a, <2>1, ReadCalls
  <2>3. \A job \in duckdb' : /\ job.life = crashes' /\ mode' = "up"
                            /\ pc'[job.owner] = "waiting"
                            /\ job.watermark = held'[job.owner].max_lsn
    BY <1>b, <2>1
  <2> QED BY <1>a, <2>1, <2>2, <2>3, ReadCalls, ReadKept
<1>6. CASE Unstage(c) \/ FlushFail(c) \/ StageFail(c) \/ TruncateFail(c)
  <2>1. /\ UNCHANGED <<mode, openWm, crashes, duckdb, catalog, frozen, active, index, reader>>
        /\ Return(c) /\ pc[c] # "waiting"
        /\ staging' = staging \/ pc[c] = "stage" \/ staging' \subseteq staging
    BY <1>0, <1>6 DEF Unstage, FlushFail, StageFail, TruncateFail, UnstageFile, At, ReturnOk,
       ReturnErr, memVars, openVars, lakeVars
  <2>2. /\ \A d \in Clients : d # c => pc'[d] = pc[d] /\ held'[d] = held[d] /\ loaded'[d] = loaded[d]
        /\ pc'[c] = "idle"
    BY <1>0, <2>1 DEF Return, Goto
  <2>3. \A d \in Clients : pc'[d] \in {"publish", "waiting"} =>
            \A s \in staging' : s.watermark = held[d].max_lsn => s = FileOf(held[d])
    BY <1>a, <2>1, <2>2, ReadCalls
  <2>4. \A job \in duckdb' : /\ job.life = crashes' /\ mode' = "up"
                            /\ pc'[job.owner] = "waiting"
                            /\ job.watermark = held'[job.owner].max_lsn
    BY <1>c, <2>1
  <2> QED BY <1>a, <2>1, <2>2, <2>3, <2>4, ReadCalls, ReadKept
<1>7. CASE Abandon(c)
  BY <1>0, <1>7 DEF Abandon
<1> QED
  BY <1>1, <1>2, <1>3, <1>4, <1>5, <1>6, <1>7 DEF Flush, FlushFault

------------------------------------------------------------------------------
(* ReadInv is inductive: freezes, commits, restarts and reads.              *)

\* The freeze: nothing else is frozen, and no other call carries a memtable.
LEMMA ReadFreeze ==
    ASSUME ReadInv, SerialInv', OneFrozen', NEW c \in Clients, Freeze(c)
    PROVE  ReadInv'
<1>0. /\ TypeOK /\ SerialInv /\ EngineInv
      /\ pc \in [Clients -> Phases] /\ held \in [Clients -> Memtable]
      /\ \A m \in frozen : m.id \in Nat /\ m.id < active.id
      /\ active.id \in Nat
  BY ReadParts, ReadCalls
<1>1. /\ UNCHANGED <<mode, openWm, crashes, staging, duckdb, catalog, index, loaded, reader>>
      /\ mode = "up" /\ pc[c] = "freeze" /\ pc'[c] = "plan" /\ held'[c] = active
      /\ \A d \in Clients : d # c => pc'[d] = pc[d] /\ held'[d] = held[d]
      /\ frozen' = frozen \cup {active} /\ active.rows # {} /\ active'.rows = {}
      /\ PublishedWatermark' = PublishedWatermark
  BY <1>0, SameWatermark DEF Freeze, At, Goto, NewMemtable, openVars, lakeVars
<1>2. frozen = {} /\ frozen' = {active}
  BY <1>0, <1>1 DEF OneFrozen
<1>3. \A d \in Clients : d # c => pc'[d] \notin Carrying
  BY <1>1, <1>2, ReadCalls
<1>a. /\ "plan" \in BeforeCommit /\ BeforeCommit \subseteq Carrying
      /\ {"publish", "waiting", "store_index", "truncate", "retire"} \subseteq Carrying
  BY DEF Carrying, BeforeCommit, AfterCommit
<1>4. duckdb = {}
  BY <1>1, <1>2, <1>a, ReadCalls
<1>5. FlushOwnsFrozen'
  <2>1. /\ \A m \in frozen' : m.rows # {}
        /\ \A d \in Clients : pc'[d] \in Carrying => held'[d] \in frozen'
        /\ \A d, e \in Clients : pc'[d] \in Carrying /\ pc'[e] \in Carrying => d = e
        /\ \A d \in Clients : pc'[d] \notin {"skip_truncate", "skip_retire"}
    BY <1>1, <1>2, <1>3, ReadCalls
  <2>2. \A d \in Clients : pc'[d] \notin {"publish", "waiting"}
    BY <1>1, <1>3, <1>a
  <2> QED BY <1>1, <1>4, <2>1, <2>2
      DEF FlushOwnsFrozen, Carrying, BeforeCommit, AfterCommit
<1>6. LevelsAreOrdered'
  <2>1. /\ active.max_lsn \in Nat /\ PublishedWatermark \in Nat
        /\ Exact(active.rows, active.max_lsn)
        /\ \A s \in active.rows : s.lsn > PublishedWatermark
    BY <1>0, LevelsTyped, ReadParts DEF EngineInv, TablesExact, ReadInv, LevelsAreOrdered
  <2>2. PublishedWatermark <= active.max_lsn
    BY <1>1, <2>1 DEF Exact
  <2>3. \A d \in Clients : pc'[d] \in BeforeCommit => d = c
    BY <1>3, <1>a
  <2> QED BY <1>1, <1>2, <2>1, <2>2, <2>3 DEF ReadInv, LevelsAreOrdered, BeforeCommit
<1>7. IndexOrMemory'
  <2>1. \A d \in Clients : pc'[d] \notin {"store_index", "truncate", "retire"}
    BY <1>1, <1>3, <1>a
  <2> QED BY <1>1, <2>1 DEF ReadInv, IndexOrMemory, FileOf
<1>8. ReaderWillFind'
  BY <1>1 DEF ReadInv, ReaderWillFind
<1> QED
  BY <1>5, <1>6, <1>7, <1>8 DEF ReadInv

\* There is one publish job at a time.
LEMMA OneJob ==
    ASSUME ReadInv, NEW job \in duckdb, NEW other \in duckdb
    PROVE  other = job
<1>1. /\ other.owner \in Clients /\ job.owner \in Clients
      /\ pc[other.owner] = "waiting" /\ pc[job.owner] = "waiting"
      /\ other.life = job.life
      /\ other.watermark = held[other.owner].max_lsn /\ job.watermark = held[job.owner].max_lsn
  BY ReadCalls
<1>2. other.owner = job.owner
  BY <1>1, ReadCalls DEF Carrying, BeforeCommit
<1>3. {other, job} \subseteq [owner : Clients, life : 0 .. MaxCrashes, watermark : 0 .. MaxLsn]
  BY ReadCalls
<1> QED
  BY <1>1, <1>2, <1>3

\* A commit: the file is the one frozen memtable, above everything published.
LEMMA ReadCommit ==
    ASSUME ReadInv, SerialInv', OneFrozen, NEW job \in duckdb,
           DuckCommit(job) \/ DuckCommitThenFail(job)
    PROVE  ReadInv'
<1> DEFINE c == job.owner
           file == FileOf(held[c])
<1>0. /\ TypeOK /\ SerialInv /\ EngineInv
      /\ pc \in [Clients -> Phases] /\ held \in [Clients -> Memtable]
      /\ loaded \in [Clients -> Seq(File)] /\ catalog \in Seq(File)
      /\ PublishedWatermark \in Nat
      /\ \A d \in Durable : d.lsn \in Nat
  BY ReadParts, ReadCalls DEF TypeOK
<1>a. /\ Carrying = {"plan", "stage", "publish", "waiting", "load_index", "store_index", "truncate",
                    "retire"}
      /\ BeforeCommit = {"plan", "stage", "publish", "waiting"}
  BY DEF Carrying, BeforeCommit, AfterCommit
<1>1. /\ c \in Clients /\ mode = "up" /\ pc[c] = "waiting"
      /\ held[c] \in frozen /\ held[c].max_lsn = job.watermark
      /\ Waiting(job)
  BY <1>a, ReadCalls DEF Waiting, At
<1>2. /\ UNCHANGED <<mode, openWm, crashes, frozen, active, index, reader, staging>>
      /\ CommitPublish(job) /\ duckdb' = duckdb \ {job}
      /\ pc'[c] \in {"load_index", "idle"}
      /\ pc'[c] = "load_index" => held'[c] = held[c]
      /\ \A d \in Clients : d # c => pc'[d] = pc[d] /\ held'[d] = held[d] /\ loaded'[d] = loaded[d]
  <2>1. CASE DuckCommit(job)
    BY <1>0, <1>1, <2>1 DEF DuckCommit, CommitPublish, memVars, openVars
  <2>2. CASE DuckCommitThenFail(job)
    BY <1>0, <1>1, <2>2 DEF DuckCommitThenFail, CommitPublish, ReturnErr, Return, Goto, memVars,
       openVars
  <2> QED BY <2>1, <2>2
<1>3. /\ catalog' = Append(catalog, file) /\ file \in File
      /\ file.rows = held[c].rows
  <2>1. PICK s \in StagedFor(job) :
            catalog' = Append(catalog, [rows |-> s.rows, watermark |-> MaxLsnOf(s.rows)])
    BY <1>2 DEF CommitPublish
  <2>2. /\ MaxLsnOf(s.rows) = s.watermark /\ s.watermark = job.watermark /\ s \in staging
    BY <1>0, StagedWatermark DEF EngineInv
  <2>3. s = file
    BY <1>1, <2>2, ReadCalls
  <2>4. s \in File
    BY <1>0, <2>2 DEF TypeOK
  <2>5. [rows |-> s.rows, watermark |-> MaxLsnOf(s.rows)] = s
    BY <2>2, <2>4 DEF File
  <2> QED BY <2>1, <2>3, <2>4, <2>5 DEF FileOf
<1>4. Range(catalog') = Range(catalog) \cup {file}
  BY <1>0, <1>3, RangeOfAppend
<1>5. duckdb' = {}
  BY <1>2, OneJob
<1>6. \A d \in Clients : d # c => pc'[d] \notin Carrying
  BY <1>1, <1>2, <1>a, ReadCalls
<1>7. PublishedWatermark' <= held[c].max_lsn /\ PublishedWatermark' \in Nat
  <2>1. PublishedWatermark' \in {PublishedWatermark, job.watermark} /\ EngineInv' /\ TypeOK'
    BY <1>0, <1>2, CommitRaises DEF SerialInv, EngineInv
  <2>2. PublishedWatermark <= held[c].max_lsn /\ held[c].max_lsn \in Nat
    BY <1>0, <1>1, LevelsTyped DEF ReadInv, LevelsAreOrdered
  <2> QED BY <1>0, <1>1, <2>1, <2>2
<1>8. FlushOwnsFrozen'
  <2>1. /\ \A m \in frozen' : m.rows # {}
        /\ \A d \in Clients : pc'[d] \in Carrying => held'[d] \in frozen'
        /\ \A d, e \in Clients : pc'[d] \in Carrying /\ pc'[e] \in Carrying => d = e
        /\ \A d \in Clients : pc'[d] \notin {"skip_truncate", "skip_retire"}
    BY <1>1, <1>2, <1>6, <1>a, ReadCalls DEF ReadInv, FlushOwnsFrozen
  <2>2. \A d \in Clients : pc'[d] \notin {"publish", "waiting"}
    BY <1>2, <1>6, <1>a
  <2> QED BY <1>5, <2>1, <2>2 DEF FlushOwnsFrozen, Carrying, BeforeCommit, AfterCommit
<1>9. LevelsAreOrdered'
  <2>1. /\ \A m \in frozen : m = held[c]
        /\ \A s \in active.rows : held[c].max_lsn < s.lsn /\ s.lsn \in Nat
    <3>1. \A s \in active.rows : s.lsn \in Nat
      BY <1>0, InLogged, InDurable
    <3> QED BY <1>1, <3>1 DEF OneFrozen, ReadInv, LevelsAreOrdered
  <2>2. /\ \A s \in active'.rows : s.lsn > PublishedWatermark'
        /\ \A m \in frozen' : /\ PublishedWatermark' <= m.max_lsn
                              /\ \A s \in active'.rows : m.max_lsn < s.lsn
    BY <1>0, <1>1, <1>2, <1>7, <2>1, LevelsTyped
  <2>3. \A d \in Clients : pc'[d] \notin BeforeCommit
    BY <1>2, <1>6, <1>a
  <2>4. ASSUME NEW i \in DOMAIN catalog', NEW j \in DOMAIN catalog', i < j,
               NEW r \in catalog'[i].rows, NEW s \in catalog'[j].rows
        PROVE  r.lsn < s.lsn
    <3>1. /\ DOMAIN catalog' = 1 .. Len(catalog) + 1
          /\ \A n \in 1 .. Len(catalog) : catalog'[n] = catalog[n]
          /\ catalog'[Len(catalog) + 1] = file
          /\ DOMAIN catalog = 1 .. Len(catalog) /\ Len(catalog) \in Nat
      BY <1>0, <1>3
    <3>2. i \in 1 .. Len(catalog)
      BY <2>4, <3>1
    <3>3. CASE j \in 1 .. Len(catalog)
      BY <2>4, <3>1, <3>2, <3>3 DEF ReadInv, LevelsAreOrdered
    <3>4. CASE j = Len(catalog) + 1
      <4>1. s \in held[c].rows /\ s.lsn > PublishedWatermark
        BY <1>1, <1>3, <1>a, <2>4, <3>1, <3>4 DEF ReadInv, LevelsAreOrdered
      <4>2. catalog[i] \in Range(catalog) /\ r \in catalog[i].rows
        BY <2>4, <3>1, <3>2 DEF Range
      <4>3. r.lsn <= catalog[i].watermark
        BY <1>0, <4>2 DEF SerialInv, FilesNewest, Exact
      <4>4. catalog[i].watermark <= PublishedWatermark /\ catalog[i].watermark \in Nat
        BY <1>0, <4>2, WatermarkOfFiles, LevelsTyped
      <4>5. r.lsn \in Nat /\ s.lsn \in Nat
        BY <1>0, <1>1, <4>1, <4>2, InLogged, InDurable
      <4> QED BY <1>0, <4>1, <4>3, <4>4, <4>5
    <3> QED BY <3>1, <3>3, <3>4
  <2> QED BY <2>2, <2>3, <2>4 DEF LevelsAreOrdered, BeforeCommit
<1>10. IndexOrMemory'
  <2>1. \A d \in Clients : pc'[d] \notin {"store_index", "truncate", "retire"}
    BY <1>2, <1>6, <1>a
  <2> QED BY <1>1, <1>2, <1>4, <2>1 DEF ReadInv, IndexOrMemory, FileOf
<1>11. ReaderWillFind'
  BY <1>2 DEF ReadInv, ReaderWillFind
<1> QED
  BY <1>8, <1>9, <1>10, <1>11 DEF ReadInv

\* A publish fails before its commit: the memtable stays where it is, unpublished.
LEMMA ReadDuckFail ==
    ASSUME ReadInv, SerialInv', NEW job \in duckdb, DuckFail(job)
    PROVE  ReadInv'
<1> DEFINE c == job.owner
<1>0. /\ pc \in [Clients -> Phases] /\ held \in [Clients -> Memtable]
      /\ loaded \in [Clients -> Seq(File)]
      /\ c \in Clients /\ pc[c] = "waiting" /\ Waiting(job)
  BY ReadCalls DEF ReadInv, FlushOwnsFrozen
<1>1. /\ UNCHANGED <<mode, openWm, crashes, frozen, active, index, reader, staging, catalog>>
      /\ duckdb' = {}
      /\ pc'[c] = "idle"
      /\ \A d \in Clients : d # c => pc'[d] = pc[d] /\ held'[d] = held[d] /\ loaded'[d] = loaded[d]
  <2>1. duckdb' = duckdb \ {job} /\ Return(c)
    BY <1>0 DEF DuckFail, ReturnErr
  <2>2. duckdb' = {}
    BY <2>1, OneJob
  <2> QED BY <1>0, <2>1, <2>2 DEF DuckFail, Return, Goto, memVars, openVars
<1>2. /\ "idle" \notin Carrying /\ "idle" \notin BeforeCommit
      /\ {"publish", "waiting", "store_index", "truncate", "retire"} \subseteq Carrying
  BY DEF Carrying, BeforeCommit, AfterCommit
<1>3. /\ \A d \in Clients : pc'[d] \in Carrying =>
             pc[d] \in Carrying /\ held'[d] = held[d] /\ held[d] \in frozen'
      /\ \A d \in Clients : pc'[d] \in BeforeCommit => pc[d] \in BeforeCommit
      /\ \A d \in Clients : pc'[d] \notin {"skip_truncate", "skip_retire"}
  BY <1>1, <1>2, ReadCalls
<1>4. /\ \A d \in Clients : pc'[d] \in {"publish", "waiting"} =>
             \A s \in staging' : s.watermark = held[d].max_lsn => s = FileOf(held[d])
      /\ \A d \in Clients : pc'[d] = "store_index" => loaded'[d] = catalog
      /\ \A d \in Clients : pc'[d] \in {"truncate", "retire"} => index' = catalog
  BY <1>1, ReadCalls
<1> QED
  BY <1>1, <1>3, <1>4, ReadKept

\* A crash without survivors, and the recovery.
LEMMA ReadRestart ==
    ASSUME ReadInv, SerialInv', SerialReads, Crash \/ OpenWatermark \/ OpenIndex \/ OpenWal
    PROVE  ReadInv'
<1>0. /\ TypeOK /\ EngineInv /\ SerialInv
      /\ \A job \in duckdb : mode = "up"
      /\ PublishedWatermark \in Nat
  BY ReadParts, ReadCalls
<1>a. /\ "idle" \notin Carrying /\ "idle" \notin BeforeCommit
  BY DEF Carrying, BeforeCommit, AfterCommit
<1>1. /\ frozen' = {} /\ duckdb' = {} /\ catalog' = catalog
      /\ PublishedWatermark' = PublishedWatermark
      /\ \A c \in Clients : pc'[c] = "idle"
  <2>1. CASE Crash
    <3>1. duckdb' = {}
      BY <2>1 DEF Crash, SerialReads
    <3> QED BY <2>1, <3>1, SameWatermark DEF Crash
  <2>2. CASE OpenWatermark \/ OpenIndex \/ OpenWal
    <3>1. mode # "up" /\ UNCHANGED <<frozen, lakeVars, pc>>
      BY <2>2 DEF OpenWatermark, OpenIndex, OpenWal, memVars, callVars
    <3>2. frozen = {} /\ \A c \in Clients : pc[c] = "idle"
      BY <1>0, <3>1 DEF SerialInv, RetiresItsOwn, EngineInv, DownIsEmpty
    <3>3. duckdb = {}
      BY <1>0, <3>1
    <3> QED BY <3>1, <3>2, <3>3, SameWatermark DEF lakeVars
  <2> QED BY <2>1, <2>2
<1>2. FlushOwnsFrozen'
  BY <1>1, <1>a DEF FlushOwnsFrozen, Carrying, BeforeCommit, AfterCommit
<1>3. \A s \in active'.rows : s.lsn > PublishedWatermark
  <2>1. CASE Crash
    BY <2>1 DEF Crash, NewMemtable
  <2>2. CASE OpenWatermark \/ OpenIndex
    BY <2>2 DEF OpenWatermark, OpenIndex, memVars, ReadInv, LevelsAreOrdered
  <2>3. CASE OpenWal
    <3>1. /\ active' = Replayed(LogReplay(openWm)) /\ openWm = PublishedWatermark
      BY <2>3 DEF OpenWal, ReadInv, IndexOrMemory
    <3>2. LogReplay(openWm) \in SUBSET Record
      BY <1>0 DEF LogReplay, TypeOK, LogTypeOK
    <3>3. active'.rows \subseteq LogReplay(openWm)
      BY <3>1, <3>2, ReplayedExact
    <3> QED BY <3>1, <3>3 DEF LogReplay
  <2> QED BY <2>1, <2>2, <2>3
<1>4. LevelsAreOrdered'
  BY <1>1, <1>3, <1>a DEF ReadInv, LevelsAreOrdered, BeforeCommit
<1>5. IndexOrMemory'
  <2>1. CASE Crash
    BY <1>1, <2>1 DEF Crash, IndexOrMemory
  <2>2. CASE OpenWatermark
    BY <1>1, <2>2 DEF OpenWatermark, IndexOrMemory
  <2>3. CASE OpenIndex
    BY <1>1, <2>3 DEF OpenIndex, IndexOrMemory, ReadInv
  <2>4. CASE OpenWal
    <3>1. index' = catalog' /\ mode' = "up"
      BY <1>1, <2>4 DEF OpenWal, IndexOrMemory, ReadInv
    <3> QED BY <1>1, <3>1 DEF IndexOrMemory
  <2> QED BY <2>1, <2>2, <2>3, <2>4
<1>6. ReaderWillFind'
  <2>1. CASE Crash
    <3>1. \A r \in Readers : reader'[r].floor = 0
      BY <2>1 DEF Crash, NoRead
    <3> QED BY <3>1 DEF ReaderWillFind
  <2>2. CASE OpenWatermark \/ OpenIndex \/ OpenWal
    <3>1. reader' = reader /\ index' \in {index, catalog}
      BY <2>2 DEF OpenWatermark, OpenIndex, OpenWal
    <3>2. Range(index) \subseteq Range(index')
      BY <1>0, <3>1 DEF SerialInv, IndexBehindLake
    <3> QED BY <3>1, <3>2 DEF ReadInv, ReaderWillFind
  <2> QED BY <2>1, <2>2
<1> QED
  BY <1>2, <1>4, <1>5, <1>6 DEF ReadInv

\* An acknowledged record is not waiting to be inserted.
LEMMA AckedIsInserted ==
    ASSUME ReadInv, NEW r \in acked
    PROVE  r \in Durable /\ ~Inserting(r)
<1>1. r \in Durable /\ r.lsn \in Nat
  BY InLogged, InDurable, ReadParts
<1>2. ASSUME NEW c \in Clients, pc[c] = "insert", r \in pending[c]
      PROVE  FALSE
  BY <1>2 DEF ReadInv, SerialInv, PendingIsLater, Writing
<1> QED
  BY <1>1, <1>2 DEF Inserting

\* The steps of a get.
LEMMA ReadGet ==
    ASSUME ReadInv, SerialInv', OneFrozen, NEW r \in Readers,
           (\E k \in Keys : GetRowTier(r, k)) \/ GetColumnar(r) \/ GetReturn(r)
    PROVE  ReadInv'
<1>0. /\ TypeOK /\ SerialInv /\ EngineInv
      /\ reader \in [Readers -> [at : {"idle"} \cup Keys \cup {"done"},
                                floor : 0 .. MaxLsn, got : SUBSET Record]]
      /\ index \in Seq(File) /\ Range(index) \subseteq Range(catalog)
      /\ \A d \in Durable : d \in Record /\ d.lsn \in Nat
  BY ReadParts DEF TypeOK, SerialInv, IndexBehindLake
<1>1. /\ UNCHANGED <<logVars, lakeVars, openVars, memVars, index, callVars, acked>>
      /\ \A q \in Readers : q # r => reader'[q] = reader[q]
  BY <1>0 DEF GetRowTier, GetColumnar, GetReturn
<1>2. UNCHANGED <<staging, duckdb, catalog, mode, openWm, crashes, active, frozen, pc, held, loaded>>
  BY <1>1 DEF lakeVars, openVars, memVars, callVars
<1>3. FlushOwnsFrozen' /\ LevelsAreOrdered' /\ IndexOrMemory'
  <2>1. PublishedWatermark' = PublishedWatermark
    BY <1>2, SameWatermark
  <2>2. FlushOwnsFrozen'
    BY <1>2 DEF ReadInv, FlushOwnsFrozen, Waiting, At, FileOf, Carrying, BeforeCommit, AfterCommit
  <2>3. LevelsAreOrdered'
    BY <1>2, <2>1 DEF ReadInv, LevelsAreOrdered, BeforeCommit
  <2>4. IndexOrMemory'
    BY <1>1, <1>2, <2>1 DEF ReadInv, IndexOrMemory, FileOf
  <2> QED BY <2>2, <2>3, <2>4
<1>4. reader'[r].floor > 0 =>
        /\ reader'[r].at \in Keys => \E f \in Range(index) : \E a \in Of(f.rows, reader'[r].at) :
                                         a.lsn >= reader'[r].floor
        /\ reader'[r].at = "done" => \E a \in reader'[r].got : a.lsn >= reader'[r].floor
  <2>1. ASSUME NEW k \in Keys, GetRowTier(r, k), reader'[r].floor > 0
        PROVE  /\ reader'[r].at \in Keys => \E f \in Range(index) : \E a \in Of(f.rows, reader'[r].at) :
                                                a.lsn >= reader'[r].floor
               /\ reader'[r].at = "done" => \E a \in reader'[r].got : a.lsn >= reader'[r].floor
    <3> DEFINE hit == RowTierGet(frozen \cup {active}, k)
    <3>1. /\ mode = "up"
          /\ reader'[r].at = IF hit = {} THEN k ELSE "done"
          /\ reader'[r].floor = MaxLsnOf(Of(acked, k)) /\ reader'[r].got = hit
      BY <1>0, <2>1 DEF GetRowTier
    <3>2. Of(acked, k) \in SUBSET Record
      BY <1>0 DEF TypeOK, Of
    <3>3. PICK w \in Of(acked, k) : w.lsn = reader'[r].floor
      BY <2>1, <3>1, <3>2, MaxLsnOfRecords
    <3>4. w \in acked /\ w.key = k /\ w \in Durable /\ ~Inserting(w)
      BY <3>3, AckedIsInserted DEF Of
    <3>5. CASE hit = {}
      <4>1. PICK f \in Range(index) : CoveredBy(f.rows, w)
        BY <3>1, <3>4, <3>5, MissIsInIndex
      <4>2. \E a \in Of(f.rows, k) : a.lsn >= w.lsn
        BY <3>4, <4>1 DEF CoveredBy, Of
      <4> QED BY <3>1, <3>3, <3>5, <4>2, EngineAssumption
    <3>6. CASE hit # {}
      <4>1. PICK a \in hit : TRUE
        BY <3>6
      <4>2. a.lsn >= w.lsn
        BY <3>1, <3>4, <4>1, RowTierIsNewest
      <4> QED BY <3>1, <3>3, <3>6, <4>1, <4>2, EngineAssumption
    <3> QED BY <3>5, <3>6
  <2>2. ASSUME GetColumnar(r), reader'[r].floor > 0
        PROVE  reader'[r].at = "done" /\ \E a \in reader'[r].got : a.lsn >= reader'[r].floor
    <3> DEFINE k == reader[r].at
               answers == ColumnarGet(index, k)
    <3>1. PICK hit \in IF answers = {} THEN {{}} ELSE {{a} : a \in answers} :
              reader' = [reader EXCEPT ![r].at = "done", ![r].got = hit]
      BY <2>2 DEF GetColumnar
    <3>2. /\ k \in Keys /\ reader'[r].at = "done" /\ reader'[r].got = hit
          /\ reader'[r].floor = reader[r].floor /\ reader[r].floor \in Nat
      <4>1. reader'[r] = [reader[r] EXCEPT !.at = "done", !.got = hit]
        BY <1>0, <3>1
      <4>2. reader[r] \in [at : {"idle"} \cup Keys \cup {"done"}, floor : 0 .. MaxLsn,
                           got : SUBSET Record]
        BY <1>0
      <4>3. k \in Keys
        BY <2>2 DEF GetColumnar
      <4> HIDE DEF answers
      <4> QED BY <4>1, <4>2, <4>3, RecordAssumption
    <3>3. PICK f \in Range(index) : \E s \in Of(f.rows, k) : s.lsn >= reader[r].floor
      BY <2>2, <3>2 DEF ReadInv, ReaderWillFind
    <3>4. PICK s \in f.rows : s.key = k /\ s.lsn >= reader[r].floor
      BY <3>3 DEF Of
    <3>5. Covers(answers, s)
      BY <1>0, <3>4, FilesAnswer
    <3>6. PICK a \in answers : hit = {a}
      BY <3>1, <3>5 DEF Covers
    <3>7. a.lsn >= s.lsn
      BY <3>5, <3>6 DEF Covers
    <3>8. s.lsn \in Nat /\ a.lsn \in Nat
      <4>1. s \in Durable
        BY <1>0, <3>4, InLogged, InDurable
      <4>2. a \in Record
        BY <1>0, <3>6, ColumnarGetType
      <4> QED BY <1>0, <4>1, <4>2, RecordAssumption DEF Record, Lsn
    <3> QED BY <3>2, <3>4, <3>6, <3>7, <3>8
  <2>3. ASSUME GetReturn(r) PROVE reader'[r].floor = 0
    BY <1>0, <2>3 DEF GetReturn, NoRead
  <2> QED BY <2>1, <2>2, <2>3, EngineAssumption
<1>5. ReaderWillFind'
  <2> SUFFICES ASSUME NEW q \in Readers, reader'[q].floor > 0
               PROVE  /\ reader'[q].at \in Keys =>
                            \E f \in Range(index') : \E a \in Of(f.rows, reader'[q].at) :
                                a.lsn >= reader'[q].floor
                      /\ reader'[q].at = "done" => \E a \in reader'[q].got : a.lsn >= reader'[q].floor
    BY DEF ReaderWillFind
  <2>1. CASE q = r
    BY <1>1, <1>4, <2>1
  <2>2. CASE q # r
    BY <1>1, <2>2 DEF ReadInv, ReaderWillFind
  <2> QED BY <2>1, <2>2
<1> QED
  BY <1>3, <1>5 DEF ReadInv

\* Every step between two states in which the callers keep to SerialReads preserves
\* ReadInv.
LEMMA ReadStep == ReadInv /\ SerialReads /\ SerialReads' /\ [Next]_vars => ReadInv'
<1> SUFFICES ASSUME ReadInv, SerialReads, SerialReads', [Next]_vars PROVE ReadInv'
  OBVIOUS
<1>0. /\ SerialInv' /\ Serial /\ OneFrozen /\ OneFrozen'
  BY SerialStep DEF ReadInv, SerialReads
<1>1. CASE UNCHANGED vars
  BY <1>0, <1>1, ReadQuiet DEF vars, openVars, memVars, callVars
<1>2. CASE \E c \in Writers : \/ \E k \in Keys, v \in Values \cup {Tombstone} : TakeLsn(c, k, v)
                             \/ Write(c)
                             \/ WalAppendFail(c)
  <2>1. \A c \in Writers : ~WalAppendFail(c)
    BY <1>0 DEF Serial, WalAppendFail
  <2> QED BY <1>0, <1>2, <2>1, ReadWrite
<1>3. CASE \E c \in Clients : Flush(c) \/ FlushFault(c) \/ CallFlush(c)
  <2>1. PICK c \in Clients : Flush(c) \/ FlushFault(c) \/ CallFlush(c)
    BY <1>3
  <2> QED BY <1>0, <2>1, ReadFlush, ReadFreeze
<1>4. CASE (\E r \in unsynced : LateAppend(r)) \/ LateTruncate
  BY <1>0, <1>4 DEF Serial, LateAppend, LateTruncate
<1>5. CASE \E job \in duckdb : DuckCommit(job) \/ DuckCommitThenFail(job) \/ DuckFail(job)
  BY <1>0, <1>5, ReadCommit, ReadDuckFail
<1>6. CASE \E r \in Readers : \/ \E k \in Keys : GetRowTier(r, k)
                             \/ GetColumnar(r)
                             \/ GetReturn(r)
  BY <1>0, <1>6, ReadGet
<1>7. CASE Crash \/ OpenWatermark \/ OpenIndex \/ OpenWal
  BY <1>0, <1>7, ReadRestart
<1> QED
  BY <1>1, <1>2, <1>3, <1>4, <1>5, <1>6, <1>7 DEF Next, Clients

\* The first state.
LEMMA ReadInit == Init => ReadInv
<1> SUFFICES ASSUME Init PROVE ReadInv
  OBVIOUS
<1>1. SerialInv
  BY SerialInit
<1>2. /\ frozen = {} /\ duckdb = {} /\ catalog = << >> /\ active.rows = {} /\ mode = "down"
      /\ \A c \in Clients : pc[c] = "idle"
      /\ \A r \in Readers : reader[r].floor = 0
  BY DEF Init, LakeInit, NewMemtable, NoRead
<1>3. FlushOwnsFrozen
  BY <1>2 DEF FlushOwnsFrozen, Carrying, BeforeCommit, AfterCommit
<1>4. LevelsAreOrdered
  BY <1>2 DEF LevelsAreOrdered, BeforeCommit
<1>5. IndexOrMemory /\ ReaderWillFind
  BY <1>2 DEF IndexOrMemory, ReaderWillFind
<1> QED
  BY <1>1, <1>3, <1>4, <1>5 DEF ReadInv

\* The inductive invariant of reads holds as long as the callers keep to SerialReads.
THEOREM ReadInvariantHolds == Spec /\ []SerialReads => []ReadInv
  BY ReadInit, ReadStep, PTL DEF Spec

------------------------------------------------------------------------------
(* What it gives.                                                           *)

\* No acknowledged write is invisible, not while its memtable is frozen, staged,
\* published, indexed and retired, nor after a flush that failed.
THEOREM AckedIsVisible == Spec /\ []SerialReads => []Visibility
<1>1. ReadInv /\ SerialReads => Visibility
  BY AckedIsInserted, DurableIsVisible DEF Visibility, SerialReads
<1> QED
  BY <1>1, ReadInvariantHolds, PTL

\* What a get answers, as a state predicate.
DurableShows ==
    /\ \A k : \A a \in Get(k) : a.lsn \in Nat
    /\ mode = "up" => \A r \in Durable : ~Inserting(r) => Covers(Get(r.key), r)

\* A write that a get can answer with is not on its way in, before or after a step.
LEMMA AnswersStayIn ==
    ASSUME ReadInv, mode = "up", [Next]_vars, NEW a \in MemRows \cup LakeRows
    PROVE  \A c \in Clients : pc'[c] \in Writing => a \notin pending'[c]
<1>1. /\ SerialInv /\ EngineInv /\ TypeOK
      /\ \A c \in Clients : pc[c] \in Writing => a \notin pending[c]
  <2>1. a \in Durable
    BY DEF Durable, Logged
  <2>2. a.lsn \in Nat
    BY <2>1, ReadParts
  <2>3. a \in active.rows \/ a \in FrozenRows \cup LakeRows
    BY DEF MemRows, FrozenRows
  <2> QED BY <2>2, <2>3, ReadParts DEF SerialInv, PendingIsLater
<1>2. a.lsn < nextLsn /\ a.lsn \in Nat /\ nextLsn \in Nat
  <2>1. a \in AllRecords /\ a \in Durable
    BY DEF AllRecords, Logged, Durable
  <2> QED BY <1>1, <2>1, ReadParts DEF EngineInv, LsnsBelowNext, TypeOK
<1>3. CASE \E c \in Writers, k \in Keys, v \in Values \cup {Tombstone} : TakeLsn(c, k, v)
  <2>1. PICK c \in Clients : \E k, v : TakeLsn(c, k, v)
    BY <1>3 DEF Clients
  <2>2. a \notin pending'[c]
    BY <1>1, <1>2, <2>1, WriteFacts
  <2> QED BY <1>1, <2>1, <2>2, WriteFacts
<1>4. CASE (\E c \in Writers : MemInsert(c)) \/ \E c \in Clients : Freeze(c)
  <2>1. PICK c \in Clients : MemInsert(c) \/ Freeze(c)
    BY <1>4 DEF Clients
  <2>2. /\ pending' = pending /\ pc'[c] \notin Writing
        /\ \A d \in Clients : d # c => pc'[d] = pc[d]
    BY <1>1, <2>1, WriteFacts
  <2> QED BY <1>1, <2>2
<1>5. CASE \A c \in Clients : pc'[c] \in Writing => pc[c] \in Writing /\ pending'[c] = pending[c]
  BY <1>1, <1>5
<1> QED
  BY <1>1, <1>3, <1>4, <1>5, WriteSteps

\* Reads are monotonic: no step of a write, of a flush or of another caller makes a
\* get answer with an older write than before it, while the process is up.
THEOREM ReadsNeverGoBack == Spec /\ []SerialReads => GetNeverGoesBack
<1>1. ReadInv /\ SerialReads => DurableShows
  BY ReadParts, GetIsDurable, DurableIsVisible DEF DurableShows, SerialReads
<1>2. ASSUME ReadInv, ReadInv', DurableShows', [Next]_vars, mode = "up", mode' = "up",
             NEW k \in Keys, NEW a \in Get(k)
      PROVE  Covers(Get(k)', a)
  <2>1. /\ SerialInv /\ EngineInv /\ PublishedWatermark \in Nat
        /\ a \in Durable /\ a.key = k /\ a.lsn \in Nat
        /\ \A d \in Durable : d.lsn \in Nat
    BY <1>2, ReadParts, GetIsDurable
  <2>2. a \in MemRows \cup LakeRows
    <3>1. CASE a \in RowTierGet(frozen \cup {active}, k)
      BY <3>1 DEF RowTierGet, MemRows, Of
    <3>2. CASE a \in ColumnarGet(index, k)
      BY <2>1, <3>2 DEF ColumnarGet, LakeRows, Of, SerialInv, IndexBehindLake
    <3> QED BY <3>1, <3>2 DEF Get
  <2>3. ASSUME NEW s \in Durable', s \in MemRows \cup LakeRows, s.key = k, s.lsn >= a.lsn
        PROVE  Covers(Get(k)', a)
    <3>1. ~Inserting(s)'
      BY <1>2, <2>3, AnswersStayIn DEF Inserting, Writing
    <3>2. Covers(Get(k)', s)
      BY <1>2, <2>3, <3>1 DEF DurableShows
    <3>3. s \in Durable
      BY <2>3 DEF Durable, Logged
    <3>4. \A b \in Get(k)' : b.lsn >= s.lsn /\ b.lsn \in Nat
      BY <1>2, <3>2 DEF Covers, DurableShows
    <3> QED BY <2>1, <2>3, <3>2, <3>3, <3>4 DEF Covers
  <2>4. CASE a \in wal'
    <3>1. a \in Durable'
      BY <2>4 DEF Durable, Logged
    <3> QED BY <2>1, <2>2, <2>3, <3>1
  <2>5. CASE a.lsn <= PublishedWatermark
    <3>1. PICK s \in LakeRows : s.key = k /\ s.lsn >= a.lsn
      BY <2>1, <2>5 DEF SerialInv, LakeCovers, CoveredBy
    <3>2. s \in LakeRows'
      BY <1>2, <2>1, <3>1, StepKeeps DEF LakeRows
    <3>3. s \in Durable'
      BY <3>2 DEF Durable, Logged
    <3> QED BY <2>3, <3>1, <3>3
  <2>6. a \in wal \/ a.lsn <= PublishedWatermark
    <3>1. a \in Logged
      BY <2>2 DEF Logged
    <3> QED BY <2>1, <3>1 DEF EngineInv, TruncateAfterPublish
  <2> QED BY <1>2, <2>1, <2>4, <2>5, <2>6, StepKeeps
<1>3. ReadInv /\ ReadInv' /\ DurableShows' /\ [Next]_vars =>
          [mode = "up" /\ mode' = "up" =>
              \A k \in Keys : \A a \in Get(k) : Covers(Get(k)', a)]_vars
  BY <1>2
<1> QED
  BY <1>1, <1>3, ReadInvariantHolds, PTL DEF Spec, GetNeverGoesBack

\* What is readable is what a crash would preserve: the engine in memory and the
\* engine a restart would build answer every key alike, outside the window between
\* fsync and insert.
THEOREM ReadsMatchRecovery == Spec /\ []SerialReads => []ReadMatchesRecovery
<1>1. ReadInv /\ SerialReads => ReadMatchesRecovery
  <2> SUFFICES ASSUME ReadInv, SerialReads, mode = "up", \A c \in Clients : pc[c] # "insert",
                      NEW k \in Keys
               PROVE  Get(k) = Recovered(k)
    BY DEF ReadMatchesRecovery
  <2>0. /\ SerialInv /\ EngineInv /\ TypeOK /\ OneFrozen
        /\ \A r : ~Inserting(r)
        /\ \A r \in Durable : r.lsn \in Nat
        /\ \A r, s \in Durable : r.lsn = s.lsn => r = s
    <3>1. \A r \in Durable : r \in AllRecords
      BY InDurable, InAllRecords
    <3> QED BY <3>1, ReadParts DEF Inserting, SerialReads, EngineInv, LsnUnique
  <2>1. \A b \in Recovered(k) : b \in Durable /\ b.key = k
    BY <2>0, RecoveredKept DEF RecoveredIsKept
  <2>2. \A a \in Get(k) : a \in Durable /\ a.key = k
    BY GetIsDurable, <2>0
  <2>3. ASSUME NEW a \in Get(k) PROVE a \in Recovered(k)
    <3>1. a \in Durable /\ a.key = k
      BY <2>2
    <3>2. Covers(Recovered(k), a)
      BY <2>0, <3>1, DurableRecovered
    <3>3. PICK b \in Recovered(k) : b.lsn >= a.lsn
      BY <3>2 DEF Covers
    <3>4. b \in Durable /\ b.key = k
      BY <2>1
    <3>5. Covers(Get(k), b)
      BY <2>0, <3>4, DurableIsVisible
    <3>6. a.lsn >= b.lsn
      BY <3>5 DEF Covers
    <3> QED BY <2>0, <3>1, <3>3, <3>4, <3>6
  <2>4. ASSUME NEW b \in Recovered(k) PROVE b \in Get(k)
    <3>1. b \in Durable /\ b.key = k
      BY <2>1
    <3>2. Covers(Get(k), b)
      BY <2>0, <3>1, DurableIsVisible
    <3>3. PICK a \in Get(k) : a.lsn >= b.lsn
      BY <3>2 DEF Covers
    <3>4. a \in Durable /\ a.key = k
      BY <2>2
    <3>5. Covers(Recovered(k), a)
      BY <2>0, <3>4, DurableRecovered
    <3>6. b.lsn >= a.lsn
      BY <3>5 DEF Covers
    <3> QED BY <2>0, <3>1, <3>3, <3>4, <3>6
  <2> QED BY <2>3, <2>4
<1> QED
  BY <1>1, ReadInvariantHolds, PTL

\* No record is in two lake files: every flush is published once.
THEOREM FlushesOnce == Spec /\ []SerialReads => []PublishedOnce
<1>1. ReadInv => PublishedOnce
  <2> SUFFICES ASSUME ReadInv, NEW i \in DOMAIN catalog, NEW j \in DOMAIN catalog, i # j,
                      NEW r, r \in catalog[i].rows, r \in catalog[j].rows
               PROVE  FALSE
    BY DEF PublishedOnce
  <2>1. i \in Nat /\ j \in Nat
    BY ReadParts DEF TypeOK
  <2>2. r.lsn < r.lsn
    BY <2>1 DEF ReadInv, LevelsAreOrdered
  <2>3. catalog[i] \in Range(catalog)
    BY DEF Range
  <2>4. r.lsn \in Nat
    BY <2>3, InLogged, InDurable, ReadParts
  <2> QED BY <2>2, <2>4
<1> QED
  BY <1>1, ReadInvariantHolds, PTL

\* A get that missed the row tier and read the files while a flush retired the
\* memtable returns something as new as what had been acknowledged when it looked.
THEOREM GetsAreFresh == Spec /\ []SerialReads => []ReadsAreFresh
<1>1. ReadInv => ReadsAreFresh
  BY DEF ReadInv, ReaderWillFind, ReadsAreFresh
<1> QED
  BY <1>1, ReadInvariantHolds, PTL

\* One writing task, max_frozen_memtables = 1 and children that die with their engine
\* are enough for the reads, too: also when flushes fail, before or after the commit.
THEOREM LimitOfOneReads ==
    ASSUME LimitOfOne, "orphan_publish" \notin Faults
    PROVE  Spec => []Visibility /\ []ReadMatchesRecovery /\ []ReadsAreFresh
<1>1. CallersInv /\ Serial => SerialReads
  BY LimitOfOne DEF LimitOfOne, CallersInv, SerialReads
<1> QED
  BY <1>1, CallersHold, LimitOfOneIsSerial, AckedIsVisible, ReadsMatchRecovery, GetsAreFresh, PTL

\* So are racing writers with quiet freezes, max_frozen_memtables = 1 and appends that
\* are not given up: a get is as fresh beside any number of writes.
THEOREM GatedReads ==
    ASSUME Faults \cap {"wal_error", "dropped_call", "orphan_publish"} = {}, MaxFrozen <= 1
    PROVE  Spec /\ [][QuietFreeze]_vars => []Visibility /\ []ReadMatchesRecovery /\ []ReadsAreFresh
<1>1. CallersInv /\ NoLateWrite => SerialReads
  BY DEF CallersInv, SerialReads, Serial, OneFrozen, OneUnpublished
<1> QED
  BY <1>1, CallersHold, QuietFreezesAreNotLate, AckedIsVisible, ReadsMatchRecovery, GetsAreFresh, PTL

==============================================================================
