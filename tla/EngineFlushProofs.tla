------------------------- MODULE EngineFlushProofs ---------------------------
(***************************************************************************)
(* Flushes: the index only grows, no frozen memtable is forgotten, and     *)
(* what callers must do, in terms of how many of them there are and of     *)
(* max_frozen_memtables, for the hypotheses of EngineSerialProofs to hold. *)
(***************************************************************************)
EXTENDS EngineSerialProofs

------------------------------------------------------------------------------
(* The index.                                                               *)

\* Which steps touch the index or the indexes that calls carry.
LEMMA IndexSteps ==
    ASSUME EngineInv, [Next]_vars
    PROVE  \/ /\ index' = index
              /\ \A c \in Clients : /\ loaded'[c] \in {loaded[c], << >>}
                                    /\ pc'[c] = "store_index" =>
                                          pc[c] = "store_index" /\ loaded'[c] = loaded[c]
           \/ \E c \in Clients : LoadIndex(c) \/ StoreIndex(c)
           \/ OpenIndex
           \/ /\ Crash /\ index' = << >>
              /\ \A c \in Clients : loaded'[c] = << >> /\ pc'[c] = "idle"
<1>0. /\ TypeOK
      /\ pc \in [Clients -> Phases] /\ loaded \in [Clients -> Seq(File)]
      /\ pending \in [Clients -> SUBSET Record] /\ held \in [Clients -> Memtable]
  BY DEF EngineInv, TypeOK
<1> DEFINE Quiet == /\ index' = index
                    /\ \A c \in Clients : /\ loaded'[c] \in {loaded[c], << >>}
                                          /\ pc'[c] = "store_index" =>
                                                pc[c] = "store_index" /\ loaded'[c] = loaded[c]
<1>1. ASSUME UNCHANGED <<index, callVars>> PROVE Quiet
  BY <1>1 DEF callVars
<1>2. ASSUME NEW c \in Clients, NEW ph, ph # "store_index", Goto(c, ph), UNCHANGED <<index, loaded>>
      PROVE  Quiet
  BY <1>0, <1>2 DEF Goto
<1>3. ASSUME NEW c \in Clients, Return(c), UNCHANGED index
      PROVE  Quiet
  BY <1>0, <1>3 DEF Return, Goto
<1>4. CASE UNCHANGED vars
  BY <1>1, <1>4 DEF vars
<1>5. ASSUME NEW c \in Writers,
             \/ \E k \in Keys, v \in Values \cup {Tombstone} : TakeLsn(c, k, v)
             \/ Write(c)
             \/ WalAppendFail(c)
      PROVE  Quiet
  <2>0. c \in Clients
    BY DEF Clients
  <2>1. CASE \E k \in Keys, v \in Values \cup {Tombstone} : TakeLsn(c, k, v)
    BY <1>2, <2>0, <2>1 DEF TakeLsn
  <2>2. CASE WalAppend(c)
    BY <1>2, <2>0, <2>2 DEF WalAppend
  <2>3. CASE MemInsert(c)
    BY <1>2, <2>0, <2>3 DEF MemInsert
  <2>4. CASE CheckFreeze(c)
    BY <1>2, <1>3, <2>0, <2>4 DEF CheckFreeze, ReturnOk
  <2>5. CASE WalAppendFail(c)
    BY <1>3, <2>0, <2>5 DEF WalAppendFail, ReturnErr
  <2> QED BY <1>5, <2>1, <2>2, <2>3, <2>4, <2>5 DEF Write
<1>6. ASSUME NEW c \in Clients, Flush(c) \/ FlushFault(c) \/ CallFlush(c)
      PROVE  Quiet \/ LoadIndex(c) \/ StoreIndex(c)
  <2>1. CASE FreezeStalled(c) \/ FreezeNothing(c) \/ FlushFail(c) \/ StageFail(c) \/ Abandon(c)
             \/ TruncateFail(c)
    BY <1>3, <2>1 DEF FreezeStalled, FreezeNothing, FlushFail, StageFail, Abandon, TruncateFail,
       ReturnOk, ReturnErr
  <2>2. CASE Freeze(c) \/ CallFlush(c) \/ Stage(c) \/ Publish(c)
    BY <1>2, <2>2 DEF Freeze, CallFlush, Stage, Publish
  <2>3. CASE PlanFlush(c)
    <3>1. PICK ph \in {"skip_retire", "skip_truncate", "stage"} : Goto(c, ph)
      BY <2>3 DEF PlanFlush
    <3> QED BY <1>2, <2>3, <3>1 DEF PlanFlush
  <2>4. CASE Truncate(c)
    BY <1>2, <2>4 DEF Truncate
  <2>5. CASE Retire(c)
    BY <1>2, <1>3, <2>5 DEF Retire, ReturnOk
  <2>6. CASE Unstage(c)
    BY <1>3, <2>6 DEF Unstage, ReturnOk, ReturnErr
  <2> QED BY <1>6, <2>1, <2>2, <2>3, <2>4, <2>5, <2>6 DEF Flush, FlushFault
<1>7. ASSUME NEW job \in duckdb, DuckCommit(job) \/ DuckCommitThenFail(job) \/ DuckFail(job)
      PROVE  Quiet
  <2>0. job.owner \in Clients
    BY <1>0 DEF TypeOK
  <2>1. CASE DuckCommit(job)
    <3>1. CASE Waiting(job)
      <4>1. Goto(job.owner, "load_index")
        BY <2>1, <3>1 DEF DuckCommit, Goto
      <4> QED BY <1>2, <2>0, <2>1, <4>1 DEF DuckCommit
    <3>2. CASE ~Waiting(job)
      BY <1>1, <2>1, <3>2 DEF DuckCommit, callVars
    <3> QED BY <3>1, <3>2
  <2>2. CASE DuckCommitThenFail(job)
    BY <1>3, <2>0, <2>2 DEF DuckCommitThenFail, ReturnErr
  <2>3. CASE DuckFail(job)
    BY <1>1, <1>3, <2>0, <2>3 DEF DuckFail, ReturnErr
  <2> QED BY <1>7, <2>1, <2>2, <2>3
<1>8. CASE (\E r \in unsynced : LateAppend(r)) \/ LateTruncate
  BY <1>1, <1>8 DEF LateAppend, LateTruncate
<1>9. CASE \E r \in Readers : \/ \E k \in Keys : GetRowTier(r, k)
                             \/ GetColumnar(r)
                             \/ GetReturn(r)
  BY <1>1, <1>9 DEF GetRowTier, GetColumnar, GetReturn
<1>10. CASE Crash
  BY <1>10 DEF Crash
<1>11. CASE OpenWatermark \/ OpenWal
  BY <1>1, <1>11 DEF OpenWatermark, OpenWal
<1> QED
  BY <1>4, <1>5, <1>6, <1>7, <1>8, <1>9, <1>10, <1>11 DEF Next, Clients

\* The index a call stores contains the one it replaces, if no other call stored
\* one in between.
LEMMA IndexStep ==
    ASSUME EngineInv, IndexInv, OneIndexer, OneIndexer', [Next]_vars
    PROVE  /\ IndexInv'
           /\ mode = "up" /\ mode' = "up" => Range(index) \subseteq Range(index')
<1>0. /\ TypeOK /\ Range(catalog) \subseteq Range(catalog')
      /\ pc \in [Clients -> Phases] /\ loaded \in [Clients -> Seq(File)]
  BY StepKeeps DEF EngineInv, TypeOK
<1>1. Range(<< >>) = {}
  BY DEF Range
<1>2. CASE /\ index' = index
           /\ \A c \in Clients : /\ loaded'[c] \in {loaded[c], << >>}
                                 /\ pc'[c] = "store_index" =>
                                       pc[c] = "store_index" /\ loaded'[c] = loaded[c]
  BY <1>0, <1>1, <1>2 DEF IndexInv, IndexBehindLake
<1>3. ASSUME NEW c \in Clients, LoadIndex(c)
      PROVE  IndexInv' /\ index' = index
  <2>1. /\ index' = index /\ catalog' = catalog
        /\ \A d \in Clients : loaded'[d] = IF d = c THEN catalog ELSE loaded[d]
        /\ \A d \in Clients : d # c => pc'[d] = pc[d]
    BY <1>0, <1>3 DEF LoadIndex, Goto, lakeVars
  <2> QED BY <2>1 DEF IndexInv, IndexBehindLake
<1>4. ASSUME NEW c \in Clients, StoreIndex(c)
      PROVE  IndexInv' /\ Range(index) \subseteq Range(index')
  <2>1. /\ index' = loaded[c] /\ loaded' = loaded /\ catalog' = catalog
        /\ pc[c] = "store_index" /\ pc'[c] = "truncate"
        /\ \A d \in Clients : d # c => pc'[d] = pc[d]
    BY <1>0, <1>4 DEF StoreIndex, At, Goto, lakeVars
  <2>2. \A d \in Clients : pc'[d] # "store_index"
    BY <2>1 DEF OneIndexer
  <2> QED BY <2>1, <2>2 DEF IndexInv, IndexBehindLake
<1>5. CASE OpenIndex
  <2>1. /\ mode # "up" /\ mode' # "up" /\ index' = catalog /\ loaded' = loaded /\ catalog' = catalog
        /\ pc' = pc
    BY <1>5 DEF OpenIndex, lakeVars, callVars
  <2>2. \A c \in Clients : pc'[c] = "idle"
    BY <2>1 DEF EngineInv, DownIsEmpty
  <2> QED BY <2>1, <2>2 DEF IndexInv, IndexBehindLake
<1>6. CASE /\ Crash /\ index' = << >>
           /\ \A c \in Clients : loaded'[c] = << >> /\ pc'[c] = "idle"
  BY <1>1, <1>6 DEF IndexInv, IndexBehindLake, Crash
<1> QED
  BY <1>2, <1>3, <1>4, <1>5, <1>6, IndexSteps

\* The index never goes back to an older list of files, while at most one call at
\* a time is between the load and the store of publish_index: whatever calls fail
\* or are dropped, however many writers and flushes there are.
THEOREM IndexOnlyGrows == Spec /\ []OneIndexer => IndexNeverRegresses
<1>1. Init => IndexInv
  <2> SUFFICES ASSUME Init PROVE IndexInv
    OBVIOUS
  <2>1. /\ index = << >> /\ \A c \in Clients : loaded[c] = << >> /\ pc[c] = "idle"
    BY DEF Init
  <2> QED BY <2>1 DEF IndexInv, IndexBehindLake, Range
<1>2. EngineInv /\ IndexInv /\ OneIndexer /\ OneIndexer' /\ [Next]_vars => IndexInv'
  BY IndexStep
<1>3. EngineInv /\ IndexInv /\ OneIndexer /\ OneIndexer' /\ [Next]_vars =>
        [mode = "up" /\ mode' = "up" => Range(index) \subseteq Range(index')]_vars
  BY IndexStep
<1> QED
  BY <1>1, <1>2, <1>3, InvariantHolds, PTL DEF Spec, IndexNeverRegresses

------------------------------------------------------------------------------
(* The owners of frozen memtables.                                          *)

\* Calls go on with their memtable, or leave one that is published.
LEMMA OwnerKept ==
    ASSUME OwnerInv, frozen' \subseteq frozen,
           Range(catalog) \subseteq Range(catalog'),
           \A f \in Range(catalog') : Exact(f.rows, f.watermark),
           \A c \in Clients : pc[c] \in FlushPhases =>
               \/ pc'[c] \in FlushPhases /\ held'[c] = held[c]
               \/ held[c] \notin frozen'
               \/ "late_error" \in Faults /\ \E f \in Range(catalog') : held[c].rows = f.rows,
           \A c \in Clients : pc'[c] \in {"stage", "publish", "waiting", "unstage"} =>
               /\ held'[c] = held[c]
               /\ \/ pc'[c] = pc[c]
                  \/ pc'[c] = "stage" /\ held[c].rows # {}
                  \/ pc'[c] = "publish" /\ pc[c] = "stage"
                  \/ pc'[c] = "waiting" /\ pc[c] = "publish"
                  \/ pc'[c] = "unstage" /\ \A m \in frozen' : m.id # held[c].id,
           \A c \in Clients : pc'[c] \in {"publish", "waiting"} =>
               \/ staging' = staging /\ pc[c] \in {"publish", "waiting"}
               \/ /\ FileOf(held[c]) \in staging'
                  /\ \A s \in staging' : s.watermark = held[c].max_lsn => s = FileOf(held[c])
    PROVE  OwnerInv'
<1>1. OwnedOrPublished'
  <2> SUFFICES ASSUME NEW m \in frozen'
               PROVE  \/ \E c \in Clients : pc'[c] \in FlushPhases /\ held'[c] = m
                      \/ "late_error" \in Faults /\ \E f \in Range(catalog') : m.rows = f.rows
    BY DEF OwnedOrPublished, FlushPhases
  <2>1. CASE \E c \in Clients : pc[c] \in FlushPhases /\ held[c] = m
    BY <2>1
  <2>2. CASE "late_error" \in Faults /\ \E f \in Range(catalog) : m.rows = f.rows
    BY <2>2
  <2> QED BY <2>1, <2>2 DEF OwnerInv, OwnedOrPublished
<1>2. \A c \in Clients : pc'[c] \in {"stage", "publish", "waiting"} => held'[c].rows # {}
  BY DEF OwnerInv
<1>3. \A c \in Clients : pc'[c] \in {"publish", "waiting"} =>
          /\ FileOf(held'[c]) \in staging'
          /\ \A s \in staging' : s.watermark = held'[c].max_lsn => s = FileOf(held'[c])
  BY DEF OwnerInv
<1>4. \A c \in Clients : pc'[c] = "unstage" => \A m \in frozen' : m.id # held'[c].id
  BY DEF OwnerInv
<1> QED
  BY <1>1, <1>2, <1>3, <1>4 DEF OwnerInv, FileOf

\* Steps that leave the flushes alone.
LEMMA OwnerQuiet ==
    ASSUME OwnerInv, UNCHANGED <<frozen, catalog, staging>>,
           \A c \in Clients : \/ pc'[c] = pc[c] /\ held'[c] = held[c]
                              \/ /\ pc[c] \notin FlushPhases
                                 /\ pc'[c] \notin {"stage", "publish", "waiting", "unstage"}
    PROVE  OwnerInv'
<1>1. \A f \in Range(catalog') : Exact(f.rows, f.watermark)
  BY DEF OwnerInv
<1>2. {"stage", "publish", "waiting", "unstage"} \subseteq FlushPhases
  BY DEF FlushPhases
<1> QED BY <1>1, <1>2, OwnerKept

\* The steps of a write.
LEMMA OwnerWrite ==
    ASSUME OwnerInv, TypeOK, NEW c \in Writers,
           \/ \E k \in Keys, v \in Values \cup {Tombstone} : TakeLsn(c, k, v)
           \/ Write(c)
           \/ WalAppendFail(c)
    PROVE  OwnerInv'
<1>0. /\ c \in Clients
      /\ pc \in [Clients -> Phases] /\ held \in [Clients -> Memtable]
      /\ {"idle", "append", "insert", "check", "freeze"} \cap FlushPhases = {}
      /\ {"idle", "append", "insert", "check", "freeze"}
            \cap {"stage", "publish", "waiting", "unstage"} = {}
  BY DEF Clients, TypeOK, FlushPhases
<1>1. /\ UNCHANGED <<frozen, catalog, staging>>
      /\ pc[c] \in {"idle", "append", "insert", "check"}
      /\ pc'[c] \in {"idle", "append", "insert", "check", "freeze"}
      /\ \A d \in Clients : d # c => pc'[d] = pc[d] /\ held'[d] = held[d]
  <2>1. CASE \E k \in Keys, v \in Values \cup {Tombstone} : TakeLsn(c, k, v)
    BY <1>0, <2>1 DEF TakeLsn, At, Goto, memVars, lakeVars
  <2>2. CASE WalAppend(c) \/ MemInsert(c)
    BY <1>0, <2>2 DEF WalAppend, MemInsert, At, Goto, memVars, lakeVars
  <2>3. CASE CheckFreeze(c)
    BY <1>0, <2>3 DEF CheckFreeze, At, Goto, ReturnOk, Return, memVars, lakeVars
  <2>4. CASE WalAppendFail(c)
    BY <1>0, <2>4 DEF WalAppendFail, At, Goto, ReturnErr, Return, memVars, lakeVars
  <2> QED BY <2>1, <2>2, <2>3, <2>4 DEF Write
<1> QED BY <1>0, <1>1, OwnerQuiet

\* The steps of a flush, all but the freeze.
LEMMA OwnerFlush ==
    ASSUME OwnerInv, TypeOK, OrderlyFlushes, NEW c \in Clients,
           Flush(c) \/ FlushFault(c) \/ CallFlush(c), ~Freeze(c)
    PROVE  OwnerInv'
<1>0. /\ pc \in [Clients -> Phases] /\ held \in [Clients -> Memtable]
      /\ frozen \subseteq Memtable /\ staging \subseteq File
      /\ "flush_error" \notin Faults /\ "dropped_call" \notin Faults
      /\ \A d \in Clients : pc[c] \in FlushPhases /\ pc[d] \in FlushPhases => c = d
      /\ \A f \in Range(catalog) : Exact(f.rows, f.watermark)
  BY DEF TypeOK, OrderlyFlushes, OneFlush, OwnerInv
<1>a. FlushPhases = {"plan", "stage", "publish", "waiting", "load_index", "store_index",
                "truncate", "retire", "unstage", "skip_truncate", "skip_retire"}
  BY DEF FlushPhases
<1>1. CASE FlushFault(c)
  BY <1>0, <1>1 DEF FlushFault, FlushFail, StageFail, TruncateFail, Abandon
<1>2. CASE CallFlush(c) \/ FreezeStalled(c) \/ FreezeNothing(c)
  <2>1. /\ UNCHANGED <<frozen, catalog, staging>>
        /\ pc[c] \in {"idle", "freeze"} /\ pc'[c] \in {"idle", "freeze"}
        /\ \A d \in Clients : d # c => pc'[d] = pc[d] /\ held'[d] = held[d]
    BY <1>0, <1>2 DEF CallFlush, FreezeStalled, FreezeNothing, At, Goto, ReturnOk, ReturnErr,
       Return, memVars, lakeVars
  <2> QED BY <1>a, <2>1, OwnerQuiet
<1>3. CASE PlanFlush(c) \/ Publish(c) \/ LoadIndex(c) \/ StoreIndex(c) \/ Truncate(c)
  <2>1. /\ UNCHANGED <<frozen, catalog, staging, held>>
        /\ pc[c] \in FlushPhases /\ pc'[c] \in FlushPhases
        /\ \A d \in Clients : d # c => pc'[d] = pc[d]
        /\ \/ pc'[c] \notin {"stage", "publish", "waiting", "unstage"}
           \/ pc'[c] = "stage" /\ held[c].rows # {}
           \/ pc'[c] = "waiting" /\ pc[c] = "publish"
    <3>1. CASE PlanFlush(c)
      BY <1>0, <1>a, <3>1 DEF PlanFlush, Plan, At, Goto, memVars, lakeVars
    <3>2. CASE Publish(c)
      BY <1>0, <1>a, <3>2 DEF Publish, At, Goto, memVars
    <3>3. CASE LoadIndex(c) \/ StoreIndex(c)
      BY <1>0, <1>a, <3>3 DEF LoadIndex, StoreIndex, At, Goto, memVars, lakeVars
    <3>4. CASE Truncate(c)
      BY <1>0, <1>a, <3>4 DEF Truncate, At, Goto, memVars, lakeVars
    <3> QED BY <1>3, <3>1, <3>2, <3>3, <3>4
  <2> QED BY <1>0, <2>1, OwnerKept
<1>4. CASE Stage(c)
  <2>1. /\ UNCHANGED <<frozen, catalog, held>>
        /\ pc[c] = "stage" /\ pc'[c] = "publish"
        /\ \A d \in Clients : d # c => pc'[d] = pc[d]
        /\ staging' = {s \in staging : s.watermark # held[c].max_lsn} \cup {FileOf(held[c])}
    BY <1>0, <1>4 DEF Stage, StageFile, FileOf, At, Goto, memVars
  <2>2. \A d \in Clients : pc'[d] \in {"publish", "waiting"} => d = c
    BY <1>0, <1>a, <2>1
  <2>3. /\ FileOf(held[c]) \in staging'
        /\ \A s \in staging' : s.watermark = held[c].max_lsn => s = FileOf(held[c])
    BY <2>1
  <2> QED BY <1>0, <1>a, <2>1, <2>2, <2>3, OwnerKept
<1>5. CASE Retire(c)
  <2>1. /\ UNCHANGED <<catalog, staging>>
        /\ frozen' = {m \in frozen : m.id # held[c].id}
        /\ pc[c] \in {"retire", "skip_retire"} /\ pc'[c] \in {"unstage", "idle"}
        /\ pc'[c] = "unstage" => held'[c] = held[c]
        /\ \A d \in Clients : d # c => pc'[d] = pc[d] /\ held'[d] = held[d]
    BY <1>0, <1>5 DEF Retire, At, Goto, ReturnOk, Return, lakeVars
  <2>2. held[c] \notin frozen' /\ \A m \in frozen' : m.id # held[c].id
    BY <2>1
  <2> QED BY <1>0, <1>a, <2>1, <2>2, OwnerKept
<1>6. CASE Unstage(c)
  <2>1. /\ UNCHANGED <<catalog, frozen>>
        /\ pc[c] = "unstage" /\ pc'[c] = "idle"
        /\ \A d \in Clients : d # c => pc'[d] = pc[d] /\ held'[d] = held[d]
    BY <1>0, <1>6 DEF Unstage, At, Goto, ReturnOk, ReturnErr, Return, memVars
  <2>2. held[c] \notin frozen
    BY <2>1 DEF OwnerInv
  <2>3. \A d \in Clients : pc'[d] \notin {"publish", "waiting"}
    BY <1>0, <1>a, <2>1
  <2> QED BY <1>0, <1>a, <2>1, <2>2, <2>3, OwnerKept
<1> QED
  BY <1>1, <1>2, <1>3, <1>4, <1>5, <1>6 DEF Flush

\* The freeze: the memtable is in the hands of the call that froze it.
LEMMA OwnerFreeze ==
    ASSUME OwnerInv, TypeOK, OrderlyFlushes', NEW c \in Clients, Freeze(c)
    PROVE  OwnerInv'
<1>0. /\ UNCHANGED <<catalog, staging>> /\ frozen' = frozen \cup {active}
      /\ pc[c] = "freeze" /\ pc'[c] = "plan" /\ held'[c] = active
      /\ \A d \in Clients : d # c => pc'[d] = pc[d] /\ held'[d] = held[d]
  BY DEF Freeze, At, Goto, TypeOK, lakeVars
<1>1. /\ "plan" \in FlushPhases /\ "freeze" \notin FlushPhases
      /\ {"stage", "publish", "waiting", "unstage"} \subseteq FlushPhases
  BY DEF FlushPhases
<1>2. \A d \in Clients : pc'[d] \notin {"stage", "publish", "waiting", "unstage"}
  BY <1>0, <1>1 DEF OrderlyFlushes, OneFlush
<1>3. OwnedOrPublished'
  <2> SUFFICES ASSUME NEW m \in frozen'
               PROVE  \/ \E d \in Clients : pc'[d] \in FlushPhases /\ held'[d] = m
                      \/ "late_error" \in Faults /\ \E f \in Range(catalog') : m.rows = f.rows
    BY DEF OwnedOrPublished, FlushPhases
  <2>1. CASE m = active
    BY <1>0, <1>1, <2>1
  <2>2. CASE m \in frozen
    BY <1>0, <1>1, <2>2 DEF OwnerInv, OwnedOrPublished
  <2> QED BY <1>0, <2>1, <2>2
<1> QED
  BY <1>0, <1>2, <1>3 DEF OwnerInv

\* The child of a flush: it commits what the flush holds, and cannot fail for want
\* of the staged file.
LEMMA OwnerDuck ==
    ASSUME OwnerInv, EngineInv, OrderlyFlushes, NEW job \in duckdb,
           DuckCommit(job) \/ DuckCommitThenFail(job) \/ DuckFail(job)
    PROVE  OwnerInv'
<1>0. /\ TypeOK /\ TablesExact
      /\ pc \in [Clients -> Phases] /\ held \in [Clients -> Memtable]
      /\ catalog \in Seq(File) /\ staging \subseteq File
      /\ "flush_error" \notin Faults
      /\ job.owner \in Clients
      /\ UNCHANGED <<frozen, staging>>
  BY DEF EngineInv, TypeOK, OrderlyFlushes, DuckCommit, DuckCommitThenFail, DuckFail,
     CommitPublish, memVars
<1>a. /\ {"stage", "publish", "waiting", "unstage", "load_index"} \subseteq FlushPhases
      /\ "load_index" \notin {"stage", "publish", "waiting", "unstage"}
      /\ "idle" \notin {"stage", "publish", "waiting", "unstage"}
  BY DEF FlushPhases
<1>1. ASSUME CommitPublish(job)
      PROVE  /\ Range(catalog) \subseteq Range(catalog')
             /\ \A f \in Range(catalog') : Exact(f.rows, f.watermark)
             /\ Waiting(job) => \E f \in Range(catalog') : held[job.owner].rows = f.rows
  <2>1. PICK s \in StagedFor(job) :
            catalog' = Append(catalog, [rows |-> s.rows, watermark |-> MaxLsnOf(s.rows)])
    BY <1>1 DEF CommitPublish
  <2>2. /\ MaxLsnOf(s.rows) = s.watermark /\ s.watermark = job.watermark
        /\ s \in staging /\ s.rows # {}
    BY <1>0, StagedWatermark DEF StagedFor
  <2>3. [rows |-> s.rows, watermark |-> MaxLsnOf(s.rows)] = s /\ s \in File
    BY <1>0, <2>2 DEF File
  <2>4. Range(catalog') = Range(catalog) \cup {s}
    BY <1>0, <2>1, <2>3, RangeOfAppend
  <2>5. Exact(s.rows, s.watermark)
    BY <1>0, <2>2 DEF TablesExact
  <2>6. Waiting(job) => s = FileOf(held[job.owner])
    BY <1>0, <2>2 DEF Waiting, At, OwnerInv
  <2>7. Waiting(job) => held[job.owner].rows = s.rows
    BY <2>6 DEF FileOf
  <2> QED BY <2>4, <2>5, <2>7 DEF OwnerInv
<1>2. CASE DuckCommit(job)
  <2>1. CommitPublish(job) /\ held' = held
    BY <1>2 DEF DuckCommit
  <2>2. \A d \in Clients : pc'[d] = pc[d] \/ (pc[d] = "waiting" /\ pc'[d] = "load_index")
    BY <1>0, <1>2 DEF DuckCommit, Waiting, At
  <2> QED BY <1>0, <1>1, <1>a, <2>1, <2>2, OwnerKept
<1>3. CASE DuckCommitThenFail(job)
  <2>1. "late_error" \in Faults /\ CommitPublish(job) /\ Waiting(job) /\ pc'[job.owner] = "idle"
    BY <1>0, <1>3 DEF DuckCommitThenFail, ReturnErr, Return, Goto
  <2>2. \A d \in Clients : d # job.owner => pc'[d] = pc[d] /\ held'[d] = held[d]
    BY <1>0, <1>3 DEF DuckCommitThenFail, ReturnErr, Return, Goto
  <2> QED BY <1>0, <1>1, <1>a, <2>1, <2>2, OwnerKept
<1>4. CASE DuckFail(job)
  <2>1. ~Waiting(job)
    <3> SUFFICES ASSUME Waiting(job) PROVE FALSE
      OBVIOUS
    <3>1. StagedFor(job) = {}
      BY <1>0, <1>4 DEF DuckFail
    <3>2. /\ FileOf(held[job.owner]) \in staging /\ held[job.owner].rows # {}
          /\ job.watermark = held[job.owner].max_lsn
      BY <1>0 DEF OwnerInv, Waiting, At
    <3>3. FileOf(held[job.owner]) \in StagedFor(job)
      BY <3>2 DEF StagedFor, FileOf
    <3> QED BY <3>1, <3>3
  <2>2. UNCHANGED <<pc, held, catalog>>
    BY <1>4, <2>1 DEF DuckFail, callVars
  <2> QED BY <1>0, <2>2, OwnerQuiet
<1> QED
  BY <1>2, <1>3, <1>4

\* Every step between two states with orderly flushes preserves OwnerInv.
LEMMA OwnerStep ==
    EngineInv /\ OwnerInv /\ OrderlyFlushes /\ OrderlyFlushes' /\ [Next]_vars => OwnerInv'
<1> SUFFICES ASSUME EngineInv, OwnerInv, OrderlyFlushes, OrderlyFlushes', [Next]_vars
             PROVE  OwnerInv'
  OBVIOUS
<1>0. TypeOK
  BY DEF EngineInv
<1>1. CASE UNCHANGED <<frozen, catalog, staging, pc, held>>
  BY <1>1, OwnerQuiet
<1>2. CASE UNCHANGED vars
  BY <1>1, <1>2 DEF vars, memVars, lakeVars, callVars
<1>3. CASE \E c \in Writers : \/ \E k \in Keys, v \in Values \cup {Tombstone} : TakeLsn(c, k, v)
                             \/ Write(c)
                             \/ WalAppendFail(c)
  BY <1>0, <1>3, OwnerWrite
<1>4. CASE \E c \in Clients : Flush(c) \/ FlushFault(c) \/ CallFlush(c)
  <2>1. PICK c \in Clients : Flush(c) \/ FlushFault(c) \/ CallFlush(c)
    BY <1>4
  <2> QED BY <1>0, <2>1, OwnerFlush, OwnerFreeze
<1>5. CASE \E job \in duckdb : DuckCommit(job) \/ DuckCommitThenFail(job) \/ DuckFail(job)
  BY <1>5, OwnerDuck
<1>6. CASE (\E r \in unsynced : LateAppend(r)) \/ LateTruncate
  BY <1>1, <1>6 DEF LateAppend, LateTruncate, memVars, lakeVars, callVars
<1>7. CASE \E r \in Readers : \/ \E k \in Keys : GetRowTier(r, k)
                             \/ GetColumnar(r)
                             \/ GetReturn(r)
  BY <1>1, <1>7 DEF GetRowTier, GetColumnar, GetReturn, memVars, lakeVars, callVars
<1>8. CASE Crash
  <2>1. frozen' = {} /\ catalog' = catalog /\ \A c \in Clients : pc'[c] = "idle"
    BY <1>8 DEF Crash
  <2> QED BY <2>1 DEF OwnerInv, OwnedOrPublished
<1>9. CASE OpenWatermark \/ OpenIndex \/ OpenWal
  BY <1>1, <1>9 DEF OpenWatermark, OpenIndex, OpenWal, memVars, lakeVars, callVars
<1> QED
  BY <1>2, <1>3, <1>4, <1>5, <1>6, <1>7, <1>8, <1>9 DEF Next, Clients

\* OwnerInv holds as long as flushes are orderly.
THEOREM OwnerInvariantHolds == Spec /\ []OrderlyFlushes => []OwnerInv
<1>1. Init => OwnerInv
  <2> SUFFICES ASSUME Init PROVE OwnerInv
    OBVIOUS
  <2>1. frozen = {} /\ catalog = << >> /\ \A c \in Clients : pc[c] = "idle"
    BY DEF Init, LakeInit
  <2> QED BY <2>1 DEF OwnerInv, OwnedOrPublished, Range
<1> QED
  BY <1>1, OwnerStep, InvariantHolds, PTL DEF Spec

\* Every frozen memtable is being flushed, when flushes go one by one and none fails or
\* is dropped: also with failing appends, crashes and children that outlive their
\* engine.
THEOREM NoneIsForgotten ==
    ASSUME "late_error" \notin Faults
    PROVE  Spec /\ []OrderlyFlushes => []FrozenHasOwner
<1>1. OwnerInv => FrozenHasOwner
  BY DEF OwnerInv, OwnedOrPublished, FrozenHasOwner
<1> QED
  BY <1>1, OwnerInvariantHolds, PTL

------------------------------------------------------------------------------
(* How callers meet the hypotheses of EngineSerialProofs.                   *)

\* Orderly flushes leave at most one memtable to publish.
LEMMA OrderlyIsEnough == EngineInv /\ OwnerInv /\ OneFlush => OneUnpublished
<1> SUFFICES ASSUME EngineInv, OwnerInv, OneFlush, NEW m \in frozen, NEW n \in frozen,
                    m.max_lsn > PublishedWatermark, n.max_lsn > PublishedWatermark
             PROVE  m = n
  BY DEF OneUnpublished
<1>0. /\ TypeOK /\ catalog \in Seq(File) /\ PublishedWatermark \in Nat
      /\ \A f \in Range(catalog) : f.watermark \in Nat /\ f.watermark <= PublishedWatermark
  BY DurableTyped, LevelsTyped, WatermarkOfFiles DEF EngineInv, TypeOK
<1>1. ASSUME NEW t \in frozen, t.max_lsn > PublishedWatermark
      PROVE  \E c \in Clients : pc[c] \in FlushPhases /\ held[c] = t
  <2> SUFFICES ASSUME NEW f \in Range(catalog), t.rows = f.rows PROVE FALSE
    BY DEF OwnerInv, OwnedOrPublished
  <2>1. Exact(f.rows, f.watermark) /\ Exact(f.rows, t.max_lsn)
    BY DEF OwnerInv, EngineInv, TablesExact
  <2>2. t.max_lsn \in Nat /\ f.rows \subseteq Record
    BY <1>0, LevelsTyped DEF TypeOK, Memtable
  <2>3. \A r \in f.rows : r.lsn \in Nat
    BY <2>2, RecordAssumption DEF Record, Lsn
  <2>4. t.max_lsn = f.watermark
    BY <1>0, <2>1, <2>2, <2>3 DEF Exact
  <2> QED BY <1>0, <1>1, <2>2, <2>4
<1> QED
  BY <1>1 DEF OneFlush

\* What a step does to the writes on their way: it starts one, ends one, freezes
\* the memtable they are bound for, or leaves them alone.
LEMMA WriteSteps ==
    ASSUME EngineInv, [Next]_vars
    PROVE  \/ \E c \in Writers, k \in Keys, v \in Values \cup {Tombstone} : TakeLsn(c, k, v)
           \/ \E c \in Writers : MemInsert(c)
           \/ \E c \in Clients : Freeze(c)
           \/ /\ frozen' \subseteq frozen
              /\ \A c \in Clients : pc'[c] \in Writing =>
                    pc[c] \in Writing /\ pending'[c] = pending[c] /\ active' = active
<1> DEFINE Leaves == /\ frozen' \subseteq frozen
                     /\ \A c \in Clients : pc'[c] \in Writing =>
                           pc[c] \in Writing /\ pending'[c] = pending[c] /\ active' = active
<1>0. /\ TypeOK /\ pc \in [Clients -> Phases] /\ pending \in [Clients -> SUBSET Record]
      /\ {"idle", "check", "freeze"} \cap Writing = {} /\ FlushPhases \cap Writing = {}
  BY DEF EngineInv, TypeOK, Writing, FlushPhases
<1>1. ASSUME UNCHANGED <<frozen, active, pc, pending>> PROVE Leaves
  BY <1>1
<1>2. ASSUME NEW c \in Clients, frozen' \subseteq frozen, UNCHANGED <<active, pending>>,
             NEW ph, ph \in Writing => pc[c] \in Writing, Goto(c, ph)
      PROVE  Leaves
  BY <1>0, <1>2 DEF Goto
<1>3. ASSUME NEW c \in Clients, frozen' \subseteq frozen, active' = active, Return(c)
      PROVE  Leaves
  <2>1. /\ pc'[c] = "idle"
        /\ \A d \in Clients : d # c => pc'[d] = pc[d] /\ pending'[d] = pending[d]
    BY <1>0, <1>3, ReturnFacts
  <2> QED BY <1>0, <1>3, <2>1
<1>4. ASSUME UNCHANGED vars PROVE Leaves
  BY <1>1, <1>4 DEF vars, memVars, callVars
<1>5. ASSUME NEW c \in Writers, WalAppend(c) \/ CheckFreeze(c) \/ WalAppendFail(c)
      PROVE  Leaves
  <2>0. c \in Clients
    BY DEF Clients
  <2>1. CASE WalAppend(c)
    BY <1>2, <2>0, <2>1 DEF WalAppend, At, Writing, memVars
  <2>2. CASE CheckFreeze(c)
    BY <1>0, <1>2, <1>3, <2>0, <2>2 DEF CheckFreeze, ReturnOk, memVars
  <2>3. CASE WalAppendFail(c)
    BY <1>3, <2>0, <2>3 DEF WalAppendFail, ReturnErr, memVars
  <2> QED BY <1>5, <2>1, <2>2, <2>3
<1>6. ASSUME NEW c \in Clients, Flush(c) \/ FlushFault(c) \/ CallFlush(c), ~Freeze(c)
      PROVE  Leaves
  <2>1. CASE FreezeStalled(c) \/ FreezeNothing(c) \/ FlushFail(c) \/ StageFail(c) \/ Abandon(c)
             \/ TruncateFail(c)
    BY <1>3, <2>1 DEF FreezeStalled, FreezeNothing, FlushFail, StageFail, Abandon, TruncateFail,
       ReturnOk, ReturnErr, memVars
  <2>2. CASE CallFlush(c) \/ Stage(c) \/ Publish(c) \/ LoadIndex(c) \/ StoreIndex(c)
    BY <1>2, <2>2 DEF CallFlush, Stage, Publish, LoadIndex, StoreIndex, memVars, Writing
  <2>3. CASE PlanFlush(c)
    <3>1. PICK ph \in {"skip_retire", "skip_truncate", "stage"} : Goto(c, ph)
      BY <2>3 DEF PlanFlush
    <3> QED BY <1>2, <2>3, <3>1 DEF PlanFlush, memVars, Writing
  <2>4. CASE Truncate(c)
    BY <1>2, <2>4 DEF Truncate, memVars, Writing
  <2>5. CASE Retire(c)
    <3>1. frozen' \subseteq frozen
      BY <2>5 DEF Retire
    <3> QED BY <1>2, <1>3, <2>5, <3>1 DEF Retire, ReturnOk, Writing
  <2>6. CASE Unstage(c)
    BY <1>3, <2>6 DEF Unstage, ReturnOk, ReturnErr, memVars
  <2> QED BY <1>6, <2>1, <2>2, <2>3, <2>4, <2>5, <2>6 DEF Flush, FlushFault
<1>7. ASSUME NEW job \in duckdb, DuckCommit(job) \/ DuckCommitThenFail(job) \/ DuckFail(job)
      PROVE  Leaves
  <2>0. job.owner \in Clients /\ frozen' = frozen /\ active' = active
    BY <1>0, <1>7 DEF TypeOK, DuckCommit, DuckCommitThenFail, DuckFail, memVars
  <2>1. CASE UNCHANGED <<pc, pending>>
    BY <1>1, <2>0, <2>1
  <2>2. CASE Goto(job.owner, "load_index") /\ pending' = pending
    BY <1>2, <2>0, <2>2 DEF Writing
  <2>3. CASE Return(job.owner)
    BY <1>3, <2>0, <2>3
  <2>4. CASE DuckCommit(job)
    BY <2>1, <2>2, <2>4 DEF DuckCommit, Goto
  <2>5. CASE DuckCommitThenFail(job)
    BY <2>1, <2>3, <2>5 DEF DuckCommitThenFail, ReturnErr, callVars
  <2>6. CASE DuckFail(job)
    BY <2>1, <2>3, <2>6 DEF DuckFail, ReturnErr, callVars
  <2> QED BY <1>7, <2>4, <2>5, <2>6
<1>8. ASSUME (\E r \in unsynced : LateAppend(r)) \/ LateTruncate PROVE Leaves
  BY <1>1, <1>8 DEF LateAppend, LateTruncate, memVars, callVars
<1>9. ASSUME NEW r \in Readers,
             (\E k \in Keys : GetRowTier(r, k)) \/ GetColumnar(r) \/ GetReturn(r)
      PROVE  Leaves
  BY <1>1, <1>9 DEF GetRowTier, GetColumnar, GetReturn, memVars, callVars
<1>10. ASSUME Crash PROVE Leaves
  <2>1. frozen' = {} /\ \A c \in Clients : pc'[c] = "idle"
    BY <1>10 DEF Crash
  <2> QED BY <1>0, <2>1
<1>11. ASSUME OpenWatermark \/ OpenIndex PROVE Leaves
  BY <1>1, <1>11 DEF OpenWatermark, OpenIndex, memVars, callVars
<1>12. ASSUME OpenWal PROVE Leaves
  <2>1. frozen' = frozen /\ \A c \in Clients : pc'[c] = "idle"
    BY <1>12 DEF OpenWal, EngineInv, DownIsEmpty, callVars
  <2> QED BY <1>0, <2>1
<1> HIDE DEF Leaves
<1>13. \/ \E c \in Writers, k \in Keys, v \in Values \cup {Tombstone} : TakeLsn(c, k, v)
       \/ \E c \in Writers : MemInsert(c)
       \/ \E c \in Clients : Freeze(c)
       \/ Leaves
  <2>1. CASE \E c \in Writers : \/ \E k \in Keys, v \in Values \cup {Tombstone} : TakeLsn(c, k, v)
                               \/ Write(c)
                               \/ WalAppendFail(c)
    BY <1>5, <2>1 DEF Write
  <2>2. CASE \E c \in Clients : Flush(c) \/ FlushFault(c) \/ CallFlush(c)
    BY <1>6, <2>2
  <2>3. CASE \E job \in duckdb : DuckCommit(job) \/ DuckCommitThenFail(job) \/ DuckFail(job)
    BY <1>7, <2>3
  <2> QED
    BY <1>4, <1>8, <1>9, <1>10, <1>11, <1>12, <2>1, <2>2, <2>3 DEF Next, Clients
<1> QED
  BY <1>13 DEF Leaves

\* The next LSN is above everything in memory.
LEMMA MemoryBelowNext ==
    ASSUME EngineInv, mode = "up"
    PROVE  \A m \in frozen \cup {active} : m.max_lsn < nextLsn
<1>1. \A r \in AllRecords : r.lsn < nextLsn
  BY DEF EngineInv, LsnsBelowNext
<1>2. nextLsn \in Nat /\ nextLsn > 0
  BY DEF EngineInv, TypeOK
<1> SUFFICES ASSUME NEW m \in frozen \cup {active} PROVE m.max_lsn < nextLsn
  OBVIOUS
<1>3. Exact(m.rows, m.max_lsn) /\ m.rows \subseteq AllRecords
  BY DEF EngineInv, TablesExact, AllRecords, Logged, MemRows
<1> QED
  BY <1>1, <1>2, <1>3 DEF Exact

\* What the steps that start or end a write, or freeze, do to the others.
LEMMA WriteFacts ==
    ASSUME TypeOK, NEW c \in Clients
    PROVE  /\ \A k, v : TakeLsn(c, k, v) =>
                 /\ mode = "up" /\ active' = active /\ frozen' = frozen
                 /\ \A r \in pending'[c] : r.lsn = nextLsn
                 /\ \A d \in Clients : d # c => pc'[d] = pc[d] /\ pending'[d] = pending[d]
           /\ MemInsert(c) =>
                 /\ pc[c] \in Writing /\ pc'[c] \notin Writing
                 /\ frozen' = frozen /\ pending' = pending
                 /\ \A d \in Clients : d # c => pc'[d] = pc[d]
           /\ Freeze(c) =>
                 /\ frozen' = frozen \cup {active} /\ active'.max_lsn = 0
                 /\ pc'[c] \notin Writing /\ pending' = pending
                 /\ \A d \in Clients : d # c => pc'[d] = pc[d]
<1>0. pc \in [Clients -> Phases] /\ pending \in [Clients -> SUBSET Record]
  BY DEF TypeOK
<1>1. ASSUME NEW k, NEW v, TakeLsn(c, k, v)
      PROVE  /\ mode = "up" /\ active' = active /\ frozen' = frozen
             /\ \A r \in pending'[c] : r.lsn = nextLsn
             /\ \A d \in Clients : d # c => pc'[d] = pc[d] /\ pending'[d] = pending[d]
  BY <1>0, <1>1 DEF TakeLsn, At, Goto, memVars
<1>2. ASSUME MemInsert(c)
      PROVE  /\ pc[c] \in Writing /\ pc'[c] \notin Writing
             /\ frozen' = frozen /\ pending' = pending
             /\ \A d \in Clients : d # c => pc'[d] = pc[d]
  BY <1>0, <1>2 DEF MemInsert, At, Goto, Writing
<1>3. ASSUME Freeze(c)
      PROVE  /\ frozen' = frozen \cup {active} /\ active'.max_lsn = 0
             /\ pc'[c] \notin Writing /\ pending' = pending
             /\ \A d \in Clients : d # c => pc'[d] = pc[d]
  BY <1>0, <1>3 DEF Freeze, NewMemtable, Goto, Writing
<1> QED
  BY <1>1, <1>2, <1>3

\* If a memtable is frozen only while no write is on its way, no write is late, however
\* many of them race: its LSN was taken after the freeze.
THEOREM QuietFreezesAreNotLate == Spec /\ [][QuietFreeze]_vars => []NoLateWrite
<1>1. Init => NoLateWrite
  BY DEF Init, NoLateWrite
<1>2. EngineInv /\ NoLateWrite /\ [Next]_vars /\ [QuietFreeze]_vars => NoLateWrite'
  <2> SUFFICES ASSUME EngineInv, NoLateWrite, [Next]_vars, [QuietFreeze]_vars,
                      NEW d \in Clients, pc'[d] \in Writing, NEW r \in pending'[d],
                      NEW m \in frozen'
               PROVE  m.max_lsn < r.lsn
    BY DEF NoLateWrite
  <2>0. TypeOK /\ Writers \subseteq Clients
    BY DEF EngineInv, Clients
  <2>1. frozen' \subseteq frozen \/ \A c \in Clients : pc[c] \notin Writing
    BY DEF QuietFreeze, vars, memVars
  <2>2. ASSUME NEW c \in Clients, NEW k, NEW v, TakeLsn(c, k, v) PROVE m.max_lsn < r.lsn
    <3>1. mode = "up" /\ m \in frozen
      BY <2>0, <2>2, WriteFacts
    <3>2. CASE d = c
      <4>1. r.lsn = nextLsn
        BY <2>0, <2>2, <3>2, WriteFacts
      <4> QED BY <3>1, <4>1, MemoryBelowNext
    <3>3. CASE d # c
      <4>1. pc[d] \in Writing /\ r \in pending[d]
        BY <2>0, <2>2, <3>3, WriteFacts
      <4> QED BY <3>1, <4>1 DEF NoLateWrite
    <3> QED BY <3>2, <3>3
  <2>3. ASSUME NEW c \in Clients, MemInsert(c) PROVE m.max_lsn < r.lsn
    <3>1. d # c /\ pc[d] \in Writing /\ r \in pending[d] /\ m \in frozen
      BY <2>0, <2>3, WriteFacts
    <3> QED BY <3>1 DEF NoLateWrite
  <2>4. ASSUME NEW c \in Clients, Freeze(c) PROVE m.max_lsn < r.lsn
    <3>1. d # c /\ pc[d] \in Writing /\ r \in pending[d]
      BY <2>0, <2>4, WriteFacts
    <3> QED BY <2>1, <3>1 DEF NoLateWrite
  <2>5. CASE /\ frozen' \subseteq frozen
             /\ \A c \in Clients : pc'[c] \in Writing =>
                   pc[c] \in Writing /\ pending'[c] = pending[c] /\ active' = active
    BY <2>5 DEF NoLateWrite
  <2> QED BY <2>0, <2>2, <2>3, <2>4, <2>5, WriteSteps
<1> QED
  BY <1>1, <1>2, InvariantHolds, PTL DEF Spec

\* If one write at a time is on its way, it is not late either: it is newer than all
\* of memory, also when a freeze happens beside it.
THEOREM OneWriteIsNotLate == Spec /\ []OneWrite => []NoLateWrite
<1>1. Init => WriteIsNewest
  BY DEF Init, WriteIsNewest, Writing
<1>2. EngineInv /\ WriteIsNewest /\ OneWrite /\ [Next]_vars => WriteIsNewest'
  <2> SUFFICES ASSUME EngineInv, WriteIsNewest, OneWrite, [Next]_vars,
                      NEW d \in Clients, pc'[d] \in Writing, NEW r \in pending'[d],
                      NEW m \in frozen' \cup {active'}
               PROVE  m.max_lsn < r.lsn
    BY DEF WriteIsNewest
  <2>0. TypeOK /\ Writers \subseteq Clients
    BY DEF EngineInv, Clients
  <2>1. ASSUME pc[d] \in Writing, r \in pending[d] PROVE 0 < r.lsn
    <3>1. r \in Record
      BY <2>0, <2>1 DEF TypeOK
    <3> QED BY <3>1, RecordAssumption DEF Record, Lsn
  <2>2. ASSUME NEW c \in Clients, NEW k, NEW v, TakeLsn(c, k, v) PROVE m.max_lsn < r.lsn
    <3>1. mode = "up" /\ m \in frozen \cup {active}
      BY <2>0, <2>2, WriteFacts
    <3>2. CASE d = c
      <4>1. r.lsn = nextLsn
        BY <2>0, <2>2, <3>2, WriteFacts
      <4> QED BY <3>1, <4>1, MemoryBelowNext
    <3>3. CASE d # c
      <4>1. pc[d] \in Writing /\ r \in pending[d]
        BY <2>0, <2>2, <3>3, WriteFacts
      <4> QED BY <3>1, <4>1 DEF WriteIsNewest
    <3> QED BY <3>2, <3>3
  <2>3. ASSUME NEW c \in Clients, MemInsert(c) PROVE FALSE
    <3>1. pc[c] \in Writing /\ d # c /\ pc[d] \in Writing
      BY <2>0, <2>3, WriteFacts
    <3> QED BY <3>1 DEF OneWrite
  <2>4. ASSUME NEW c \in Clients, Freeze(c) PROVE m.max_lsn < r.lsn
    <3>1. /\ d # c /\ pc[d] \in Writing /\ r \in pending[d]
          /\ m \in frozen \cup {active} \/ m.max_lsn = 0
      BY <2>0, <2>4, WriteFacts
    <3> QED BY <2>1, <3>1 DEF WriteIsNewest
  <2>5. CASE /\ frozen' \subseteq frozen
             /\ \A c \in Clients : pc'[c] \in Writing =>
                   pc[c] \in Writing /\ pending'[c] = pending[c] /\ active' = active
    BY <2>5 DEF WriteIsNewest
  <2> QED BY <2>0, <2>2, <2>3, <2>4, <2>5, WriteSteps
<1>3. WriteIsNewest => NoLateWrite
  BY DEF WriteIsNewest, NoLateWrite
<1> QED
  BY <1>1, <1>2, <1>3, InvariantHolds, PTL DEF Spec

\* Callers that hold the two locks keep to Serial, whatever max_frozen_memtables.
THEOREM LockedIsSerial == Spec /\ []Locked => []Serial
<1>1. Locked => OrderlyFlushes /\ OneWrite
  BY DEF Locked
<1>2. Locked /\ EngineInv /\ OwnerInv /\ NoLateWrite => Serial
  BY OrderlyIsEnough DEF Locked, OrderlyFlushes, Serial
<1> QED
  BY <1>1, <1>2, InvariantHolds, OwnerInvariantHolds, OneWriteIsNotLate, PTL

\* So do writers that race, where a freeze waits for the writes on their way.
THEOREM GatedIsSerial ==
    Spec /\ [][QuietFreeze]_vars /\ []Gated => []Serial
<1>1. Gated => OrderlyFlushes
  BY DEF Gated
<1>2. Gated /\ EngineInv /\ OwnerInv /\ NoLateWrite => Serial
  BY OrderlyIsEnough DEF Gated, OrderlyFlushes, Serial
<1> QED
  BY <1>1, <1>2, InvariantHolds, OwnerInvariantHolds, QuietFreezesAreNotLate, PTL

\* Which phases a call moves to, and what becomes of the frozen list.
LEMMA CallersStep == EngineInv /\ CallersInv /\ [Next]_vars => CallersInv'
<1> SUFFICES ASSUME EngineInv, CallersInv, [Next]_vars PROVE CallersInv'
  OBVIOUS
<1>0. /\ TypeOK /\ Writers \subseteq Clients /\ IsFiniteSet(frozen) /\ MaxFrozen \in Nat
      /\ \A c \in Clients : pc[c] \in Writing => c \in Writers
      /\ MaxFrozen <= 1 => OneFrozen
  BY MemtableAssumption DEF EngineInv, CallersInv, Clients
<1>1. ASSUME frozen' \subseteq frozen,
             \A c \in Clients : pc'[c] \in Writing => c \in Writers
      PROVE  CallersInv'
  <2>1. IsFiniteSet(frozen')
    BY <1>0, <1>1, FS_Subset
  <2> QED BY <1>0, <1>1, <2>1 DEF CallersInv, OneFrozen
<1>2. ASSUME NEW c \in Writers, NEW k, NEW v, TakeLsn(c, k, v) PROVE CallersInv'
  <2>1. frozen' = frozen /\ \A d \in Clients : d # c => pc'[d] = pc[d]
    BY <1>0, <1>2, WriteFacts
  <2> QED BY <1>0, <1>1, <2>1
<1>3. ASSUME NEW c \in Writers, MemInsert(c) PROVE CallersInv'
  <2>1. frozen' = frozen /\ \A d \in Clients : d # c => pc'[d] = pc[d]
    BY <1>0, <1>3, WriteFacts
  <2> QED BY <1>0, <1>1, <2>1
<1>4. ASSUME NEW c \in Clients, Freeze(c) PROVE CallersInv'
  <2>1. /\ frozen' = frozen \cup {active} /\ ~(Cardinality(frozen) >= MaxFrozen)
        /\ \A d \in Clients : pc'[d] \in Writing => pc[d] \in Writing
    BY <1>0, <1>4, WriteFacts DEF Freeze, Stalled
  <2>2. IsFiniteSet(frozen') /\ Cardinality(frozen) \in Nat
    BY <1>0, <2>1, FS_AddElement, FS_CardinalityType
  <2>3. MaxFrozen <= 1 => Cardinality(frozen) = 0
    BY <1>0, <2>1, <2>2
  <2>4. MaxFrozen <= 1 => frozen = {}
    BY <1>0, <2>3, FS_EmptySet
  <2> QED BY <1>0, <2>1, <2>2, <2>4 DEF CallersInv, OneFrozen
<1> QED
  BY <1>0, <1>1, <1>2, <1>3, <1>4, WriteSteps

\* Only writers are between fetch_add and insert, and a limit of one is a limit.
LEMMA CallersHold == Spec => []CallersInv
<1>1. Init => CallersInv
  <2> SUFFICES ASSUME Init PROVE CallersInv
    OBVIOUS
  <2>1. frozen = {} /\ \A c \in Clients : pc[c] \notin Writing
    BY DEF Init, Writing
  <2>2. IsFiniteSet(frozen)
    BY <2>1, FS_EmptySet
  <2> QED BY <2>1, <2>2 DEF CallersInv, OneFrozen
<1> QED
  BY <1>1, CallersStep, InvariantHolds, PTL DEF Spec

\* One writing task and max_frozen_memtables = 1 keep to Serial by themselves.
THEOREM LimitOfOneIsSerial == ASSUME LimitOfOne PROVE Spec => []Serial
<1>1. CallersInv => OneWrite
  BY LimitOfOne DEF LimitOfOne, CallersInv, OneWrite
<1>2. CallersInv /\ NoLateWrite => Serial
  BY LimitOfOne DEF LimitOfOne, CallersInv, Serial, OneFrozen, OneUnpublished
<1> QED
  BY <1>1, <1>2, CallersHold, OneWriteIsNotLate, PTL

\* With one writing task and max_frozen_memtables = 1, no acknowledged write is lost,
\* whichever flush fails, wherever the process dies and whichever child outlives it.
THEOREM LimitOfOneIsDurable == ASSUME LimitOfOne PROVE Spec => []Durability /\ ImplementsKvStore
  BY LimitOfOneIsSerial, DurabilityHolds, EngineImplementsKvStore, PTL

\* Callers that take turns lose no acknowledged write, whatever max_frozen_memtables.
THEOREM LockedIsDurable == Spec /\ []Locked => []Durability /\ ImplementsKvStore
  BY LockedIsSerial, DurabilityHolds, EngineImplementsKvStore, PTL

\* Any number of writers at a time lose none, if a freeze waits for those on their way
\* and flushes take turns: the lock that put and freeze do not hold is all that the
\* loss of a late write is due to.
THEOREM GatedIsDurable ==
    Spec /\ [][QuietFreeze]_vars /\ []Gated => []Durability /\ ImplementsKvStore
  BY GatedIsSerial, DurabilityHolds, EngineImplementsKvStore, PTL

==============================================================================
