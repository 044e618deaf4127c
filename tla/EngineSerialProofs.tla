------------------------- MODULE EngineSerialProofs --------------------------
(***************************************************************************)
(* No durable write is lost when no freeze overtakes a write and no flush  *)
(* another flush: SerialInv is inductive under Serial.                     *)
(***************************************************************************)
EXTENDS EngineSerial, EngineProofs

------------------------------------------------------------------------------
(* General facts.                                                           *)

\* Where a durable record is.
LEMMA InDurable ==
    \A r : r \in Durable <=>
        r \in Logged \/ \E c \in Clients : pc[c] # "append" /\ r \in pending[c]
BY DEF Durable

\* The same, in the next state.
LEMMA InDurableNext ==
    \A r : r \in Durable' <=>
        r \in Logged' \/ \E c \in Clients : pc'[c] # "append" /\ r \in pending'[c]
BY DEF Durable

\* Durable records have an LSN, and the watermark is a number.
LEMMA DurableTyped ==
    ASSUME TypeOK
    PROVE  /\ Durable \subseteq Record
           /\ \A r \in Durable : r.lsn \in Nat /\ r.lsn > 0 /\ r.lsn <= MaxLsn
           /\ PublishedWatermark \in Nat
           /\ MaxLsn \in Nat
<1>1. Durable \subseteq AllRecords
  BY InDurable, InAllRecords
<1>2. Durable \subseteq Record
  BY <1>1, AllRecordsTyped
<1>3. PublishedWatermark \in 0 .. MaxLsn /\ MaxLsn \in Nat
  BY WatermarkOfFiles, RecordAssumption DEF TypeOK
<1> QED
  BY <1>2, <1>3 DEF Record, Lsn

\* Watermarks are numbers.
LEMMA LevelsTyped ==
    ASSUME TypeOK
    PROVE  /\ active.max_lsn \in Nat
           /\ \A m \in frozen : m.max_lsn \in Nat
           /\ \A c \in Clients : held[c].max_lsn \in Nat
           /\ \A s \in staging : s.watermark \in Nat
           /\ \A f \in Range(catalog) : f.watermark \in Nat
<1>1. \A m \in Memtable : m.max_lsn \in Nat
  BY RecordAssumption DEF Memtable
<1>2. \A f \in File : f.watermark \in Nat
  BY RecordAssumption DEF File
<1>3. Range(catalog) \subseteq File
  BY DEF TypeOK, Range
<1> QED
  BY <1>1, <1>2, <1>3 DEF TypeOK

\* In any list of lake files, the newest file that holds a key answers with
\* something at least as new as any row the list holds for the key.
LEMMA FilesAnswer ==
    ASSUME SerialInv, NEW ix, ix \in Seq(File), Range(ix) \subseteq Range(catalog),
           NEW k, NEW f \in Range(ix), NEW s \in f.rows, s.key = k
    PROVE  Covers(ColumnarGet(ix, k), s)
<1> DEFINE holders == {h \in Range(ix) : Of(h.rows, k) # {}}
           W == {h.watermark : h \in holders}
<1>0. TypeOK /\ FilesNewest /\ MaxLsn \in Nat
  BY RecordAssumption DEF SerialInv, EngineInv
<1>1. holders \subseteq File /\ f \in holders
  BY DEF Range, Of
<1>2. W \in SUBSET (0 .. MaxLsn) /\ W # {}
  BY <1>1 DEF File
<1>3. Max(W) \in W /\ \A x \in W : x <= Max(W)
  BY <1>0, <1>2, MaxOfBounded
<1>4. PICK top \in holders : top.watermark = Max(W)
  BY <1>3
<1> DEFINE newest == {h \in holders : \A g \in holders : g.watermark <= h.watermark}
<1>5. top \in newest
  BY <1>3, <1>4
<1>6. ColumnarGet(ix, k) = UNION {Of(h.rows, k) : h \in newest}
  BY DEF ColumnarGet
<1> HIDE DEF W
<1>7. ColumnarGet(ix, k) # {}
  BY <1>5, <1>6
<1>8. ASSUME NEW a \in ColumnarGet(ix, k) PROVE a.lsn >= s.lsn
  <2>1. PICK h \in newest : a \in Of(h.rows, k)
    BY <1>6
  <2>2. f.watermark <= h.watermark /\ h \in Range(catalog) /\ f \in Range(catalog)
    BY <1>1, <2>1
  <2>3. Exact(f.rows, f.watermark) /\ Newest(Durable, h.rows, h.watermark)
    BY <1>0, <2>2 DEF FilesNewest
  <2>4. s.lsn <= f.watermark
    BY <2>3 DEF Exact
  <2>5. s \in Durable /\ a \in Durable
    BY <2>1, <2>2, InLogged, InDurable DEF Of
  <2>6. s.lsn \in Nat /\ a.lsn \in Nat /\ f.watermark \in Nat /\ h.watermark \in Nat
    <3>1. f \in File /\ h \in File
      BY <1>1, <2>1
    <3> QED BY <1>0, <2>5, <3>1, DurableTyped DEF File
  <2>7. s.lsn <= h.watermark
    BY <2>2, <2>4, <2>6
  <2>8. s.lsn <= a.lsn
    BY <2>1, <2>3, <2>5, <2>7 DEF Newest, Of
  <2> QED BY <2>6, <2>8
<1> QED
  BY <1>7, <1>8 DEF Covers

\* The newest of a set of records on one key is a winner.
LEMMA WinnersExist ==
    ASSUME NEW R \in SUBSET Record, R # {}, NEW k, \A r \in R : r.key = k
    PROVE  Winners(R) # {} /\ \A a \in Winners(R), r \in R : r.lsn <= a.lsn
<1>1. /\ MaxLsnOf(R) \in 0 .. MaxLsn
      /\ \A r \in R : r.lsn <= MaxLsnOf(R)
      /\ MaxLsnOf(R) = 0 \/ \E r \in R : r.lsn = MaxLsnOf(R)
  BY MaxLsnOfRecords
<1>2. \A r \in R : r.lsn \in Nat /\ r.lsn > 0
  BY RecordAssumption DEF Record, Lsn
<1>3. PICK r \in R : r.lsn = MaxLsnOf(R)
  BY <1>1, <1>2
<1>4. r \in Winners(R)
  BY <1>1, <1>3 DEF Winners, Of
<1> QED
  BY <1>4 DEF Winners, Of

\* What the invariant is for: a restart in this very state would answer every
\* durable record's key with that record or a later write.
LEMMA DurableRecovered ==
    ASSUME SerialInv, NEW r \in Durable
    PROVE  Covers(Recovered(r.key), r)
<1> DEFINE k == r.key
           suffix == Of(LogReplay(PublishedWatermark), k)
<1>0. /\ TypeOK /\ LakeCovers /\ TruncateAfterPublish /\ PendingIsSafe
      /\ PublishedWatermark \in Nat
      /\ \A s \in Durable : s.lsn \in Nat
      /\ wal \subseteq Record /\ wal \subseteq Durable
  BY DurableTyped, InLogged, InDurable DEF SerialInv, EngineInv, TypeOK, LogTypeOK
<1>1. r \in wal \/ r.lsn <= PublishedWatermark
  BY <1>0, InDurable DEF TruncateAfterPublish, PendingIsSafe, Safe
<1>2. \A s : s \in suffix <=> s \in wal /\ s.lsn > PublishedWatermark /\ s.key = k
  BY DEF Of, LogReplay
<1>3. CASE suffix # {}
  <2>1. Recovered(k) = Winners(suffix)
    BY <1>3 DEF Recovered
  <2> HIDE DEF suffix
  <2>2. suffix \in SUBSET Record /\ \A s \in suffix : s.key = k
    BY <1>0, <1>2
  <2>3. Winners(suffix) # {} /\ \A a \in Winners(suffix), s \in suffix : s.lsn <= a.lsn
    BY <1>3, <2>2, WinnersExist
  <2>4. Winners(suffix) \subseteq suffix
    BY DEF Winners
  <2>5. ASSUME NEW a \in Winners(suffix) PROVE a.lsn >= r.lsn
    <3>1. a \in suffix /\ a.lsn \in Nat /\ r.lsn \in Nat
      BY <1>0, <1>2, <2>4
    <3>2. CASE r \in suffix
      BY <2>3, <3>1, <3>2
    <3>3. CASE r.lsn <= PublishedWatermark
      BY <1>0, <1>2, <3>1, <3>3
    <3> QED BY <1>0, <1>1, <1>2, <3>1, <3>2, <3>3
  <2> QED BY <2>1, <2>3, <2>5 DEF Covers
<1>4. CASE suffix = {}
  <2>1. Recovered(k) = ColumnarGet(catalog, k)
    BY <1>4 DEF Recovered
  <2>2. r.lsn <= PublishedWatermark
    BY <1>0, <1>1, <1>2, <1>4
  <2>3. PICK s \in LakeRows : s.key = k /\ s.lsn >= r.lsn
    BY <1>0, <2>2 DEF LakeCovers, CoveredBy
  <2>4. PICK f \in Range(catalog) : s \in f.rows
    BY <2>3 DEF LakeRows
  <2>5. Covers(ColumnarGet(catalog, k), s)
    BY <1>0, <2>3, <2>4, FilesAnswer DEF TypeOK
  <2>6. ColumnarGet(catalog, k) \subseteq Durable /\ s \in Durable
    <3>1. ASSUME NEW a \in ColumnarGet(catalog, k) PROVE a \in Durable
      <4>1. PICK g \in Range(catalog) : a \in Of(g.rows, k)
        BY DEF ColumnarGet
      <4> QED BY <4>1, InLogged, InDurable DEF Of
    <3> QED BY <2>4, <3>1, InLogged, InDurable
  <2>7. \A a \in ColumnarGet(catalog, k) : a.lsn >= r.lsn
    BY <1>0, <2>3, <2>5, <2>6 DEF Covers
  <2> QED BY <2>1, <2>5, <2>7 DEF Covers
<1> QED
  BY <1>3, <1>4

------------------------------------------------------------------------------
(* Steps that make no new durable record and publish nothing.               *)

\* Claims about rows stay true when durable records go and the watermark rises.
LEMMA GoodStays ==
    ASSUME TypeOK, NEW D, D \subseteq Durable, NEW p \in Nat, PublishedWatermark <= p
    PROVE  \A rows, w : /\ Newest(Durable, rows, w) => Newest(D, rows, w)
                        /\ Complete(Durable, PublishedWatermark, rows, w) => Complete(D, p, rows, w)
<1>1. \A r \in Durable : r.lsn \in Nat
  BY DurableTyped
<1>2. PublishedWatermark \in Nat
  BY DurableTyped
<1> QED
  BY <1>1, <1>2 DEF Newest, Complete

\* An empty memtable claims nothing.
LEMMA EmptyIsGood ==
    ASSUME TypeOK, NEW D, D \subseteq Record, NEW p \in Nat
    PROVE  Newest(D, {}, 0) /\ Complete(D, p, {}, 0)
BY RecordAssumption DEF Newest, Complete, Record, Lsn

\* The bulk of the steps: records leave levels, calls move on or return, memtables
\* that are published may go, and files are staged from what a flush holds.
LEMMA OrdinaryStep ==
    ASSUME SerialInv, EngineInv', unsynced' = {},
           catalog' = catalog, active' = active,
           mode' = "up" <=> mode = "up",
           openWm' \in {openWm, PublishedWatermark},
           wal' \subseteq wal,
           frozen' \subseteq frozen,
           \A m \in frozen : m \in frozen' \/ m.max_lsn <= PublishedWatermark,
           \A s \in staging' :
               \/ s \in staging
               \/ s.rows = {}
               \/ \E c \in Clients : s.rows = held[c].rows /\ s.watermark = held[c].max_lsn,
           \A c \in Clients : \/ pc'[c] = pc[c] /\ pending'[c] = pending[c]
                              \/ /\ pc[c] \notin {"append", "insert"}
                                 /\ pc'[c] \notin {"append", "insert"}
                                 /\ pending'[c] \subseteq pending[c],
           \A c \in Clients : \/ held'[c] = held[c]
                              \/ held'[c].rows = {} /\ held'[c].max_lsn = 0,
           \A c \in Clients : pc'[c] \in FlushPhases =>
               pc[c] \in FlushPhases /\ held'[c] = held[c],
           \A c \in Clients : pc'[c] \in {"retire", "skip_retire"} =>
               held[c].max_lsn <= PublishedWatermark,
           \A r \in acked' : \/ r \in acked
                             \/ \E c \in Clients : /\ pc[c] \notin {"append", "insert"}
                                                   /\ r \in pending[c],
           index' \in {index, catalog} \/ \E c \in Clients : index' = loaded[c],
           \A c \in Clients : loaded'[c] \in {loaded[c], catalog, << >>}
    PROVE  SerialInv'
<1>a. Durable' \subseteq Durable
  <2> SUFFICES ASSUME NEW r, r \in Durable' PROVE r \in Durable
    OBVIOUS
  <2>1. CASE r \in Logged'
    <3>1. CASE r \in acked'
      BY <3>1, InLogged, InDurable
    <3>2. CASE \E d \in Clients : r \in held'[d].rows
      BY <3>2, InLogged, InDurable
    <3>3. CASE \E x \in staging' : r \in x.rows
      BY <3>3, InLogged, InDurable
    <3> QED BY <2>1, <3>1, <3>2, <3>3, InLogged, InLoggedNext, InDurable
  <2>2. CASE \E c \in Clients : pc'[c] # "append" /\ r \in pending'[c]
    BY <2>2, InDurable
  <2> QED BY <2>1, <2>2, InDurableNext
<1>0. /\ TypeOK /\ TypeOK' /\ EngineInv
      /\ PublishedWatermark' = PublishedWatermark /\ PublishedWatermark \in Nat
      /\ PublishedWatermark <= PublishedWatermark
      /\ \A r \in Durable : r.lsn \in Nat /\ r.lsn > 0
      /\ Durable' \subseteq Record
  BY <1>a, SameWatermark, DurableTyped DEF SerialInv, EngineInv
<1>b. RetiresItsOwn' /\ openWm' <= PublishedWatermark'
  BY <1>0 DEF SerialInv, RetiresItsOwn
<1>c. IndexBehindLake'
  <2>1. Range(<< >>) = {}
    BY DEF Range
  <2>2. Range(index') \subseteq Range(catalog)
    BY DEF SerialInv, IndexBehindLake
  <2>3. \A c \in Clients : Range(loaded'[c]) \subseteq Range(catalog)
    BY <2>1 DEF SerialInv, IndexBehindLake
  <2> QED BY <2>2, <2>3 DEF IndexBehindLake
<1>1. \A rows, w : /\ Newest(Durable, rows, w) => Newest(Durable', rows, w)
                   /\ Complete(Durable, PublishedWatermark, rows, w)
                        => Complete(Durable', PublishedWatermark, rows, w)
  BY <1>a, <1>0, GoodStays
<1>2. FilesNewest'
  BY <1>0, <1>1 DEF SerialInv, FilesNewest
<1>3. LakeCovers'
  <2>1. LakeRows' = LakeRows
    BY DEF LakeRows
  <2> QED BY <1>a, <1>0, <2>1 DEF SerialInv, LakeCovers
<1>4. FlushesGood'
  <2>0. Newest(Durable', {}, 0) /\ Complete(Durable', PublishedWatermark, {}, 0)
    BY <1>0, EmptyIsGood
  <2>1. \A m \in frozen : Good(m.rows, m.max_lsn)
    BY DEF SerialInv, FlushesGood
  <2>2. \A c \in Clients : Good(held[c].rows, held[c].max_lsn)
    BY DEF SerialInv, FlushesGood
  <2>3. \A s \in staging : s.rows # {} => Good(s.rows, s.watermark)
    BY DEF SerialInv, FlushesGood
  <2>4. \A m \in frozen' : Good(m.rows, m.max_lsn)'
    BY <1>0, <1>1, <2>1 DEF Good
  <2>5. \A c \in Clients : Good(held[c].rows, held[c].max_lsn)'
    BY <1>0, <1>1, <2>0, <2>2 DEF Good
  <2>6. \A s \in staging' : s.rows # {} => Good(s.rows, s.watermark)'
    BY <1>0, <1>1, <2>2, <2>3 DEF Good
  <2> QED BY <2>4, <2>5, <2>6 DEF FlushesGood
<1>5. \A r : Inserting(r) => Inserting(r)'
  BY DEF Inserting
<1>6. ActiveNewest'
  BY <1>a, <1>5 DEF SerialInv, ActiveNewest
<1>7. UnpublishedInMemory'
  <2> SUFFICES ASSUME mode' = "up", NEW r \in Durable', r.lsn > PublishedWatermark
               PROVE  \/ Inserting(r)'
                      \/ CoveredBy(active'.rows, r)
                      \/ \E m \in frozen' : r.lsn <= m.max_lsn
    BY <1>0 DEF UnpublishedInMemory
  <2>1. \/ Inserting(r)
        \/ CoveredBy(active.rows, r)
        \/ \E m \in frozen : r.lsn <= m.max_lsn
    BY <1>a DEF SerialInv, UnpublishedInMemory
  <2>2. CASE \E m \in frozen : r.lsn <= m.max_lsn
    <3>1. PICK m \in frozen : r.lsn <= m.max_lsn
      BY <2>2
    <3>2. m.max_lsn \in Nat /\ r.lsn \in Nat
      BY <1>a, <1>0 DEF TypeOK, Memtable
    <3> QED BY <1>0, <3>1, <3>2
  <2> QED BY <1>5, <2>1, <2>2
<1>8. PendingIsLater'
  <2>0. /\ FrozenRows' \subseteq FrozenRows /\ LakeRows' = LakeRows
        /\ HeldRows' \subseteq HeldRows /\ StagedRows' \subseteq StagedRows \cup HeldRows
    BY DEF FrozenRows, LakeRows, HeldRows, StagedRows
  <2> SUFFICES ASSUME NEW c \in Clients, pc'[c] \in Writing, NEW r \in pending'[c]
               PROVE  /\ \A s \in (FrozenRows \cup HeldRows \cup StagedRows \cup LakeRows)' :
                            s.lsn < r.lsn
                      /\ r \notin active'.rows \cup acked'
                      /\ \A d \in Clients \ {c} : r \notin pending'[d]
    BY DEF PendingIsLater
  <2>1. pc[c] \in Writing /\ r \in pending[c]
    BY DEF Writing
  <2>2. /\ \A s \in FrozenRows \cup HeldRows \cup StagedRows \cup LakeRows : s.lsn < r.lsn
        /\ r \notin active.rows \cup acked
        /\ \A d \in Clients \ {c} : r \notin pending[d]
    BY <2>1 DEF SerialInv, PendingIsLater
  <2>3. \A d \in Clients \ {c} : r \notin pending'[d]
    BY <2>2
  <2>4. r \notin acked'
    BY <2>1, <2>2 DEF Writing
  <2> QED BY <2>0, <2>2, <2>3, <2>4
<1> QED
  BY <1>b, <1>c, <1>2, <1>3, <1>4, <1>6, <1>7, <1>8 DEF SerialInv

\* A call moves on to its next phase.
LEMMA CallMoves ==
    ASSUME SerialInv, EngineInv', NEW c \in Clients, NEW ph, mode = "up", Goto(c, ph),
           pc[c] \notin {"append", "insert"}, ph \notin {"append", "insert"},
           ph \in FlushPhases => pc[c] \in FlushPhases,
           ph \in {"retire", "skip_retire"} => held[c].max_lsn <= PublishedWatermark,
           UNCHANGED <<openVars, catalog, active, unsynced, pending, held, acked>>,
           wal' \subseteq wal,
           frozen' \subseteq frozen,
           \A m \in frozen : m \in frozen' \/ m.max_lsn <= PublishedWatermark,
           \A s \in staging' : s \in staging \/ (/\ s.rows = held[c].rows
                                                 /\ s.watermark = held[c].max_lsn),
           index' \in {index, loaded[c]},
           loaded' = loaded \/ loaded' = [loaded EXCEPT ![c] = catalog]
    PROVE  SerialInv'
<1>0. TypeOK /\ mode' = mode /\ openWm' = openWm /\ unsynced = {}
  BY DEF SerialInv, EngineInv, openVars
<1>1. /\ pc'[c] = ph
      /\ \A d \in Clients : d # c => pc'[d] = pc[d]
      /\ \A d \in Clients : loaded'[d] \in {loaded[d], catalog, << >>}
  BY <1>0 DEF TypeOK, Goto
<1>2. \A d \in Clients : pc[d] \in {"retire", "skip_retire"} => held[d].max_lsn <= PublishedWatermark
  BY DEF SerialInv, RetiresItsOwn
<1> QED
  BY <1>0, <1>1, <1>2, OrdinaryStep

\* A call returns.
LEMMA CallReturns ==
    ASSUME SerialInv, EngineInv', NEW c \in Clients, mode = "up", ReturnOk(c) \/ ReturnErr(c),
           pc[c] \notin {"append", "insert"},
           UNCHANGED <<openVars, catalog, active, unsynced, index>>,
           wal' \subseteq wal,
           frozen' \subseteq frozen,
           \A m \in frozen : m \in frozen' \/ m.max_lsn <= PublishedWatermark,
           \A s \in staging' : s \in staging \/ s.rows = {}
    PROVE  SerialInv'
<1>0. /\ TypeOK /\ mode' = mode /\ openWm' = openWm /\ unsynced = {} /\ Return(c)
      /\ acked' = acked \/ acked' = acked \cup pending[c]
  BY DEF SerialInv, EngineInv, openVars, ReturnOk, ReturnErr
<1>1. /\ pc'[c] = "idle" /\ pending'[c] = {}
      /\ held'[c].rows = {} /\ held'[c].max_lsn = 0
      /\ \A d \in Clients : d # c =>
            pc'[d] = pc[d] /\ pending'[d] = pending[d] /\ held'[d] = held[d]
  BY <1>0, ReturnFacts
<1>2. \A d \in Clients : loaded'[d] \in {loaded[d], catalog, << >>}
  BY <1>0 DEF TypeOK, Return
<1>3. \A d \in Clients : pc[d] \in {"retire", "skip_retire"} => held[d].max_lsn <= PublishedWatermark
  BY DEF SerialInv, RetiresItsOwn
<1>4. "idle" \notin FlushPhases
  BY DEF FlushPhases
<1> QED
  BY <1>0, <1>1, <1>2, <1>3, <1>4, OrdinaryStep

------------------------------------------------------------------------------
(* One lemma per part of Next.                                              *)

\* The steps of a flush that move on.
LEMMA SerialFlushMoves ==
    ASSUME SerialInv, EngineInv', NEW c \in Clients,
           \/ CallFlush(c) \/ PlanFlush(c) \/ Stage(c) \/ Publish(c)
           \/ LoadIndex(c) \/ StoreIndex(c) \/ Truncate(c)
    PROVE  SerialInv'
<1>0. /\ TypeOK /\ FlushedIsPublished /\ PublishedWatermark \in Nat
      /\ Exact(held[c].rows, held[c].max_lsn)
  BY DurableTyped DEF SerialInv, EngineInv, TablesExact
<1>a. {"plan", "stage", "publish", "waiting", "load_index", "store_index", "truncate", "skip_truncate"}
         \subseteq FlushPhases /\ "freeze" \notin FlushPhases
  BY DEF FlushPhases
<1>1. CASE CallFlush(c)
  BY <1>a, <1>1, CallMoves DEF CallFlush, At, logVars, lakeVars, memVars
<1>2. CASE PlanFlush(c)
  <2> DEFINE ph == CASE Plan(PublishedWatermark, held[c]) = "empty" -> "skip_retire"
                     [] Plan(PublishedWatermark, held[c]) = "already_published" -> "skip_truncate"
                     [] OTHER -> "stage"
  <2>1. /\ ph \in {"skip_retire", "skip_truncate", "stage"}
        /\ ph = "skip_retire" => held[c].rows = {}
    BY DEF Plan
  <2>2. mode = "up" /\ pc[c] = "plan" /\ Goto(c, ph)
    BY <1>2 DEF PlanFlush, At
  <2>3. /\ UNCHANGED <<wal, staging, frozen, index, loaded>>
        /\ UNCHANGED <<openVars, catalog, active, unsynced, pending, held, acked>>
    BY <1>2 DEF PlanFlush, logVars, lakeVars, memVars
  <2>4. held[c].rows = {} => held[c].max_lsn <= PublishedWatermark
    BY <1>0 DEF Exact
  <2> HIDE DEF ph
  <2> QED BY <1>a, <2>1, <2>2, <2>3, <2>4, CallMoves
<1>3. CASE Stage(c)
  <2>1. \A s \in staging' : s \in staging \/ (/\ s.rows = held[c].rows
                                             /\ s.watermark = held[c].max_lsn)
    BY <1>3 DEF Stage, StageFile
  <2> QED BY <1>a, <1>3, <2>1, CallMoves DEF Stage, At, logVars, memVars
<1>4. CASE Publish(c)
  BY <1>a, <1>4, CallMoves DEF Publish, At, logVars, memVars
<1>5. CASE LoadIndex(c)
  BY <1>a, <1>5, CallMoves DEF LoadIndex, At, logVars, lakeVars, memVars
<1>6. CASE StoreIndex(c)
  BY <1>a, <1>6, CallMoves DEF StoreIndex, At, logVars, lakeVars, memVars
<1>7. CASE Truncate(c)
  <2>1. held[c].max_lsn <= PublishedWatermark
    BY <1>0, <1>7 DEF FlushedIsPublished, Truncate, At
  <2>2. wal' \subseteq wal /\ unsynced' = unsynced
    BY <1>7 DEF Truncate, LogTruncate
  <2> QED BY <1>a, <1>7, <2>1, <2>2, CallMoves DEF Truncate, At, lakeVars, memVars
<1> QED
  BY <1>1, <1>2, <1>3, <1>4, <1>5, <1>6, <1>7

\* The steps of a flush that end the call, and its failures.
LEMMA SerialFlushReturns ==
    ASSUME SerialInv, EngineInv', Serial, NEW c \in Clients,
           \/ FreezeStalled(c) \/ FreezeNothing(c) \/ Retire(c) \/ Unstage(c) \/ FlushFault(c)
    PROVE  SerialInv'
<1>0. "dropped_call" \notin Faults
  BY DEF Serial
<1>1. CASE FreezeStalled(c)
  BY <1>1, CallReturns DEF FreezeStalled, At, logVars, lakeVars, memVars
<1>2. CASE FreezeNothing(c)
  BY <1>2, CallReturns DEF FreezeNothing, At, logVars, lakeVars, memVars
<1>3. CASE Retire(c)
  <2>1. pc[c] \in {"retire", "skip_retire"} /\ mode = "up"
    BY <1>3 DEF Retire, At
  <2>2. pc[c] \in FlushPhases /\ "unstage" \in FlushPhases
    BY <2>1 DEF FlushPhases
  <2>3. frozen' = {m \in frozen : m.id # held[c].id}
    BY <1>3 DEF Retire
  <2>4. \A m \in frozen : m \in frozen' \/ m.max_lsn <= PublishedWatermark
    BY <2>1, <2>2, <2>3 DEF SerialInv, RetiresItsOwn
  <2>5. frozen' \subseteq frozen
    BY <2>3
  <2>6. CASE At(c, "skip_retire") /\ ReturnOk(c)
    BY <1>3, <2>1, <2>4, <2>5, <2>6, CallReturns DEF Retire, logVars, lakeVars
  <2>7. CASE At(c, "retire") /\ Goto(c, "unstage") /\ UNCHANGED <<pending, held, loaded, acked>>
    BY <1>3, <2>1, <2>2, <2>4, <2>5, <2>7, CallMoves DEF Retire, logVars, lakeVars
  <2> QED BY <1>3, <2>6, <2>7 DEF Retire
<1>4. CASE Unstage(c)
  BY <1>4, CallReturns DEF Unstage, UnstageFile, At, logVars, memVars
<1>5. CASE FlushFail(c)
  BY <1>5, CallReturns DEF FlushFail, At, logVars, lakeVars, memVars
<1>6. CASE StageFail(c)
  BY <1>6, CallReturns DEF StageFail, StageFile, At, logVars, memVars
<1>7. CASE TruncateFail(c)
  <2>1. wal' \subseteq wal /\ unsynced' = unsynced
    BY <1>7 DEF TruncateFail, LogTruncate
  <2> QED BY <1>7, <2>1, CallReturns DEF TruncateFail, At, lakeVars, memVars
<1> QED
  BY <1>0, <1>1, <1>2, <1>3, <1>4, <1>5, <1>6, <1>7 DEF FlushFault, Abandon

\* A DuckDB child fails.
LEMMA SerialDuckFail ==
    ASSUME SerialInv, EngineInv', NEW job \in duckdb, DuckFail(job)
    PROVE  SerialInv'
<1>0. /\ job.owner \in Clients /\ unsynced = {}
      /\ UNCHANGED <<wal, unsynced, staging, catalog, active, frozen, openVars, index>>
  BY DEF SerialInv, EngineInv, TypeOK, DuckFail, logVars, memVars
<1>1. CASE Waiting(job) /\ ReturnErr(job.owner)
  BY <1>0, <1>1, CallReturns DEF Waiting, At
<1>2. CASE UNCHANGED <<callVars, acked>>
  <2>1. UNCHANGED <<pc, pending, held, loaded, acked, mode, openWm>>
    BY <1>0, <1>2 DEF callVars, openVars
  <2>2. \A d \in Clients : pc[d] \in {"retire", "skip_retire"} => held[d].max_lsn <= PublishedWatermark
    BY DEF SerialInv, RetiresItsOwn
  <2> QED BY <1>0, <2>1, <2>2, OrdinaryStep
<1> QED
  BY <1>1, <1>2 DEF DuckFail

\* Reads, stuttering and the first two steps of Engine::open.
LEMMA SerialQuiet ==
    ASSUME SerialInv, EngineInv', mode' = "up" <=> mode = "up",
           openWm' \in {openWm, PublishedWatermark},
           UNCHANGED <<logVars, lakeVars, memVars, callVars, acked>>,
           index' \in {index, catalog}
    PROVE  SerialInv'
<1>1. UNCHANGED <<wal, unsynced, staging, catalog, active, frozen, pc, pending, held, loaded>>
  BY DEF logVars, lakeVars, memVars, callVars
<1>2. unsynced = {}
  BY DEF SerialInv
<1>3. \A d \in Clients : pc[d] \in {"retire", "skip_retire"} => held[d].max_lsn <= PublishedWatermark
  BY DEF SerialInv, RetiresItsOwn
<1> QED
  BY <1>1, <1>2, <1>3, OrdinaryStep

\* A write on its way is above every watermark and, but for the active memtable's,
\* every max_lsn.
LEMMA PendingAbove ==
    ASSUME SerialInv, NEW c \in Clients, pc[c] \in Writing, NEW r \in pending[c]
    PROVE  /\ r \in Record /\ r.lsn \in Nat /\ r.lsn > 0
           /\ PublishedWatermark < r.lsn
           /\ \A m \in frozen : m.max_lsn < r.lsn
           /\ \A d \in Clients : held[d].max_lsn < r.lsn
           /\ \A s \in staging : s.rows # {} => s.watermark < r.lsn
           /\ \A f \in Range(catalog) : f.watermark < r.lsn
<1>0. TypeOK /\ TablesExact /\ FilesNewest
  BY DEF SerialInv, EngineInv
<1>1. r \in Record /\ r.lsn \in Nat /\ r.lsn > 0
  BY <1>0, RecordAssumption DEF TypeOK, Record, Lsn
<1>2. \A s \in FrozenRows \cup HeldRows \cup StagedRows \cup LakeRows : s.lsn < r.lsn
  BY DEF SerialInv, PendingIsLater
<1>3. \A R, n : Exact(R, n) /\ (\A s \in R : s.lsn < r.lsn) => n < r.lsn
  BY <1>1 DEF Exact
<1>5. \A m \in frozen : m.max_lsn < r.lsn
  BY <1>0, <1>2, <1>3 DEF TablesExact, FrozenRows
<1>6. \A d \in Clients : held[d].max_lsn < r.lsn
  BY <1>0, <1>2, <1>3 DEF TablesExact, HeldRows
<1>7. \A s \in staging : s.rows # {} => s.watermark < r.lsn
  BY <1>0, <1>2, <1>3 DEF TablesExact, StagedRows
<1>8. \A f \in Range(catalog) : f.watermark < r.lsn
  BY <1>0, <1>2, <1>3 DEF FilesNewest, LakeRows
<1>9. PublishedWatermark < r.lsn
  BY <1>0, <1>1, <1>8, WatermarkOfFiles DEF TypeOK
<1> QED
  BY <1>1, <1>5, <1>6, <1>7, <1>8, <1>9

\* A call takes the next LSN: above every record there is.
LEMMA SerialTakeLsn ==
    ASSUME SerialInv, EngineInv', NEW c \in Writers,
           NEW k \in Keys, NEW v \in Values \cup {Tombstone}, TakeLsn(c, k, v)
    PROVE  SerialInv'
<1> DEFINE new == [key |-> k, lsn |-> nextLsn, val |-> v]
<1>0. /\ c \in Clients /\ TypeOK /\ EngineInv /\ mode = "up" /\ mode' = "up" /\ pc[c] = "idle"
      /\ nextLsn \in Nat
      /\ PublishedWatermark' = PublishedWatermark /\ PublishedWatermark \in Nat
  <2>1. TypeOK /\ EngineInv
    BY DEF SerialInv, EngineInv
  <2> QED BY <2>1, SameWatermark, DurableTyped DEF Clients, TypeOK, TakeLsn, At, lakeVars
<1>1. /\ pc'[c] = "append" /\ \A d \in Clients : d # c => pc'[d] = pc[d]
      /\ pending'[c] = {new} /\ \A d \in Clients : d # c => pending'[d] = pending[d]
  BY <1>0 DEF TakeLsn, Goto, TypeOK
<1>2. /\ UNCHANGED <<wal, unsynced, covered, staging, duckdb, catalog>>
      /\ UNCHANGED <<active, frozen, held, acked, index, loaded, openWm>>
  BY DEF TakeLsn, logVars, lakeVars, memVars
<1>3. Logged' = Logged /\ LakeRows' = LakeRows
  BY <1>2 DEF Logged, MemRows, HeldRows, StagedRows, LakeRows
<1>4. Durable' \subseteq Durable
  BY <1>1, <1>3, InDurable, InDurableNext
<1>5. \A rows, w : /\ Newest(Durable, rows, w) => Newest(Durable', rows, w)
                   /\ Complete(Durable, PublishedWatermark, rows, w)
                        => Complete(Durable', PublishedWatermark, rows, w)
  BY <1>0, <1>4, GoodStays
<1>6. FilesNewest' /\ LakeCovers' /\ FlushesGood'
  BY <1>0, <1>2, <1>3, <1>4, <1>5 DEF SerialInv, FilesNewest, LakeCovers, FlushesGood, Good
<1>7. \A r : Inserting(r) => Inserting(r)'
  BY <1>0, <1>1 DEF Inserting
<1>8. ActiveNewest' /\ UnpublishedInMemory'
  BY <1>0, <1>2, <1>4, <1>7 DEF SerialInv, ActiveNewest, UnpublishedInMemory
<1>9. RetiresItsOwn' /\ IndexBehindLake'
  <2>1. \A d \in Clients : pc'[d] \in FlushPhases => pc[d] \in FlushPhases
    BY <1>0, <1>1 DEF FlushPhases
  <2>2. \A d \in Clients : pc'[d] \in {"retire", "skip_retire"} => pc'[d] = pc[d]
    BY <1>0, <1>1
  <2> QED BY <1>0, <1>2, <2>1, <2>2 DEF SerialInv, RetiresItsOwn, IndexBehindLake
<1>10. PendingIsLater'
  <2>1. \A s \in AllRecords : s.lsn < nextLsn
    BY <1>0 DEF EngineInv, LsnsBelowNext
  <2>2. new.lsn = nextLsn
    OBVIOUS
  <2> HIDE DEF new
  <2>3. new \notin AllRecords
    BY <1>0, <2>1, <2>2
  <2>4. /\ FrozenRows' = FrozenRows /\ HeldRows' = HeldRows /\ StagedRows' = StagedRows
        /\ FrozenRows \cup HeldRows \cup StagedRows \cup LakeRows \subseteq AllRecords
        /\ active.rows \cup acked \subseteq AllRecords
    BY <1>2 DEF AllRecords, Logged, FrozenRows, MemRows, HeldRows, StagedRows, LakeRows
  <2>5. \A d \in Clients : pending[d] \subseteq AllRecords
    BY InAllRecords
  <2> SUFFICES ASSUME NEW d \in Clients, pc'[d] \in Writing, NEW r \in pending'[d]
               PROVE  /\ \A s \in FrozenRows \cup HeldRows \cup StagedRows \cup LakeRows :
                            s.lsn < r.lsn
                      /\ r \notin active.rows \cup acked
                      /\ \A e \in Clients \ {d} : r \notin pending'[e]
    BY <1>2, <1>3, <2>4 DEF PendingIsLater
  <2>6. CASE d = c
    BY <1>1, <2>1, <2>2, <2>3, <2>4, <2>5, <2>6
  <2>7. CASE d # c
    <3>1. pc[d] \in Writing /\ r \in pending[d] /\ r # new
      BY <1>1, <2>3, <2>5, <2>7
    <3> QED BY <1>1, <3>1 DEF SerialInv, PendingIsLater
  <2> QED BY <2>6, <2>7
<1> QED
  BY <1>0, <1>2, <1>6, <1>8, <1>9, <1>10 DEF SerialInv

\* The record becomes durable, above everything any level claims to be complete for.
LEMMA SerialWalAppend ==
    ASSUME SerialInv, EngineInv', NEW c \in Writers, WalAppend(c)
    PROVE  SerialInv'
<1>0. /\ c \in Clients /\ TypeOK /\ EngineInv
      /\ mode = "up" /\ mode' = "up"
      /\ pc[c] = "append" /\ pc'[c] = "insert"
      /\ \A d \in Clients : d # c => pc'[d] = pc[d]
  BY DEF Clients, SerialInv, EngineInv, TypeOK, WalAppend, At, Goto, openVars
<1>1. PICK r \in pending[c] : LogAppend(r)
  BY DEF WalAppend
<1>2. /\ wal' = wal \cup {r} /\ unsynced' = {}
      /\ UNCHANGED <<staging, catalog, active, frozen, pending, held, acked, index, loaded, openWm>>
      /\ PublishedWatermark' = PublishedWatermark
  BY <1>1, SameWatermark DEF WalAppend, LogAppend, lakeVars, memVars, openVars, SerialInv
<1>3. /\ r \in Record /\ r.lsn \in Nat /\ r.lsn > 0
      /\ PublishedWatermark < r.lsn
      /\ \A m \in frozen : m.max_lsn < r.lsn
      /\ \A d \in Clients : held[d].max_lsn < r.lsn
      /\ \A s \in staging : s.rows # {} => s.watermark < r.lsn
      /\ \A f \in Range(catalog) : f.watermark < r.lsn
  BY <1>0, PendingAbove DEF Writing
<1>a. \A s \in pending[c] : s = r
  BY <1>0 DEF EngineInv, PendingIsSafe
<1>4. \A s : s \in Durable' => s \in Durable \/ s = r
  <2>1. \A s : s \in Logged' => s \in Logged \/ s = r
    BY <1>2, InLogged, InLoggedNext
  <2> QED BY <1>0, <1>2, <1>a, <2>1, InDurable, InDurableNext
<1>5. LakeRows' = LakeRows /\ MemRows' = MemRows /\ HeldRows' = HeldRows /\ StagedRows' = StagedRows
  BY <1>2 DEF LakeRows, MemRows, HeldRows, StagedRows
<1>b. PublishedWatermark \in Nat
  BY <1>0, DurableTyped
<1>6. \A rows : \A w \in Nat : w < r.lsn =>
        /\ Newest(Durable, rows, w) => Newest(Durable', rows, w)
        /\ Complete(Durable, PublishedWatermark, rows, w)
              => Complete(Durable', PublishedWatermark, rows, w)
  BY <1>3, <1>4 DEF Newest, Complete
<1>c. /\ \A m \in frozen : m.max_lsn \in Nat
      /\ \A d \in Clients : held[d].max_lsn \in Nat
      /\ \A s \in staging : s.watermark \in Nat
      /\ \A f \in Range(catalog) : f.watermark \in Nat
  BY <1>0, LevelsTyped
<1>7. FilesNewest'
  BY <1>2, <1>3, <1>6, <1>c DEF SerialInv, FilesNewest
<1>8. LakeCovers'
  BY <1>b, <1>2, <1>3, <1>4, <1>5 DEF SerialInv, LakeCovers
<1>9. FlushesGood'
  BY <1>2, <1>3, <1>6, <1>c DEF SerialInv, FlushesGood, Good
<1>10. Inserting(r)' /\ \A s : Inserting(s) => Inserting(s)'
  BY <1>0, <1>2 DEF Inserting
<1>11. ActiveNewest' /\ UnpublishedInMemory'
  BY <1>0, <1>2, <1>4, <1>10 DEF SerialInv, ActiveNewest, UnpublishedInMemory
<1>12. RetiresItsOwn' /\ IndexBehindLake'
  <2>1. \A d \in Clients : pc'[d] \in FlushPhases => pc[d] \in FlushPhases
    BY <1>0 DEF FlushPhases
  <2>2. \A d \in Clients : pc'[d] \in {"retire", "skip_retire"} => pc'[d] = pc[d]
    BY <1>0
  <2> QED BY <1>0, <1>2, <2>1, <2>2 DEF SerialInv, RetiresItsOwn, IndexBehindLake
<1>13. PendingIsLater'
  <2>1. \A d \in Clients : pc'[d] \in Writing => pc[d] \in Writing
    BY <1>0 DEF Writing
  <2>2. FrozenRows' = FrozenRows
    BY <1>2 DEF FrozenRows
  <2> QED BY <1>2, <1>5, <2>1, <2>2 DEF SerialInv, PendingIsLater
<1> QED
  BY <1>2, <1>7, <1>8, <1>9, <1>11, <1>12, <1>13 DEF SerialInv

\* The record becomes visible, or is superseded by a newer one already there.  A
\* durable record that is newer than it, and not in the active memtable, is itself
\* still on its way: everything below the active memtable is older.
LEMMA SerialMemInsert ==
    ASSUME SerialInv, EngineInv', NEW c \in Writers, MemInsert(c)
    PROVE  SerialInv'
<1>0. /\ c \in Clients /\ TypeOK /\ EngineInv
      /\ mode = "up" /\ mode' = "up"
      /\ pc[c] = "insert" /\ pc'[c] = "check"
      /\ \A d \in Clients : d # c => pc'[d] = pc[d]
  BY DEF Clients, SerialInv, EngineInv, TypeOK, MemInsert, At, Goto, openVars
<1>1. PICK r \in pending[c] : active' = Insert(active, r)
  BY DEF MemInsert
<1>2. /\ UNCHANGED <<wal, unsynced, staging, catalog, frozen, pending, held, acked, index,
                    loaded, openWm>>
      /\ PublishedWatermark' = PublishedWatermark
  BY SameWatermark DEF MemInsert, logVars, lakeVars, openVars
<1>a. \A s \in pending[c] : s = r
  BY <1>0 DEF EngineInv, PendingIsSafe
<1>3. /\ r \in Record /\ r.lsn \in Nat /\ r \in Durable
      /\ PublishedWatermark < r.lsn /\ PublishedWatermark \in Nat
      /\ \A m \in frozen : m.max_lsn < r.lsn /\ m.max_lsn \in Nat
  BY <1>0, InDurable, PendingAbove, DurableTyped, LevelsTyped DEF Writing
<1>b. \A q : Inserting(q) => q = r \/ Inserting(q)'
  BY <1>0, <1>2, <1>a DEF Inserting
<1>c. \A s \in active.rows : s \in Durable /\ s.lsn \in Nat /\ ~Inserting(s)
  <2>1. \A s \in active.rows : ~Inserting(s)
    BY DEF SerialInv, PendingIsLater, Inserting, Writing
  <2> QED BY <1>0, <2>1, InLogged, InDurable, DurableTyped
<1> DEFINE loses == \E s \in Of(active.rows, r.key) : s.lsn >= r.lsn
<1>4. /\ loses => active'.rows = active.rows
      /\ ~loses => active'.rows = (active.rows \ Of(active.rows, r.key)) \cup {r}
      /\ active'.id = active.id
  <2>1. active \in Memtable
    BY <1>0 DEF TypeOK
  <2> QED BY <1>1, <2>1 DEF Insert, Memtable
<1>d. ~loses => \A s \in active.rows : s.key = r.key => s.lsn < r.lsn
  BY <1>3, <1>c DEF Of
<1>e. loses => \E s \in active.rows : s.key = r.key /\ s.lsn >= r.lsn
  BY DEF Of
<1>f. \A s \in active'.rows : s \in active.rows \/ s = r
  BY <1>4
<1>g. \A s \in active.rows : s \in active'.rows \/ (~loses /\ s.key = r.key)
  BY <1>4 DEF Of
<1>h. ~loses => r \in active'.rows /\ \A s \in active'.rows : s = r \/ s.key # r.key
  BY <1>4 DEF Of
<1> HIDE DEF loses
<1>5. Durable' \subseteq Durable
  <2>1. \A s : s \in Logged' => s \in Logged \/ s = r
    BY <1>2, <1>f, InLogged, InLoggedNext
  <2> QED BY <1>0, <1>2, <1>3, <2>1, InDurable, InDurableNext
<1>6. \A rows, w : /\ Newest(Durable, rows, w) => Newest(Durable', rows, w)
                   /\ Complete(Durable, PublishedWatermark, rows, w)
                        => Complete(Durable', PublishedWatermark, rows, w)
  BY <1>0, <1>5, GoodStays, DurableTyped
<1>7. FilesNewest' /\ LakeCovers' /\ FlushesGood'
  <2>1. LakeRows' = LakeRows
    BY <1>2 DEF LakeRows
  <2> QED BY <1>2, <1>5, <1>6, <2>1 DEF SerialInv, FilesNewest, LakeCovers, FlushesGood, Good
<1>8. ActiveNewest'
  <2> SUFFICES ASSUME NEW s \in active'.rows, NEW q \in Durable', q.key = s.key, ~Inserting(q)'
               PROVE  q.lsn <= s.lsn
    BY DEF ActiveNewest
  <2>1. q \in Durable /\ q.lsn \in Nat /\ (Inserting(q) => q = r)
    BY <1>0, <1>5, <1>b, DurableTyped
  <2>2. CASE s = r /\ ~loses
    <3>1. CASE Inserting(q)
      BY <1>3, <2>1, <2>2, <3>1
    <3>2. CASE q.lsn <= PublishedWatermark
      BY <1>3, <2>1, <2>2, <3>2
    <3>3. CASE CoveredBy(active.rows, q)
      BY <1>3, <1>c, <1>d, <2>1, <2>2, <3>3 DEF CoveredBy
    <3>4. CASE \E m \in frozen : q.lsn <= m.max_lsn
      BY <1>3, <2>1, <2>2, <3>4
    <3> QED BY <1>0, <1>3, <2>1, <3>1, <3>2, <3>3, <3>4 DEF SerialInv, UnpublishedInMemory
  <2>3. CASE s \in active.rows
    <3>1. CASE ~Inserting(q)
      BY <2>1, <2>3, <3>1 DEF SerialInv, ActiveNewest
    <3>2. CASE Inserting(q) /\ loses
      <4>1. PICK t \in active.rows : t.key = r.key /\ t.lsn >= r.lsn
        BY <1>e, <3>2
      <4>2. t.lsn <= s.lsn
        BY <1>c, <2>1, <2>3, <3>2, <4>1 DEF SerialInv, ActiveNewest
      <4> QED BY <1>3, <1>c, <2>1, <2>3, <3>2, <4>1, <4>2
    <3>3. CASE Inserting(q) /\ ~loses
      <4>1. s = r
        BY <1>h, <2>1, <3>3
      <4> QED BY <1>3, <2>1, <3>3, <4>1
    <3> QED BY <3>1, <3>2, <3>3
  <2>4. s = r => ~loses \/ s \in active.rows
    BY <1>4
  <2> QED BY <1>f, <2>2, <2>3, <2>4
<1>9. UnpublishedInMemory'
  <2> SUFFICES ASSUME NEW q \in Durable', q.lsn > PublishedWatermark, ~Inserting(q)'
               PROVE  \/ CoveredBy(active'.rows, q)
                      \/ \E m \in frozen' : q.lsn <= m.max_lsn
    BY <1>2 DEF UnpublishedInMemory
  <2>1. \/ Inserting(q)
        \/ CoveredBy(active.rows, q)
        \/ \E m \in frozen : q.lsn <= m.max_lsn
    BY <1>0, <1>5 DEF SerialInv, UnpublishedInMemory
  <2>2. q.lsn \in Nat
    BY <1>0, <1>5, DurableTyped
  <2>3. CASE Inserting(q)
    <3>1. q = r
      BY <1>b, <2>3
    <3>2. CASE loses
      BY <1>e, <1>g, <3>1, <3>2 DEF CoveredBy
    <3>3. CASE ~loses
      BY <1>3, <1>h, <3>1, <3>3 DEF CoveredBy
    <3> QED BY <3>2, <3>3
  <2>4. CASE CoveredBy(active.rows, q)
    <3>1. PICK s \in active.rows : s.key = q.key /\ s.lsn >= q.lsn
      BY <2>4 DEF CoveredBy
    <3>2. CASE s \in active'.rows
      BY <3>1, <3>2 DEF CoveredBy
    <3>3. CASE ~loses /\ s.key = r.key
      <4>1. r \in active'.rows /\ r.lsn >= q.lsn
        BY <1>3, <1>c, <1>d, <1>h, <2>2, <3>1, <3>3
      <4> QED BY <3>1, <3>3, <4>1 DEF CoveredBy
    <3> QED BY <1>g, <3>2, <3>3
  <2> QED BY <1>2, <2>1, <2>3, <2>4
<1>10. PendingIsLater'
  <2>1. \A d \in Clients : pc'[d] \in Writing => d # c /\ pc[d] \in Writing
    BY <1>0 DEF Writing
  <2>2. /\ FrozenRows' = FrozenRows /\ HeldRows' = HeldRows
        /\ StagedRows' = StagedRows /\ LakeRows' = LakeRows
    BY <1>2 DEF FrozenRows, HeldRows, StagedRows, LakeRows
  <2> SUFFICES ASSUME NEW d \in Clients, d # c, pc[d] \in Writing, NEW q \in pending[d]
               PROVE  /\ \A s \in FrozenRows \cup HeldRows \cup StagedRows \cup LakeRows :
                            s.lsn < q.lsn
                      /\ q \notin active'.rows \cup acked
                      /\ \A e \in Clients \ {d} : q \notin pending[e]
    BY <1>2, <2>1, <2>2 DEF PendingIsLater
  <2>3. /\ \A s \in FrozenRows \cup HeldRows \cup StagedRows \cup LakeRows : s.lsn < q.lsn
        /\ q \notin active.rows \cup acked
        /\ \A e \in Clients \ {d} : q \notin pending[e]
    BY DEF SerialInv, PendingIsLater
  <2>4. q # r
    BY <1>0, <2>3
  <2> QED BY <1>f, <2>3, <2>4
<1>11. RetiresItsOwn' /\ IndexBehindLake'
  <2>1. \A d \in Clients : pc'[d] \in FlushPhases => pc[d] \in FlushPhases
    BY <1>0 DEF FlushPhases
  <2>2. \A d \in Clients : pc'[d] \in {"retire", "skip_retire"} => pc'[d] = pc[d]
    BY <1>0
  <2> QED BY <1>0, <1>2, <1>4, <2>1, <2>2 DEF SerialInv, RetiresItsOwn, IndexBehindLake
<1> QED
  BY <1>2, <1>7, <1>8, <1>9, <1>10, <1>11 DEF SerialInv

\* The size check returns or goes on to flush.
LEMMA SerialCheckFreeze ==
    ASSUME SerialInv, EngineInv', NEW c \in Writers, CheckFreeze(c)
    PROVE  SerialInv'
<1>0. c \in Clients /\ "freeze" \notin FlushPhases
  BY DEF Clients, FlushPhases
<1>1. CASE ReturnOk(c)
  BY <1>0, <1>1, CallReturns DEF CheckFreeze, At, logVars, lakeVars, memVars
<1>2. CASE Goto(c, "freeze") /\ UNCHANGED <<pending, held, loaded, acked>>
  BY <1>0, <1>2, CallMoves DEF CheckFreeze, At, logVars, lakeVars, memVars
<1> QED
  BY <1>1, <1>2 DEF CheckFreeze

\* What is frozen is complete up to its max_lsn: an older unpublished memtable, which
\* could hold records it does not, is excluded by OneUnpublished.
LEMMA SerialFreeze ==
    ASSUME SerialInv, EngineInv', Serial', NEW c \in Clients, Freeze(c)
    PROVE  SerialInv'
<1>0. /\ TypeOK /\ EngineInv
      /\ mode = "up" /\ mode' = "up"
      /\ pc[c] = "freeze" /\ pc'[c] = "plan" /\ held'[c] = active
      /\ \A d \in Clients : d # c => pc'[d] = pc[d] /\ held'[d] = held[d]
  BY DEF SerialInv, EngineInv, TypeOK, Freeze, At, Goto, openVars
<1>1. /\ UNCHANGED <<wal, unsynced, staging, catalog, pending, acked, index, loaded,
                    openWm>>
      /\ frozen' = frozen \cup {active}
      /\ active'.rows = {} /\ active'.max_lsn = 0 /\ active'.id = active.id + 1
      /\ PublishedWatermark' = PublishedWatermark
  BY SameWatermark DEF Freeze, NewMemtable, logVars, lakeVars, openVars
<1>2. Durable' \subseteq Durable
  <2>1. \A s : s \in Logged' => s \in Logged
    BY <1>0, <1>1, InLogged, InLoggedNext
  <2> QED BY <1>0, <1>1, <2>1, InDurable, InDurableNext
<1>3. \A rows, w : /\ Newest(Durable, rows, w) => Newest(Durable', rows, w)
                   /\ Complete(Durable, PublishedWatermark, rows, w)
                        => Complete(Durable', PublishedWatermark, rows, w)
  BY <1>0, <1>2, GoodStays, DurableTyped
<1>a. /\ PublishedWatermark \in Nat /\ active.max_lsn \in Nat /\ active.id \in Nat
      /\ \A s \in Durable : s.lsn \in Nat
      /\ \A m \in frozen : m.max_lsn \in Nat /\ m.id \in Nat
      /\ \A d \in Clients : held[d].id \in Nat
  BY <1>0, DurableTyped, LevelsTyped DEF TypeOK, Memtable
<1>b. Exact(active.rows, active.max_lsn)
  BY <1>0 DEF EngineInv, TablesExact
<1>c. \A d \in Clients : pc[d] \in Writing => \A q \in pending[d] : active.max_lsn < q.lsn
  <2>1. \A d \in Clients : pc[d] \in Writing => pc'[d] \in Writing /\ pending'[d] = pending[d]
    BY <1>0, <1>1 DEF Writing
  <2> QED BY <1>1, <2>1 DEF Serial, NoLateWrite
<1>d. \A q : Inserting(q) => active.max_lsn < q.lsn
  BY <1>c DEF Inserting, Writing
<1>4. Good(active.rows, active.max_lsn)
  <2>1. Newest(Durable, active.rows, active.max_lsn)
    <3> SUFFICES ASSUME NEW s \in active.rows, NEW q \in Durable,
                        q.key = s.key, q.lsn <= active.max_lsn
                 PROVE  q.lsn <= s.lsn
      BY DEF Newest
    <3>1. ~Inserting(q)
      BY <1>a, <1>d
    <3> QED BY <3>1 DEF SerialInv, ActiveNewest
  <2>2. Complete(Durable, PublishedWatermark, active.rows, active.max_lsn)
    <3> SUFFICES ASSUME NEW q \in Durable, PublishedWatermark < q.lsn, q.lsn <= active.max_lsn
                 PROVE  CoveredBy(active.rows, q)
      BY DEF Complete
    <3>1. ~Inserting(q)
      BY <1>a, <1>d
    <3>2. ASSUME NEW m \in frozen, q.lsn <= m.max_lsn PROVE FALSE
      <4>1. m.max_lsn > PublishedWatermark /\ active.max_lsn > PublishedWatermark
        BY <1>a, <3>2
      <4>2. m = active
        BY <1>1, <4>1 DEF Serial, OneUnpublished
      <4> QED BY <1>a, <4>2 DEF SerialInv, RetiresItsOwn
    <3> QED BY <1>0, <1>a, <3>1, <3>2 DEF SerialInv, UnpublishedInMemory
  <2> QED BY <2>1, <2>2 DEF Good
<1>5. FilesNewest' /\ LakeCovers'
  <2>1. LakeRows' = LakeRows
    BY <1>1 DEF LakeRows
  <2> QED BY <1>1, <1>2, <1>3, <2>1 DEF SerialInv, FilesNewest, LakeCovers
<1>6. FlushesGood'
  <2>1. \A m \in frozen' : Good(m.rows, m.max_lsn)'
    BY <1>1, <1>3, <1>4 DEF SerialInv, FlushesGood, Good
  <2>2. \A d \in Clients : Good(held[d].rows, held[d].max_lsn)'
    BY <1>0, <1>1, <1>3, <1>4 DEF SerialInv, FlushesGood, Good
  <2>3. \A s \in staging' : s.rows # {} => Good(s.rows, s.watermark)'
    BY <1>1, <1>3 DEF SerialInv, FlushesGood, Good
  <2> QED BY <2>1, <2>2, <2>3 DEF FlushesGood
<1>7. ActiveNewest'
  BY <1>1 DEF ActiveNewest
<1>8. UnpublishedInMemory'
  <2>1. \A q : Inserting(q) => Inserting(q)'
    BY <1>0, <1>1 DEF Inserting
  <2>2. \A q \in Durable : CoveredBy(active.rows, q) => q.lsn <= active.max_lsn
    <3> SUFFICES ASSUME NEW q \in Durable, NEW s \in active.rows, s.lsn >= q.lsn
                 PROVE  q.lsn <= active.max_lsn
      BY DEF CoveredBy
    <3>1. s.lsn \in Nat /\ s.lsn <= active.max_lsn
      BY <1>a, <1>b, InLogged, InDurable DEF Exact
    <3> QED BY <1>a, <3>1
  <2> QED BY <1>0, <1>1, <1>2, <2>1, <2>2 DEF SerialInv, UnpublishedInMemory
<1>9. PendingIsLater'
  <2>1. /\ FrozenRows' = FrozenRows \cup active.rows
        /\ HeldRows' \subseteq HeldRows \cup active.rows
    BY <1>0, <1>1 DEF FrozenRows, HeldRows
  <2>2. StagedRows' = StagedRows /\ LakeRows' = LakeRows
    BY <1>1 DEF StagedRows, LakeRows
  <2>3. \A d \in Clients : pc'[d] \in Writing => pc[d] \in Writing
    BY <1>0 DEF Writing
  <2>4. ASSUME NEW d \in Clients, pc[d] \in Writing, NEW q \in pending[d], NEW s \in active.rows
        PROVE  s.lsn < q.lsn
    <3>1. s.lsn \in Nat /\ s.lsn <= active.max_lsn
      BY <1>a, <1>b, InLogged, InDurable DEF Exact
    <3>2. q.lsn \in Nat /\ active.max_lsn < q.lsn
      BY <1>c, <2>4, PendingAbove
    <3> QED BY <1>a, <3>1, <3>2
  <2> QED BY <1>1, <2>1, <2>2, <2>3, <2>4 DEF SerialInv, PendingIsLater
<1>10. RetiresItsOwn' /\ IndexBehindLake'
  <2>1. \A m \in frozen' : m.id < active'.id
    BY <1>1, <1>a DEF SerialInv, RetiresItsOwn
  <2>2. ASSUME NEW d \in Clients, pc'[d] \in FlushPhases
        PROVE  /\ held'[d].id < active'.id
               /\ \A m \in frozen' : m.id = held'[d].id => m = held'[d]
    <3>1. CASE d = c
      BY <1>0, <1>1, <1>a, <3>1 DEF SerialInv, RetiresItsOwn
    <3>2. CASE d # c
      BY <1>0, <1>1, <1>a, <2>2, <3>2 DEF SerialInv, RetiresItsOwn
    <3> QED BY <3>1, <3>2
  <2>3. \A d \in Clients : pc'[d] \in {"retire", "skip_retire"} =>
            pc'[d] = pc[d] /\ held'[d] = held[d]
    BY <1>0
  <2> QED BY <1>0, <1>1, <2>1, <2>2, <2>3 DEF SerialInv, RetiresItsOwn, IndexBehindLake
<1> QED
  BY <1>1, <1>5, <1>6, <1>7, <1>8, <1>9, <1>10 DEF SerialInv

\* A commit raises the watermark to that of a complete file, so that what falls
\* below it is covered by the file.
LEMMA SerialCommit ==
    ASSUME SerialInv, EngineInv', NEW job \in duckdb, CommitPublish(job),
           UNCHANGED <<wal, unsynced, active, frozen, acked, index, mode, openWm>>,
           \A c \in Clients :
               \/ pc'[c] = pc[c] /\ pending'[c] = pending[c] /\ held'[c] = held[c]
               \/ /\ pc[c] = "waiting" /\ pc'[c] \in {"load_index", "idle"}
                  /\ \/ pending'[c] = pending[c] /\ held'[c] = held[c]
                     \/ /\ pc'[c] = "idle"
                        /\ pending'[c] = {} /\ held'[c].rows = {} /\ held'[c].max_lsn = 0,
           \A c \in Clients : loaded'[c] \in {loaded[c], << >>}
    PROVE  SerialInv'
<1>0. /\ TypeOK /\ TypeOK' /\ EngineInv
      /\ PublishedWatermark \in Nat /\ PublishedWatermark' \in Nat
      /\ PublishedWatermark <= PublishedWatermark'
      /\ staging' = staging
  BY CommitRaises DEF SerialInv, EngineInv, CommitPublish
<1>1. PICK s \in StagedFor(job) :
          catalog' = Append(catalog, [rows |-> s.rows, watermark |-> MaxLsnOf(s.rows)])
  BY DEF CommitPublish
<1> DEFINE file == [rows |-> s.rows, watermark |-> s.watermark]
<1>2. /\ s \in staging /\ s.rows # {} /\ MaxLsnOf(s.rows) = s.watermark
      /\ file \in File
      /\ Exact(s.rows, s.watermark)
      /\ Good(s.rows, s.watermark)
  <2>1. TablesExact
    BY <1>0 DEF EngineInv
  <2>2. s \in staging /\ s.rows # {}
    BY DEF StagedFor
  <2>3. MaxLsnOf(s.rows) = s.watermark /\ [rows |-> s.rows, watermark |-> MaxLsnOf(s.rows)] \in File
    BY <1>0, <2>1, StagedWatermark
  <2> QED BY <2>1, <2>2, <2>3 DEF TablesExact, SerialInv, FlushesGood
<1>3. Range(catalog') = Range(catalog) \cup {file}
  BY <1>0, <1>1, <1>2, RangeOfAppend DEF TypeOK
<1>a. file.rows = s.rows /\ file.watermark = s.watermark /\ s.watermark \in Nat
  BY <1>0, <1>2, LevelsTyped
<1> HIDE DEF file
<1>4. LakeRows' = LakeRows \cup s.rows
  BY <1>3, <1>a DEF LakeRows
<1>5. PublishedWatermark' = PublishedWatermark \/ PublishedWatermark' <= s.watermark
  BY <1>0, <1>a, CommitRaises DEF StagedFor
<1>6. Durable' \subseteq Durable
  <2> SUFFICES ASSUME NEW r, r \in Durable' PROVE r \in Durable
    OBVIOUS
  <2>1. CASE r \in Logged'
    <3>1. CASE \E d \in Clients : r \in held'[d].rows
      BY <3>1, InLogged, InDurable
    <3>2. CASE \E f \in Range(catalog') : r \in f.rows
      BY <1>2, <1>3, <1>a, <3>2, InLogged, InDurable
    <3> QED BY <1>0, <2>1, <3>1, <3>2, InLogged, InLoggedNext, InDurable
  <2>2. CASE \E c \in Clients : pc'[c] # "append" /\ r \in pending'[c]
    BY <2>2, InDurable
  <2> QED BY <2>1, <2>2, InDurableNext
<1>7. \A rows, w : /\ Newest(Durable, rows, w) => Newest(Durable', rows, w)
                   /\ Complete(Durable, PublishedWatermark, rows, w)
                        => Complete(Durable', PublishedWatermark', rows, w)
  BY <1>0, <1>6, GoodStays
<1>b. \A r \in Durable' : r \in Durable /\ r.lsn \in Nat
  BY <1>0, <1>6, DurableTyped
<1>8. FilesNewest'
  BY <1>2, <1>3, <1>a, <1>7 DEF SerialInv, FilesNewest, Good
<1>9. LakeCovers'
  <2> SUFFICES ASSUME NEW r \in Durable', r.lsn <= PublishedWatermark'
               PROVE  CoveredBy(LakeRows', r)
    BY DEF LakeCovers
  <2>1. CASE r.lsn <= PublishedWatermark
    BY <1>4, <1>6, <2>1 DEF SerialInv, LakeCovers, CoveredBy
  <2>2. CASE PublishedWatermark < r.lsn
    <3>1. r.lsn <= s.watermark
      BY <1>0, <1>5, <1>a, <1>b, <2>2
    <3> QED BY <1>2, <1>4, <1>6, <2>2, <3>1 DEF Good, Complete, CoveredBy
  <2> QED BY <1>0, <1>b, <2>1, <2>2
<1>10. FlushesGood'
  <2>0. Newest(Durable', {}, 0) /\ Complete(Durable', PublishedWatermark', {}, 0)
    BY <1>0, <1>6, EmptyIsGood, DurableTyped
  <2>1. \A m \in frozen' : Good(m.rows, m.max_lsn)'
    BY <1>7 DEF SerialInv, FlushesGood, Good
  <2>2. \A d \in Clients : Good(held[d].rows, held[d].max_lsn)'
    BY <1>7, <2>0 DEF SerialInv, FlushesGood, Good
  <2>3. \A x \in staging' : x.rows # {} => Good(x.rows, x.watermark)'
    BY <1>0, <1>7 DEF SerialInv, FlushesGood, Good
  <2> QED BY <2>1, <2>2, <2>3 DEF FlushesGood
<1>11. \A r : Inserting(r) => Inserting(r)'
  BY DEF Inserting
<1>12. ActiveNewest'
  BY <1>6, <1>11 DEF SerialInv, ActiveNewest
<1>13. UnpublishedInMemory'
  BY <1>0, <1>b, <1>11 DEF SerialInv, UnpublishedInMemory
<1>14. PendingIsLater'
  <2>1. /\ FrozenRows' = FrozenRows /\ HeldRows' \subseteq HeldRows /\ StagedRows' = StagedRows
        /\ LakeRows' \subseteq LakeRows \cup StagedRows
    BY <1>0, <1>2, <1>4 DEF FrozenRows, HeldRows, StagedRows
  <2>2. \A c \in Clients : /\ pc'[c] \in Writing => pc'[c] = pc[c] /\ pending'[c] = pending[c]
                           /\ pending'[c] \subseteq pending[c]
    BY DEF Writing
  <2> QED BY <2>1, <2>2 DEF SerialInv, PendingIsLater
<1>15. RetiresItsOwn' /\ openWm' <= PublishedWatermark'
  <2>1. \A c \in Clients : pc'[c] \in FlushPhases => pc[c] \in FlushPhases /\ held'[c] = held[c]
    BY DEF FlushPhases
  <2>2. \A c \in Clients : pc'[c] \in {"retire", "skip_retire"} =>
            held'[c].max_lsn <= PublishedWatermark'
    <3> SUFFICES ASSUME NEW c \in Clients, pc'[c] \in {"retire", "skip_retire"}
                 PROVE  held'[c].max_lsn <= PublishedWatermark'
      OBVIOUS
    <3>1. pc[c] = pc'[c] /\ held'[c] = held[c]
      OBVIOUS
    <3>2. held[c].max_lsn <= PublishedWatermark /\ held[c].max_lsn \in Nat
      BY <1>0, <3>1, LevelsTyped DEF SerialInv, RetiresItsOwn
    <3> QED BY <1>0, <3>1, <3>2
  <2>3. openWm \in Nat
    BY <1>0, RecordAssumption DEF TypeOK
  <2>4. openWm' <= PublishedWatermark'
    BY <1>0, <2>3 DEF SerialInv
  <2> QED BY <2>1, <2>2, <2>4 DEF SerialInv, RetiresItsOwn
<1>16. IndexBehindLake'
  <2>1. Range(<< >>) = {}
    BY DEF Range
  <2> QED BY <1>3, <2>1 DEF SerialInv, IndexBehindLake
<1> QED
  BY <1>8, <1>9, <1>10, <1>12, <1>13, <1>14, <1>15, <1>16 DEF SerialInv

\* The two outcomes of a commit for the flush that awaits it.
LEMMA SerialDuckCommit ==
    ASSUME SerialInv, EngineInv', NEW job \in duckdb, DuckCommit(job) \/ DuckCommitThenFail(job)
    PROVE  SerialInv'
<1>0. TypeOK /\ job.owner \in Clients
  BY DEF SerialInv, EngineInv, TypeOK
<1>1. CASE DuckCommit(job)
  <2>1. /\ CommitPublish(job)
        /\ UNCHANGED <<wal, unsynced, active, frozen, acked, index, mode, openWm, pending,
                     held, loaded>>
    BY <1>1 DEF DuckCommit, logVars, openVars, memVars
  <2>2. \A d \in Clients : pc'[d] = pc[d] \/ (pc[d] = "waiting" /\ pc'[d] = "load_index")
    BY <1>0, <1>1 DEF DuckCommit, Waiting, At, TypeOK
  <2> QED BY <2>1, <2>2, SerialCommit
<1>2. CASE DuckCommitThenFail(job)
  <2>1. /\ CommitPublish(job) /\ Waiting(job) /\ Return(job.owner)
        /\ UNCHANGED <<wal, unsynced, active, frozen, acked, index, mode, openWm>>
    BY <1>2 DEF DuckCommitThenFail, ReturnErr, logVars, openVars, memVars
  <2>2. /\ pc'[job.owner] = "idle" /\ pending'[job.owner] = {}
        /\ held'[job.owner].rows = {} /\ held'[job.owner].max_lsn = 0
        /\ \A d \in Clients : d # job.owner =>
              pc'[d] = pc[d] /\ pending'[d] = pending[d] /\ held'[d] = held[d]
    BY <1>0, <2>1, ReturnFacts
  <2>3. \A d \in Clients : loaded'[d] \in {loaded[d], << >>}
    BY <1>0, <2>1 DEF TypeOK, Return
  <2>4. pc[job.owner] = "waiting"
    BY <2>1 DEF Waiting, At
  <2> QED BY <2>1, <2>2, <2>3, <2>4, SerialCommit
<1> QED
  BY <1>1, <1>2

\* A crash empties memory; what is durable stays covered.
LEMMA SerialCrash ==
    ASSUME SerialInv, EngineInv', Crash
    PROVE  SerialInv'
<1>0. /\ TypeOK /\ TypeOK' /\ EngineInv
      /\ mode' = "down" /\ openWm' = 0 /\ unsynced' = {} /\ wal' = wal
      /\ UNCHANGED <<staging, catalog, acked>>
      /\ active'.rows = {} /\ frozen' = {} /\ index' = << >>
      /\ PublishedWatermark' = PublishedWatermark
  <2>1. unsynced' = {} /\ wal' = wal
    BY DEF Crash, LogCrash, SerialInv
  <2> QED BY <2>1, SameWatermark DEF Crash, NewMemtable, SerialInv, EngineInv
<1>1. \A c \in Clients : /\ pc'[c] = "idle" /\ pending'[c] = {} /\ loaded'[c] = << >>
                         /\ held'[c].rows = {} /\ held'[c].max_lsn = 0
  BY DEF Crash, NewMemtable
<1>2. Durable' \subseteq Durable
  BY <1>0, <1>1, InLogged, InLoggedNext, InDurable, InDurableNext
<1>3. \A rows, w : /\ Newest(Durable, rows, w) => Newest(Durable', rows, w)
                   /\ Complete(Durable, PublishedWatermark, rows, w)
                        => Complete(Durable', PublishedWatermark, rows, w)
  BY <1>0, <1>2, GoodStays, DurableTyped
<1>4. FilesNewest' /\ LakeCovers'
  <2>1. LakeRows' = LakeRows
    BY <1>0 DEF LakeRows
  <2> QED BY <1>0, <1>2, <1>3, <2>1 DEF SerialInv, FilesNewest, LakeCovers
<1>5. FlushesGood'
  <2>1. Newest(Durable', {}, 0) /\ Complete(Durable', PublishedWatermark', {}, 0)
    BY <1>0, <1>2, EmptyIsGood, DurableTyped
  <2> QED BY <1>0, <1>1, <1>3, <2>1 DEF SerialInv, FlushesGood, Good
<1>6. ActiveNewest' /\ UnpublishedInMemory' /\ PendingIsLater'
  BY <1>0, <1>1 DEF ActiveNewest, UnpublishedInMemory, PendingIsLater
<1>7. RetiresItsOwn' /\ IndexBehindLake' /\ openWm' <= PublishedWatermark'
  <2>1. Range(<< >>) = {} /\ "idle" \notin FlushPhases
    BY DEF Range, FlushPhases
  <2>2. PublishedWatermark \in Nat
    BY <1>0, DurableTyped
  <2> QED BY <1>0, <1>1, <2>1, <2>2 DEF RetiresItsOwn, IndexBehindLake
<1> QED
  BY <1>0, <1>4, <1>5, <1>6, <1>7 DEF SerialInv

\* Replay rebuilds the active memtable from what is above the watermark that
\* Engine::open read, though children of the dead process may have raised it since.
LEMMA SerialOpenWal ==
    ASSUME SerialInv, EngineInv', OpenWal
    PROVE  SerialInv'
<1>0. /\ TypeOK /\ EngineInv /\ mode = "index_loaded"
      /\ UNCHANGED <<wal, unsynced, staging, catalog, frozen, acked, index>>
      /\ UNCHANGED <<pc, pending, held, loaded, openWm>>
      /\ PublishedWatermark' = PublishedWatermark
      /\ frozen = {}
      /\ \A c \in Clients : pc[c] = "idle" /\ pending[c] = {}
  BY SameWatermark
  DEF SerialInv, EngineInv, DownIsEmpty, RetiresItsOwn, OpenWal, logVars, lakeVars, callVars
<1> DEFINE R == LogReplay(openWm)
<1>1. /\ R \in SUBSET Record /\ R \subseteq wal
      /\ \A r \in wal : r \in R <=> r.lsn > openWm
      /\ active'.rows = Winners(R)
  BY <1>0 DEF LogReplay, TypeOK, LogTypeOK, OpenWal, Replayed
<1> HIDE DEF R
<1>2. /\ \A r \in Durable : r \in Logged /\ r.lsn \in Nat
      /\ openWm \in Nat /\ PublishedWatermark \in Nat
      /\ wal \subseteq Durable
  BY <1>0, DurableTyped, InDurable, InLogged, RecordAssumption DEF TypeOK
<1>3. \A r \in Logged : r \in wal \/ r.lsn <= openWm
  BY <1>0 DEF EngineInv, OpeningCovers
<1>4. Winners(R) \subseteq R
  BY DEF Winners
<1>5. Durable' \subseteq Durable
  <2>1. \A r : r \in Logged' => r \in Logged
    BY <1>0, <1>1, <1>4, InLogged, InLoggedNext
  <2> QED BY <1>0, <2>1, InDurable, InDurableNext
<1>6. \A rows, w : /\ Newest(Durable, rows, w) => Newest(Durable', rows, w)
                   /\ Complete(Durable, PublishedWatermark, rows, w)
                        => Complete(Durable', PublishedWatermark, rows, w)
  BY <1>0, <1>2, <1>5, GoodStays
<1>7. FilesNewest' /\ LakeCovers' /\ FlushesGood'
  <2>1. LakeRows' = LakeRows
    BY <1>0 DEF LakeRows
  <2> QED BY <1>0, <1>5, <1>6, <2>1 DEF SerialInv, FilesNewest, LakeCovers, FlushesGood, Good
<1>8. ActiveNewest'
  <2> SUFFICES ASSUME NEW s \in Winners(R), NEW q \in Durable, q.key = s.key
               PROVE  q.lsn <= s.lsn
    BY <1>1, <1>5 DEF ActiveNewest
  <2>1. s.lsn > openWm /\ s.lsn \in Nat
    BY <1>1, <1>2, <1>4
  <2>2. CASE q \in R
    BY <2>2 DEF Winners, Of
  <2>3. CASE q \notin R
    BY <1>1, <1>2, <1>3, <2>1, <2>3
  <2> QED BY <2>2, <2>3
<1>9. UnpublishedInMemory'
  <2> SUFFICES ASSUME NEW q \in Durable, q.lsn > PublishedWatermark
               PROVE  CoveredBy(Winners(R), q)
    BY <1>0, <1>1, <1>5 DEF UnpublishedInMemory
  <2>1. q \in wal /\ q.key = q.key
    BY <1>0, <1>2 DEF EngineInv, TruncateAfterPublish
  <2>2. openWm <= PublishedWatermark
    BY DEF SerialInv
  <2>3. q \in R
    BY <1>1, <1>2, <2>1, <2>2
  <2> DEFINE Q == Of(R, q.key)
  <2>4. Q \in SUBSET Record /\ Q # {} /\ \A r \in Q : r.key = q.key
    BY <1>1, <2>3 DEF Of
  <2>5. Winners(Q) # {} /\ \A a \in Winners(Q), r \in Q : r.lsn <= a.lsn
    BY <2>4, WinnersExist
  <2>6. PICK a \in Winners(Q) : TRUE
    BY <2>5
  <2>7. a \in Winners(R) /\ a.key = q.key
    BY <2>6 DEF Winners, Of
  <2>8. q.lsn <= a.lsn
    BY <2>3, <2>5, <2>6 DEF Of
  <2>9. a.lsn \in Nat
    BY <1>1, <1>2, <1>4, <2>7
  <2> QED BY <1>2, <2>7, <2>8, <2>9 DEF CoveredBy
<1>10. PendingIsLater'
  BY <1>0 DEF PendingIsLater
<1>11. RetiresItsOwn' /\ IndexBehindLake'
  <2>1. "idle" \notin FlushPhases
    BY DEF FlushPhases
  <2> QED BY <1>0, <2>1 DEF SerialInv, RetiresItsOwn, IndexBehindLake
<1> QED
  BY <1>0, <1>7, <1>8, <1>9, <1>10, <1>11 DEF SerialInv

\* Nothing has been written before the first open.
LEMMA SerialInit == Init => SerialInv
<1> SUFFICES ASSUME Init PROVE SerialInv
  OBVIOUS
<1>1. /\ wal = {} /\ unsynced = {} /\ staging = {} /\ catalog = << >> /\ openWm = 0
      /\ active.rows = {} /\ frozen = {} /\ acked = {} /\ mode = "down" /\ index = << >>
      /\ \A c \in Clients : pc[c] = "idle" /\ pending[c] = {} /\ loaded[c] = << >>
      /\ \A c \in Clients : held[c].rows = {} /\ held[c].max_lsn = 0
  BY DEF Init, LogInit, LakeInit, NewMemtable
<1>2. Range(<< >>) = {} /\ "idle" \notin FlushPhases
  BY DEF Range, FlushPhases
<1>3. EngineInv
  BY InvariantInit
<1>4. \A r : r \notin Durable
  BY <1>1, <1>2, InLogged, InDurable
<1>5. FilesNewest /\ LakeCovers /\ ActiveNewest /\ UnpublishedInMemory /\ PendingIsLater
  BY <1>1, <1>2, <1>4 DEF FilesNewest, LakeCovers, ActiveNewest, UnpublishedInMemory, PendingIsLater
<1>6. FlushesGood
  BY <1>4 DEF FlushesGood, Good, Newest, Complete
<1>7. RetiresItsOwn /\ IndexBehindLake
  BY <1>1, <1>2 DEF RetiresItsOwn, IndexBehindLake
<1>8. openWm <= PublishedWatermark
  BY <1>1, <1>3, DurableTyped DEF EngineInv
<1> QED
  BY <1>1, <1>3, <1>5, <1>6, <1>7, <1>8 DEF SerialInv

\* Every step between two states in which the callers keep to Serial preserves it.
LEMMA SerialStep == SerialInv /\ Serial /\ Serial' /\ [Next]_vars => SerialInv'
<1> SUFFICES ASSUME SerialInv, Serial, Serial', [Next]_vars PROVE SerialInv'
  OBVIOUS
<1>0. EngineInv'
  BY InvariantStep DEF SerialInv
<1>1. CASE UNCHANGED vars
  BY <1>0, <1>1, SerialQuiet DEF vars, openVars
<1>2. CASE \E c \in Writers : \/ \E k \in Keys, v \in Values \cup {Tombstone} : TakeLsn(c, k, v)
                             \/ Write(c)
                             \/ WalAppendFail(c)
  <2>1. \A c \in Writers : ~WalAppendFail(c)
    BY DEF Serial, WalAppendFail
  <2> QED BY <1>0, <1>2, <2>1, SerialTakeLsn, SerialWalAppend, SerialMemInsert, SerialCheckFreeze
      DEF Write
<1>3. CASE \E c \in Clients : Flush(c) \/ FlushFault(c) \/ CallFlush(c)
  <2>1. PICK c \in Clients : Flush(c) \/ FlushFault(c) \/ CallFlush(c)
    BY <1>3
  <2> QED BY <1>0, <2>1, SerialFlushMoves, SerialFlushReturns, SerialFreeze DEF Flush
<1>4. CASE (\E r \in unsynced : LateAppend(r)) \/ LateTruncate
  BY <1>4 DEF Serial, LateAppend, LateTruncate
<1>5. CASE \E job \in duckdb : DuckCommit(job) \/ DuckCommitThenFail(job) \/ DuckFail(job)
  BY <1>0, <1>5, SerialDuckCommit, SerialDuckFail
<1>6. CASE \E r \in Readers : \/ \E k \in Keys : GetRowTier(r, k)
                             \/ GetColumnar(r)
                             \/ GetReturn(r)
  BY <1>0, <1>6, SerialQuiet DEF GetRowTier, GetColumnar, GetReturn, openVars
<1>7. CASE Crash
  BY <1>0, <1>7, SerialCrash
<1>8. CASE OpenWatermark \/ OpenIndex
  BY <1>0, <1>8, SerialQuiet DEF OpenWatermark, OpenIndex
<1>9. CASE OpenWal
  BY <1>0, <1>9, SerialOpenWal
<1> QED
  BY <1>1, <1>2, <1>3, <1>4, <1>5, <1>6, <1>7, <1>8, <1>9 DEF Next, Clients

\* The inductive invariant holds as long as the callers keep to Serial.
THEOREM SerialInvariantHolds == Spec /\ []Serial => []SerialInv
  BY SerialInit, SerialStep, PTL DEF Spec

------------------------------------------------------------------------------
(* What it gives.                                                           *)

\* No acknowledged write is lost: with no append given up, no freeze overtaking a
\* write and no flush another, however writes race, whatever flush fails, wherever the process dies
\* and whichever DuckDB child outlives it.
THEOREM DurabilityHolds == Spec /\ []Serial => []Durability
<1>1. SerialInv => Durability
  <2> SUFFICES ASSUME SerialInv, NEW r \in acked PROVE Covers(Recovered(r.key), r)
    BY DEF Durability
  <2>1. r \in Durable
    BY InLogged, InDurable
  <2> QED BY <2>1, DurableRecovered
<1> QED
  BY <1>1, SerialInvariantHolds, PTL

\* plan's AlreadyPublished loses nothing: the skipped rows are in the lake or
\* superseded there, even when it was the child of a dead process that published.
THEOREM SkipsAreSound == Spec /\ []Serial => []SkipIsSound
<1>1. SerialInv => SkipIsSound
  <2> SUFFICES ASSUME SerialInv, NEW c \in Clients,
                      pc[c] \in {"skip_truncate", "skip_retire"}, NEW r \in held[c].rows
               PROVE  \E s \in Of(LakeRows, r.key) : s.lsn >= r.lsn
    BY DEF SkipIsSound
  <2>0. TypeOK /\ TablesExact /\ EngineInv
    BY DEF SerialInv, EngineInv
  <2>1. held[c].max_lsn <= PublishedWatermark
    BY <2>0 DEF SerialInv, EngineInv, FlushedIsPublished, RetiresItsOwn
  <2>2. r.lsn <= held[c].max_lsn
    BY <2>0 DEF TablesExact, Exact
  <2>3. r \in Durable
    BY InLogged, InDurable
  <2>4. r.lsn <= PublishedWatermark
    BY <2>0, <2>1, <2>2, <2>3, DurableTyped, LevelsTyped
  <2> QED BY <2>3, <2>4 DEF SerialInv, LakeCovers, CoveredBy, Of
<1> QED
  BY <1>1, SerialInvariantHolds, PTL

\* What a get returns has passed the WAL.
LEMMA GetIsDurable ==
    ASSUME SerialInv, NEW k, NEW a \in Get(k)
    PROVE  a \in Durable /\ a.key = k
<1>1. CASE a \in RowTierGet(frozen \cup {active}, k)
  <2>1. PICK m \in frozen \cup {active} : a \in Of(m.rows, k)
    BY <1>1 DEF RowTierGet
  <2> QED BY <2>1, InLogged, InDurable DEF Of
<1>2. CASE a \in ColumnarGet(index, k)
  <2>1. PICK f \in Range(index) : a \in Of(f.rows, k)
    BY <1>2 DEF ColumnarGet
  <2>2. f \in Range(catalog)
    BY DEF SerialInv, IndexBehindLake
  <2> QED BY <2>1, <2>2, InLogged, InDurable DEF Of
<1> QED
  BY <1>1, <1>2 DEF Get

\* Durable, then visible: a get never returns what a crash would take back.
THEOREM VisibleIsDurable == Spec /\ []Serial => []DurableBeforeVisible
<1>1. SerialInv => DurableBeforeVisible
  BY GetIsDurable, DurableRecovered DEF DurableBeforeVisible
<1> QED
  BY <1>1, SerialInvariantHolds, PTL

------------------------------------------------------------------------------
(* The engine implements the durable map of KvStore.                        *)

\* What the refinement mapping rests on, as state predicates.
RecoveredIsKept ==
    \A k \in Keys : \A a \in Recovered(k) :
        /\ a \in Record /\ a \in Durable /\ a.key = k
        /\ (a \in wal /\ a.lsn > PublishedWatermark) \/ a \in LakeRows

DurableIsRecovered == \A r \in Durable : r.key \in Keys /\ Covers(Recovered(r.key), r)

RecoveredIsOne == \A k \in Keys : \A a, b \in Recovered(k) : a = b

StoredMapIsMap == StoredMap \in [Keys -> [ver : 0 .. MaxLsn, val : Values \cup {Tombstone}]]

\* A restart's answers are durable records.
LEMMA RecoveredKept == SerialInv => RecoveredIsKept
<1> SUFFICES ASSUME SerialInv, NEW k \in Keys, NEW a \in Recovered(k)
             PROVE  /\ a \in Record /\ a \in Durable /\ a.key = k
                    /\ (a \in wal /\ a.lsn > PublishedWatermark) \/ a \in LakeRows
  BY DEF RecoveredIsKept
<1>0. Durable \subseteq Record
  BY DurableTyped DEF SerialInv, EngineInv
<1>1. CASE a \in Winners(Of(LogReplay(PublishedWatermark), k))
  BY <1>0, <1>1, InLogged, InDurable DEF Winners, Of, LogReplay
<1>2. CASE a \in ColumnarGet(catalog, k)
  <2>1. PICK f \in Range(catalog) : a \in Of(f.rows, k)
    BY <1>2 DEF ColumnarGet
  <2> QED BY <1>0, <2>1, InLogged, InDurable DEF Of, LakeRows
<1> QED
  BY <1>1, <1>2 DEF Recovered

\* Every durable record is answered for.
LEMMA DurableAnswered == SerialInv => DurableIsRecovered
<1> SUFFICES ASSUME SerialInv, NEW r \in Durable PROVE r.key \in Keys /\ Covers(Recovered(r.key), r)
  BY DEF DurableIsRecovered
<1>1. r \in Record
  BY DurableTyped DEF SerialInv, EngineInv
<1> QED
  BY <1>1, DurableRecovered DEF Record

\* A restart has one answer per key.
LEMMA RecoveredOne == SerialInv => RecoveredIsOne
<1> SUFFICES ASSUME SerialInv, NEW k \in Keys, NEW a \in Recovered(k), NEW b \in Recovered(k)
             PROVE  a = b
  BY DEF RecoveredIsOne
<1>1. /\ a \in Durable /\ b \in Durable /\ a.key = k /\ b.key = k
      /\ a.lsn \in Nat /\ b.lsn \in Nat
  BY RecoveredKept, DurableTyped DEF RecoveredIsKept, SerialInv, EngineInv
<1>2. a.lsn <= b.lsn /\ b.lsn <= a.lsn
  BY <1>1, DurableAnswered DEF DurableIsRecovered, Covers
<1>3. a \in AllRecords /\ b \in AllRecords
  BY <1>1, InDurable, InAllRecords
<1> QED
  BY <1>1, <1>2, <1>3 DEF SerialInv, EngineInv, LsnUnique

\* The stored map is a map of versions and values.
LEMMA StoredMapType == SerialInv => StoredMapIsMap
<1> SUFFICES ASSUME SerialInv, NEW k \in Keys
             PROVE  StoredMap[k] \in [ver : 0 .. MaxLsn, val : Values \cup {Tombstone}]
  BY DEF StoredMap, StoredMapIsMap
<1>1. CASE Recovered(k) = {}
  BY <1>1, RecordAssumption DEF StoredMap
<1>2. CASE Recovered(k) # {}
  <2> DEFINE a == CHOOSE a \in Recovered(k) : TRUE
  <2>1. a \in Recovered(k)
    BY <1>2
  <2>2. a \in Record
    BY <2>1, RecoveredKept DEF RecoveredIsKept
  <2>3. StoredMap[k] = [ver |-> a.lsn, val |-> a.val]
    BY <1>2 DEF StoredMap
  <2> HIDE DEF a
  <2> QED BY <2>2, <2>3, RecordAssumption DEF Record, Lsn
<1> QED
  BY <1>1, <1>2

\* A step that keeps the unpublished log and the lake changes the stored map only
\* to newer versions.
LEMMA StoredMapGrows ==
    ASSUME SerialInv, SerialInv',
           \A r \in wal : r \in wal' \/ r.lsn <= PublishedWatermark,
           LakeRows \subseteq LakeRows',
           NEW k \in Keys
    PROVE  StoredMap'[k] = StoredMap[k] \/ StoredMap'[k].ver > StoredMap[k].ver
<1>0. /\ RecoveredIsKept /\ RecoveredIsOne
      /\ RecoveredIsKept' /\ DurableIsRecovered' /\ RecoveredIsOne'
  BY RecoveredKept, DurableAnswered, RecoveredOne, PTL
<1>1. /\ StoredMap[k] = IF Recovered(k) = {} THEN [ver |-> 0, val |-> Tombstone]
                        ELSE LET a == CHOOSE a \in Recovered(k) : TRUE
                             IN  [ver |-> a.lsn, val |-> a.val]
      /\ StoredMap'[k] = IF Recovered(k)' = {} THEN [ver |-> 0, val |-> Tombstone]
                         ELSE LET a == CHOOSE a \in Recovered(k)' : TRUE
                              IN  [ver |-> a.lsn, val |-> a.val]
  BY DEF StoredMap
<1>2. ASSUME NEW a \in Recovered(k) PROVE a \in Durable' /\ a.key = k /\ a.lsn \in Nat /\ a.lsn > 0
  <2>1. a \in Record /\ a.key = k /\ ((a \in wal /\ a.lsn > PublishedWatermark) \/ a \in LakeRows)
    BY <1>0 DEF RecoveredIsKept
  <2>2. a.lsn \in Nat /\ a.lsn > 0 /\ PublishedWatermark \in Nat
    BY <2>1, DurableTyped, RecordAssumption DEF Record, Lsn, SerialInv, EngineInv
  <2>3. a \in wal' \/ a \in LakeRows'
    BY <2>1, <2>2
  <2> QED BY <2>1, <2>2, <2>3, InLoggedNext, InDurableNext DEF LakeRows
<1>3. ASSUME NEW b \in Recovered(k)' PROVE b.lsn \in Nat /\ b.lsn > 0 /\ b \in Durable'
  BY <1>0, RecordAssumption DEF RecoveredIsKept, Record, Lsn
<1>4. CASE Recovered(k) # {}
  <2>1. PICK a \in Recovered(k) : a = CHOOSE x \in Recovered(k) : TRUE
    BY <1>4
  <2>2. a \in Durable' /\ a.key = k /\ a.lsn \in Nat
    BY <1>2
  <2>3. Recovered(k)' # {} /\ \A b \in Recovered(k)' : b.lsn >= a.lsn
    BY <1>0, <2>2 DEF DurableIsRecovered, Covers
  <2>4. PICK b \in Recovered(k)' : b = CHOOSE x \in Recovered(k)' : TRUE
    BY <2>3
  <2>5. CASE b.lsn = a.lsn
    <3>1. a \in AllRecords' /\ b \in AllRecords'
      BY <1>3, <2>2, InDurableNext, InAllRecordsNext
    <3>2. a = b
      BY <2>5, <3>1 DEF SerialInv, EngineInv, LsnUnique
    <3> QED BY <1>1, <1>4, <2>1, <2>3, <2>4, <3>2
  <2>6. CASE b.lsn > a.lsn
    BY <1>1, <1>4, <2>1, <2>3, <2>4, <2>6
  <2> QED BY <1>3, <2>2, <2>3, <2>5, <2>6
<1>5. CASE Recovered(k) = {} /\ Recovered(k)' # {}
  <2>1. PICK b \in Recovered(k)' : b = CHOOSE x \in Recovered(k)' : TRUE
    BY <1>5
  <2> QED BY <1>1, <1>3, <1>5, <2>1
<1>6. CASE Recovered(k) = {} /\ Recovered(k)' = {}
  BY <1>1, <1>6
<1> QED
  BY <1>4, <1>5, <1>6

\* No step takes a record above the watermark out of the WAL or a file out of the
\* lake, and an acknowledgement comes alone.
LEMMA StepKeeps ==
    ASSUME EngineInv, [Next]_vars
    PROVE  /\ \A r \in wal : r \in wal' \/ r.lsn <= PublishedWatermark
           /\ Range(catalog) \subseteq Range(catalog')
           /\ \/ acked' = acked
              \/ \E c \in Clients : /\ pc[c] # "append" /\ acked' = acked \cup pending[c]
                                    /\ wal' = wal /\ catalog' = catalog
<1>0. TypeOK
  BY DEF EngineInv
<1>1. CASE UNCHANGED vars
  BY <1>1 DEF vars, logVars, lakeVars
<1>2. ASSUME NEW c \in Writers,
             \/ \E k \in Keys, v \in Values \cup {Tombstone} : TakeLsn(c, k, v)
             \/ Write(c)
             \/ WalAppendFail(c)
      PROVE  /\ wal \subseteq wal' /\ catalog' = catalog
             /\ \/ acked' = acked
                \/ pc[c] # "append" /\ acked' = acked \cup pending[c] /\ wal' = wal
  BY <1>2 DEF TakeLsn, Write, WalAppend, LogAppend, WalAppendFail, LogAppendFail, MemInsert,
     CheckFreeze, At, ReturnOk, ReturnErr, logVars, lakeVars
<1>3. ASSUME NEW c \in Clients, Truncate(c) \/ TruncateFail(c)
      PROVE  /\ \A r \in wal : r \in wal' \/ r.lsn <= PublishedWatermark
             /\ catalog' = catalog /\ acked' = acked
  <2>1. held[c].max_lsn <= PublishedWatermark
    BY <1>3 DEF EngineInv, FlushedIsPublished, Truncate, TruncateFail, At
  <2>2. held[c].max_lsn \in 0 .. MaxLsn
    BY <1>0 DEF TypeOK, Memtable
  <2>3. LogTruncate(held[c].max_lsn) /\ catalog' = catalog /\ acked' = acked
    BY <1>3 DEF Truncate, TruncateFail, ReturnErr, lakeVars
  <2> QED BY <2>1, <2>2, <2>3, TruncateKeeps
<1>4. ASSUME NEW c \in Clients, Flush(c) \/ FlushFault(c) \/ CallFlush(c),
             ~Truncate(c), ~TruncateFail(c)
      PROVE  /\ wal' = wal /\ catalog' = catalog
             /\ acked' = acked \/ (pc[c] # "append" /\ acked' = acked \cup pending[c])
  <2>1. CASE FreezeStalled(c) \/ FreezeNothing(c) \/ Freeze(c) \/ PlanFlush(c) \/ Stage(c) \/ CallFlush(c)
    BY <2>1 DEF FreezeStalled, FreezeNothing, Freeze, PlanFlush, Stage, CallFlush, At, ReturnOk,
       ReturnErr, logVars, lakeVars
  <2>2. CASE Publish(c) \/ LoadIndex(c) \/ StoreIndex(c) \/ Retire(c) \/ Unstage(c)
    BY <2>2 DEF Publish, LoadIndex, StoreIndex, Retire, Unstage, At, ReturnOk, ReturnErr,
       logVars, lakeVars
  <2>3. CASE FlushFail(c) \/ StageFail(c) \/ Abandon(c)
    BY <2>3 DEF FlushFail, StageFail, Abandon, At, ReturnErr, logVars, lakeVars
  <2> QED BY <1>4, <2>1, <2>2, <2>3 DEF Flush, FlushFault
<1>5. ASSUME NEW job \in duckdb, DuckCommit(job) \/ DuckCommitThenFail(job) \/ DuckFail(job)
      PROVE  wal' = wal /\ Range(catalog) \subseteq Range(catalog') /\ acked' = acked
  <2>1. wal' = wal /\ acked' = acked /\ (CommitPublish(job) \/ catalog' = catalog)
    BY <1>5 DEF DuckCommit, DuckCommitThenFail, DuckFail, ReturnErr, logVars
  <2>2. CASE CommitPublish(job)
    <3>1. PICK s \in StagedFor(job) :
              catalog' = Append(catalog, [rows |-> s.rows, watermark |-> MaxLsnOf(s.rows)])
      BY <2>2 DEF CommitPublish
    <3>2. [rows |-> s.rows, watermark |-> MaxLsnOf(s.rows)] \in File
      BY <1>0, StagedWatermark DEF EngineInv
    <3>3. Range(catalog') = Range(catalog) \cup {[rows |-> s.rows, watermark |-> MaxLsnOf(s.rows)]}
      BY <1>0, <3>1, <3>2, RangeOfAppend DEF TypeOK
    <3> QED BY <2>1, <3>3
  <2> QED BY <2>1, <2>2
<1>6. ASSUME (\E r \in unsynced : LateAppend(r)) \/ LateTruncate
      PROVE  /\ \A r \in wal : r \in wal' \/ r.lsn <= PublishedWatermark
             /\ catalog' = catalog /\ acked' = acked
  <2>1. CASE \E r \in unsynced : LateAppend(r)
    BY <2>1 DEF LateAppend, LogAppend, lakeVars
  <2>2. CASE LateTruncate
    <3>1. covered \in 0 .. MaxLsn /\ covered <= PublishedWatermark
      BY <1>0 DEF EngineInv, TypeOK, LogTypeOK
    <3> QED BY <2>2, <3>1, TruncateKeeps DEF LateTruncate, lakeVars
  <2> QED BY <1>6, <2>1, <2>2
<1>7. ASSUME NEW r \in Readers, (\E k \in Keys : GetRowTier(r, k)) \/ GetColumnar(r) \/ GetReturn(r)
      PROVE  wal' = wal /\ catalog' = catalog /\ acked' = acked
  BY <1>7 DEF GetRowTier, GetColumnar, GetReturn, logVars, lakeVars
<1>8. ASSUME Crash \/ OpenWatermark \/ OpenIndex \/ OpenWal
      PROVE  wal \subseteq wal' /\ catalog' = catalog /\ acked' = acked
  BY <1>8 DEF Crash, LogCrash, OpenWatermark, OpenIndex, OpenWal, logVars, lakeVars
<1> QED
  <2>1. CASE \E c \in Clients : Flush(c) \/ FlushFault(c) \/ CallFlush(c)
    <3>1. PICK c \in Clients : Flush(c) \/ FlushFault(c) \/ CallFlush(c)
      BY <2>1
    <3>2. CASE Truncate(c) \/ TruncateFail(c)
      BY <1>3, <3>2
    <3>3. CASE ~Truncate(c) /\ ~TruncateFail(c)
      BY <1>4, <3>1, <3>3
    <3> QED BY <3>2, <3>3
  <2>2. CASE \E c \in Writers : \/ \E k \in Keys, v \in Values \cup {Tombstone} : TakeLsn(c, k, v)
                               \/ Write(c)
                               \/ WalAppendFail(c)
    <3>1. PICK c \in Writers : \/ \E k \in Keys, v \in Values \cup {Tombstone} : TakeLsn(c, k, v)
                               \/ Write(c)
                               \/ WalAppendFail(c)
      BY <2>2
    <3>2. c \in Clients
      BY DEF Clients
    <3> QED BY <1>2, <3>1, <3>2
  <2>3. CASE \E job \in duckdb : DuckCommit(job) \/ DuckCommitThenFail(job) \/ DuckFail(job)
    BY <1>5, <2>3
  <2>4. CASE (\E r \in unsynced : LateAppend(r)) \/ LateTruncate
    BY <1>6, <2>4
  <2>5. CASE \E r \in Readers : (\E k \in Keys : GetRowTier(r, k)) \/ GetColumnar(r) \/ GetReturn(r)
    BY <1>7, <2>5
  <2>6. CASE Crash \/ OpenWatermark \/ OpenIndex \/ OpenWal
    BY <1>8, <2>6
  <2> QED BY <1>1, <2>1, <2>2, <2>3, <2>4, <2>5, <2>6 DEF Next, Clients

\* A step of the engine is a step of the map, or leaves it as it is.
LEMMA MapStep ==
    ASSUME SerialInv, SerialInv', [Next]_vars
    PROVE  [KV!Next]_<<StoredMap, Promises>>
<1>0. /\ EngineInv /\ TypeOK
      /\ StoredMap' \in [Keys -> [ver : 0 .. MaxLsn, val : Values \cup {Tombstone}]]
  <2>1. StoredMapIsMap'
    BY StoredMapType, PTL
  <2> QED BY <2>1 DEF StoredMapIsMap, SerialInv, EngineInv
<1>1. /\ \A r \in wal : r \in wal' \/ r.lsn <= PublishedWatermark
      /\ Range(catalog) \subseteq Range(catalog')
      /\ \/ acked' = acked
         \/ \E c \in Clients : /\ pc[c] # "append" /\ acked' = acked \cup pending[c]
                               /\ wal' = wal /\ catalog' = catalog
  BY <1>0, StepKeeps
<1>2. LakeRows \subseteq LakeRows'
  BY <1>1 DEF LakeRows
<1>3. \A k \in Keys : StoredMap'[k] = StoredMap[k] \/ StoredMap'[k].ver > StoredMap[k].ver
  BY <1>1, <1>2, StoredMapGrows
<1>4. CASE acked' = acked
  <2>1. Promises' = Promises
    BY <1>4 DEF Promises
  <2>2. KV!Apply
    BY <1>0, <1>3, <2>1 DEF KV!Apply
  <2> QED BY <2>2 DEF KV!Next
<1>5. ASSUME NEW c \in Clients, pc[c] # "append", acked' = acked \cup pending[c],
             wal' = wal, catalog' = catalog
      PROVE  [KV!Next]_<<StoredMap, Promises>>
  <2>1. StoredMap' = StoredMap
    <3>1. PublishedWatermark' = PublishedWatermark
      BY <1>5, SameWatermark
    <3>2. \A k \in Keys : Recovered(k)' = Recovered(k)
      BY <1>5, <3>1 DEF Recovered, LogReplay
    <3> QED BY <3>2 DEF StoredMap
  <2>2. CASE pending[c] = {}
    <3>1. acked' = acked
      BY <1>5, <2>2
    <3> QED BY <2>1, <3>1 DEF Promises
  <2>3. CASE pending[c] # {}
    <3>1. PICK r \in pending[c] : TRUE
      BY <2>3
    <3>2. acked' = acked \cup {r} /\ r \in Record /\ acked \subseteq Record /\ r \in Durable
      BY <1>0, <1>5, <3>1, InDurable DEF EngineInv, PendingIsSafe, TypeOK
    <3>3. r.key \in Keys /\ r.lsn \in 1 .. MaxLsn
      BY <3>2 DEF Record, Lsn
    <3>4. r.lsn <= StoredMap[r.key].ver
      <4>1. Recovered(r.key) # {} /\ \A a \in Recovered(r.key) : a.lsn >= r.lsn
        BY <3>2, DurableRecovered DEF Covers
      <4>2. PICK a \in Recovered(r.key) : a = CHOOSE x \in Recovered(r.key) : TRUE
        BY <4>1
      <4>3. StoredMap[r.key].ver = a.lsn
        BY <3>3, <4>1, <4>2 DEF StoredMap
      <4>4. a.lsn \in Nat
        BY <3>3, RecoveredKept, RecordAssumption DEF RecoveredIsKept, Record, Lsn
      <4> QED BY <3>3, <4>1, <4>3, <4>4
    <3>5. ASSUME NEW k \in Keys
          PROVE  Promises'[k] = IF k = r.key /\ r.lsn > Promises[k] THEN r.lsn ELSE Promises[k]
      <4>1. Promises[k] = MaxLsnOf(Of(acked, k)) /\ Promises'[k] = MaxLsnOf(Of(acked', k))
        BY DEF Promises
      <4>2. CASE k = r.key
        <5>1. Of(acked', k) = Of(acked, k) \cup {r} /\ Of(acked, k) \in SUBSET Record
          BY <3>2, <4>2 DEF Of
        <5> QED BY <3>2, <4>1, <4>2, <5>1, MaxLsnOfAdd
      <4>3. CASE k # r.key
        <5>1. Of(acked', k) = Of(acked, k)
          BY <3>2, <4>3 DEF Of
        <5> QED BY <4>1, <4>3, <5>1
      <4> QED BY <4>2, <4>3
    <3>6. Promises' = [Promises EXCEPT ![r.key] = IF r.lsn > Promises[r.key] THEN r.lsn
                                                  ELSE Promises[r.key]]
      BY <3>3, <3>5 DEF Promises
    <3>7. KV!Acknowledge(r.key, r.lsn)
      BY <2>1, <3>4, <3>6 DEF KV!Acknowledge
    <3> QED BY <3>3, <3>7 DEF KV!Next
  <2> QED BY <2>2, <2>3
<1> QED
  BY <1>1, <1>4, <1>5

\* Flushes, failures, crashes and recoveries are invisible: the engine implements
\* the durable map, in which only an fsynced write changes an answer, never back.
THEOREM EngineImplementsKvStore == Spec /\ []Serial => ImplementsKvStore
<1>1. Init => KV!Init
  <2> SUFFICES ASSUME Init PROVE KV!Init
    OBVIOUS
  <2>1. SerialInv /\ wal = {} /\ catalog = << >> /\ acked = {}
    BY SerialInit DEF Init, LogInit, LakeInit
  <2>2. Range(catalog) = {}
    BY <2>1 DEF Range
  <2>3. \A k \in Keys : Recovered(k) = {}
    BY <2>1, <2>2 DEF Recovered, LogReplay, Of, ColumnarGet
  <2>4. StoredMap = [k \in Keys |-> KV!Blank]
    BY <2>3 DEF StoredMap, KV!Blank
  <2>5. ASSUME NEW k \in Keys PROVE MaxLsnOf(Of(acked, k)) = 0
    <3>1. Of(acked, k) = {} /\ {} \in SUBSET Record
      BY <2>1 DEF Of
    <3>2. MaxLsnOf({}) = 0 \/ \E r \in {} : r.lsn = MaxLsnOf({})
      BY <3>1, MaxLsnOfRecords
    <3> QED BY <3>1, <3>2
  <2>6. Promises = [k \in Keys |-> 0]
    BY <2>5 DEF Promises
  <2> QED BY <2>4, <2>6 DEF KV!Init
<1>2. SerialInv /\ SerialInv' /\ [Next]_vars => [KV!Next]_<<StoredMap, Promises>>
  BY MapStep
<1> QED
  BY <1>1, <1>2, SerialInvariantHolds, PTL DEF Spec, ImplementsKvStore, KV!Spec

==============================================================================
