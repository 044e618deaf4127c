-------------------------------- MODULE Lake ---------------------------------
(***************************************************************************)
(* The columnar level as the engine uses it: the local staging directory   *)
(* (flush.rs), the DuckDB processes that publish staged files, and the     *)
(* DuckLake catalog they commit to (catalog.rs, index.rs).                 *)
(*                                                                         *)
(*   staging  the staged Parquet files, one per watermark; a file with no  *)
(*            rows is one whose writing was cut short                      *)
(*   duckdb   the DuckDB processes running a publish script: who spawned   *)
(*            them, in which life of the engine, for which staged file     *)
(*   catalog  the live lake files in commit order; nothing expires them    *)
(***************************************************************************)
EXTENDS Memtable, FileIndex

VARIABLES staging, duckdb, catalog

lakeVars == <<staging, duckdb, catalog>>

LakeInit ==
    /\ staging = {}
    /\ duckdb = {}
    /\ catalog = << >>

\* DuckLake::published_watermark, the MAX(lsn) statistic over the live files.
PublishedWatermark == Max({0} \cup {f.watermark : f \in Range(catalog)})

\* Mutation of Plan: the watermark comparison is off by one.
PlanOffByOne(published, mt) ==
    IF mt.rows = {} THEN "empty"
    ELSE IF mt.max_lsn <= published + 1 THEN "already_published"
    ELSE "write"

\* flush::plan.
Plan(published, mt) ==
    IF mt.rows = {} THEN "empty"
    ELSE IF mt.max_lsn <= published THEN "already_published"
    ELSE "write"

\* Mutation of StageFile: tombstones are skipped.
StageFileSkipsTombstones(w, rows) ==
    staging' = {s \in staging : s.watermark # w}
                 \cup {[rows |-> {r \in rows : r.val # Tombstone}, watermark |-> w]}

\* flush::stage under the name staging_path gives: create-or-overwrite.
StageFile(w, rows) ==
    staging' = {s \in staging : s.watermark # w} \cup {[rows |-> rows, watermark |-> w]}

UnstageFile(w) == staging' = {s \in staging : s.watermark # w}

\* flush::publish, the spawn half: a DuckDB child is given the script.
SpawnPublish(job) == duckdb' = duckdb \cup {job}

\* The staged file a publish job reads, when there is a readable one.
StagedFor(job) == {s \in staging : s.watermark = job.watermark /\ s.rows # {}}

\* The child's INSERT commits: one data file, its rows and its statistics in
\* one transaction.  The lsn statistic is computed from the rows.  The file is read
\* and the rows committed in one step: a child that read the file, and commits after a
\* retry has overwritten or removed it, is left out.
CommitPublish(job) ==
    /\ \E s \in StagedFor(job) :
          catalog' = Append(catalog, [rows |-> s.rows, watermark |-> MaxLsnOf(s.rows)])
    /\ duckdb' = duckdb \ {job}
    /\ UNCHANGED staging

==============================================================================
