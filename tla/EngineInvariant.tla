-------------------------- MODULE EngineInvariant ----------------------------
(***************************************************************************)
(* The inductive invariant behind LsnUnique and TruncateAfterPublish.      *)
(*                                                                         *)
(* Neither property is inductive.  That no LSN is handed out twice needs,  *)
(* across a restart, that every record anywhere is in the WAL or covered   *)
(* by the watermark the recovery read; that truncation never outruns       *)
(* publication needs that a memtable's max_lsn is exactly its highest      *)
(* entry, so that the file DuckDB derives the watermark from reaches it.   *)
(***************************************************************************)
EXTENDS Engine

\* n is the highest LSN of R, 0 when R is empty.
Exact(R, n) ==
    \/ R = {} /\ n = 0
    \/ /\ \E r \in R : r.lsn = n
       /\ \A r \in R : r.lsn <= n

\* r cannot be forgotten: a restart replays it, or skips it as published.
Safe(r) == r \in wal \/ r.lsn <= PublishedWatermark

FiniteLog == IsFiniteSet(wal) /\ IsFiniteSet(unsynced)

TablesExact ==
    /\ Exact(active.rows, active.max_lsn)
    /\ \A m \in frozen : Exact(m.rows, m.max_lsn)
    /\ \A c \in Clients : Exact(held[c].rows, held[c].max_lsn)
    /\ \A s \in staging : s.rows = {} \/ Exact(s.rows, s.watermark)

LsnsBelowNext == mode = "up" => \A r \in AllRecords : r.lsn < nextLsn

\* A call carries one record, and is past the append only if it is in the WAL.
PendingIsSafe ==
    \A c \in Clients :
        /\ \A r, s \in pending[c] : r = s
        /\ pc[c] # "append" => \A r \in pending[c] : Safe(r)

DownIsEmpty ==
    mode # "up" => /\ unsynced = {}
                   /\ \A c \in Clients : pending[c] = {} /\ pc[c] = "idle"

OpeningCovers ==
    mode \in {"watermark_read", "index_loaded"} =>
        \A r \in Logged : r \in wal \/ r.lsn <= openWm

FlushedIsPublished ==
    \A c \in Clients :
        pc[c] \in {"load_index", "store_index", "truncate", "skip_truncate"} =>
            held[c].max_lsn <= PublishedWatermark

\* The WAL is never told to truncate above what the lake publishes, and the
\* records, memtables and watermarks line up so that this stays so.
EngineInv ==
    /\ TypeOK
    /\ FiniteLog
    /\ TablesExact
    /\ LsnUnique
    /\ LsnsBelowNext
    /\ TruncateAfterPublish
    /\ covered <= PublishedWatermark
    /\ PendingIsSafe
    /\ DownIsEmpty
    /\ OpeningCovers
    /\ FlushedIsPublished

==============================================================================
