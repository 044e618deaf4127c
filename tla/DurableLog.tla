----------------------------- MODULE DurableLog ------------------------------
(***************************************************************************)
(* What wal.rs promises the engine, as a set of records.                   *)
(*                                                                         *)
(*   wal       the records a restart is certain to replay                  *)
(*   unsynced  records whose append has not returned, or returned an       *)
(*             error: in the writer's buffer, in the page cache or on      *)
(*             disk, they may or may not be there after a restart          *)
(*   covered   the highest watermark it was told to truncate through       *)
(*                                                                         *)
(* Wal.tla models the segments behind it and implements it.                *)
(***************************************************************************)
EXTENDS Records

VARIABLES wal, unsynced, covered

logVars == <<wal, unsynced, covered>>

LogTypeOK ==
    /\ wal \subseteq Record
    /\ unsynced \subseteq Record
    /\ covered \in 0 .. MaxLsn

LogInit ==
    /\ wal = {}
    /\ unsynced = {}
    /\ covered = 0

\* Mutation of LogAppend: Ok is returned without the fsync.
LogAppendUnsynced(r) ==
    /\ unsynced' = unsynced \cup {r}
    /\ UNCHANGED <<wal, covered>>

\* Wal::append, returned Ok: the record is on disk and synced.
LogAppend(r) ==
    /\ wal' = wal \cup {r}
    /\ unsynced' = unsynced \ {r}
    /\ UNCHANGED covered

\* Wal::append under way, or returned Err: the record may become durable.
LogAppendFail(r) ==
    /\ unsynced' = unsynced \cup {r}
    /\ UNCHANGED <<wal, covered>>

\* Wal::truncate_through(w): whole sealed segments go, so any part of the
\* covered records may, and nothing above w does.
LogTruncate(w) ==
    /\ covered' = IF w > covered THEN w ELSE covered
    /\ \E gone \in SUBSET {r \in wal : r.lsn <= w} : wal' = wal \ gone
    /\ UNCHANGED unsynced

\* The process dies.  Synced records stay; the fate of the others is settled.
LogCrash ==
    /\ \E late \in SUBSET unsynced : wal' = wal \cup late
    /\ unsynced' = {}
    /\ UNCHANGED covered

\* Mutation of LogReplay: published records are handed back too.
LogReplayAll(from) == wal

\* Wal::open(from_lsn): the records handed back, and Replay::max_lsn.
LogReplay(from) == {r \in wal : r.lsn > from}

LogMaxLsn == MaxLsnOf(wal)

LogNext ==
    \/ \E r \in Record : LogAppend(r) \/ LogAppendFail(r)
    \/ \E w \in Lsn : LogTruncate(w)
    \/ LogCrash

LogSpec == LogInit /\ [][LogNext]_logVars

==============================================================================
