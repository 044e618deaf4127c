----------------------------- MODULE WalInvariant ----------------------------
(***************************************************************************)
(* Why Wal.tla keeps its promises: the conditions on segment names that    *)
(* they rest on, and the invariants that carry them from step to step.     *)
(***************************************************************************)
EXTENDS Wal

\* Every record in some file, whether or not a replay would reach it.
Written == (UNION {Range(dir[s]) : s \in DOMAIN dir}) \ {Torn}

\* The mutex is held by an append.
Appending == {"rotate", "write", "sync"}

\* An LSN names one record: next_lsn is above all that is on disk or under way, and
\* a restart that hands an LSN out again found no record with it.
LsnInv ==
    /\ TypeOK
    /\ at = "closed" => inflight = {} /\ doubtful = {} /\ sealed = {} /\ arg = Idle
    /\ at \in Appending => \E r \in inflight : arg.record = {r}
    /\ at \notin Appending => arg.record = {}
    /\ \A q, r \in Written \cup inflight : q.lsn = r.lsn => q = r
    /\ at # "closed" => \A r \in Written \cup inflight : r.lsn < nextLsn

\* Without short writes only a crash tears a frame, it is the last of its file, and
\* open cuts it off.
TornInv ==
    \A s \in DOMAIN dir : \A i \in DOMAIN dir[s] :
        dir[s][i] = Torn => at = "closed" /\ i = Len(dir[s])

------------------------------------------------------------------------------

\* rotate creates the file it names.  Wal::open_append would as well reopen one
\* that exists: what goes wrong then is the run wal_name_reuse.
FreshNames == at = "rotate" => \A r \in arg.record : r.lsn \notin DOMAIN dir

\* rotate names the new file above all the others, which is how Wal::open finds the
\* file that was last appended to.
AscendingNames ==
    at = "rotate" => \A r \in arg.record : \A s \in DOMAIN dir : s < r.lsn

\* A restart continues above the names on disk.  next_lsn is computed from records and
\* the watermark only, so with several writers it may not (wal_name_reuse).
OpensAbove == at = "closed" => \A s \in DOMAIN dir : s < FirstLsn

\* Then the names are below next_lsn, and of the LSNs on their way only that of the
\* append that just rotated is a name.
NamesInv ==
    at # "closed" =>
        /\ \A s \in DOMAIN dir : s < nextLsn
        /\ \A r \in inflight : r.lsn \in DOMAIN dir => at \in {"write", "sync"} /\ r \in arg.record

\* The records in a file whose append returned Ok, in this life or in an earlier one.
Kept(s) == Range(dir[s]) \ (doubtful \cup {Torn})

\* The active file is in the directory, and beyond its last sync holds nothing that
\* was appended Ok.
ActiveTail ==
    /\ active.start \in DOMAIN dir
    /\ synced <= Len(dir[active.start])
    /\ \A i \in DOMAIN dir[active.start] :
          i > synced => dir[active.start][i] \in doubtful \cup {Torn}

\* Each file has at most one SegmentMeta, and none once it is to be removed.
NamesApart ==
    /\ \A g \in sealed : g.start \in DOMAIN dir /\ g.start # active.start
    /\ \A g, h \in sealed : g.start = h.start => g = h
    /\ \A g \in arg.remove : g.start # active.start /\ \A h \in sealed : h.start # g.start
    /\ at # "remove" => arg.remove = {}

\* max_lsn bounds the records of a segment, the watermark those of a segment that is
\* being removed.
MaxIsBound ==
    /\ \A g \in sealed \cup {active} : \A r \in Kept(g.start) : r.lsn <= g.max
    /\ \A g \in arg.remove : g.start \in DOMAIN dir => \A r \in Kept(g.start) : r.lsn <= published
    /\ at = "remove" => published > 0

\* A record is in no file until its append writes it, and then in the active one only.
WrittenOnce ==
    /\ at # "sync" => inflight \cap Written = {}
    /\ at = "sync" =>
         /\ inflight \cap Written \subseteq arg.record
         /\ arg.record \subseteq Range(dir[active.start]) \cap doubtful
         /\ \A s \in DOMAIN dir \ {active.start} : Range(dir[s]) \cap arg.record = {}

\* What fresh names buy, while the log is open.
SegmentsInv == at # "closed" => ActiveTail /\ NamesApart /\ MaxIsBound /\ WrittenOnce

\* With ascending names: the active file is the last, and so is a torn one.
LastInv ==
    \A s \in DOMAIN dir :
        /\ at # "closed" => s <= active.start
        /\ at = "closed" /\ Torn \in Range(dir[s]) => \A t \in DOMAIN dir : t <= s

------------------------------------------------------------------------------

\* One writer at a time and a file system that returns no error.
OneAppender == InFlight = 1 /\ WalFaults = {}

\* A restart will not hand out an LSN up to n: it is covered, or not above one that
\* is certain to be replayed.
Settled(n) == n <= published \/ \E r \in Replayable \ doubtful : n <= r.lsn

\* With one appender: the LSNs below the one under way are settled, so a restart
\* continues where a file may have been created for a record that was not written,
\* and no record is in a file named above it.
OrderInv ==
    /\ \A s \in DOMAIN dir :
         /\ s > 0 => Settled(s - 1)
         /\ \A r \in Range(dir[s]) \ {Torn} : s <= r.lsn
    /\ at # "closed" =>
         /\ inflight = {} => Settled(nextLsn - 1) /\ active.start <= nextLsn
         /\ \A r \in inflight :
              inflight = {r} /\ r.lsn = nextLsn - 1 /\ Settled(r.lsn - 1) /\ active.start <= r.lsn
         /\ size > 0 => \E q \in Range(dir[active.start]) : q \notin inflight
    /\ at = "rotate" => size > 0

==============================================================================
