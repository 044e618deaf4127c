--------------------------------- MODULE Wal ---------------------------------
(***************************************************************************)
(* wal.rs: the segmented log behind DurableLog.                            *)
(*                                                                         *)
(* A segment file is the sequence of its frames; a frame is a record, or   *)
(* Torn for bytes that do not decode.  Every frame weighs one unit, so     *)
(* SegmentBytes counts frames.  Segments are named by an LSN and the       *)
(* directory maps names to files: opening a name that exists appends to    *)
(* the file that is there, and removing it takes everything written to it. *)
(*                                                                         *)
(* Callers take their LSN before they take the mutex, so with several      *)
(* writers records arrive out of LSN order.  The mutex makes one append or *)
(* truncation run at a time; a crash can fall between any two of its       *)
(* system calls.                                                           *)
(***************************************************************************)
EXTENDS Records, Sequences

CONSTANTS
    Torn,          \* a frame that fails its length or CRC check
    SegmentBytes,  \* wal_segment_bytes, in frames
    InFlight,      \* how many writers may hold an LSN at once
    MaxCrashes,    \* bound on crashes in a run
    WalFaults      \* which I/O errors the file system may return, and whether a
                   \* crash may be a power failure

ASSUME WalAssumption ==
    /\ Torn \notin Record
    /\ SegmentBytes \in Nat \ {0}
    /\ InFlight \in Nat \ {0}
    /\ MaxCrashes \in Nat
    /\ WalFaults \subseteq {"io_error", "short_write", "power_loss"}

VARIABLES
    dir,        \* directory: segment name -> frames
    unlisted,   \* names whose directory entry may not be on disk: nothing syncs it
    active,     \* Wal::active: [start, max]
    size,       \* Wal::active_bytes
    sealed,     \* Wal::sealed: set of [start, max]
    synced,     \* frames of the active file known to be on disk
    at,         \* the mutex holder's next system call
    arg,        \* the record being appended, the segments being removed
    nextLsn,    \* Engine::next_lsn
    inflight,   \* records whose writer has an LSN and waits for the mutex
    doubtful,   \* history: records of this life whose append did not return Ok
    published,  \* the highest watermark passed to truncate_through
    crashes

vars == <<dir, unlisted, active, size, sealed, synced, at, arg, nextLsn, inflight, doubtful,
          published, crashes>>

Segment == [start : 0 .. MaxLsn, max : 0 .. MaxLsn]
Idle == [record |-> {}, remove |-> {}]

TypeOK ==
    /\ DOMAIN dir \subseteq 0 .. MaxLsn
    /\ \A s \in DOMAIN dir : dir[s] \in Seq(Record \cup {Torn})
    /\ unlisted \subseteq DOMAIN dir
    /\ active \in Segment
    /\ size \in Nat
    /\ sealed \subseteq Segment
    /\ synced \in Nat
    /\ at \in {"closed", "idle", "rotate", "write", "sync", "remove"}
    /\ arg \in [record : SUBSET Record, remove : SUBSET Segment]
    /\ nextLsn \in 1 .. MaxLsn + 1
    /\ inflight \subseteq Record
    /\ doubtful \subseteq Record
    /\ published \in 0 .. MaxLsn
    /\ crashes \in 0 .. MaxCrashes

Without(f, S) == [x \in DOMAIN f \ S |-> f[x]]

\* An append to a file whose name is gone reaches no file a restart can see.
AppendFrame(d, s, frame) ==
    IF s \in DOMAIN d THEN [d EXCEPT ![s] = Append(d[s], frame)] ELSE d

\* replay_segment: the frames before the first one that does not decode.
Intact(frames) ==
    LET torn == {i \in DOMAIN frames : frames[i] = Torn}
    IN  IF torn = {} THEN frames ELSE SubSeq(frames, 1, Min(torn) - 1)

ReplaySegment(frames) == Range(Intact(frames))

\* Every record a replay of the directory would find.
Replayable == UNION {ReplaySegment(dir[s]) : s \in DOMAIN dir}

Init ==
    /\ dir = << >>
    /\ unlisted = {}
    /\ active = [start |-> 0, max |-> 0]
    /\ size = 0
    /\ sealed = {}
    /\ synced = 0
    /\ at = "closed"
    /\ arg = Idle
    /\ nextLsn = 1
    /\ inflight = {}
    /\ doubtful = {}
    /\ published = 0
    /\ crashes = 0

------------------------------------------------------------------------------
(* Wal::open.                                                               *)

\* Mutation of Repaired: a torn tail is skipped but left in the file.
RepairedNot(frames) == frames

\* set_len: the file is cut after its last intact frame.
Repaired(frames) == Intact(frames)

\* Mutation of ReplayedSegment: the highest LSN is taken from the name.
ReplayedSegmentByName(s, frames) == [start |-> s, max |-> s]

\* The SegmentMeta of a replayed segment.
ReplayedSegment(s, frames) == [start |-> s, max |-> MaxLsnOf(ReplaySegment(frames))]

\* Mutation of FirstLsn: what the replay found is ignored.
FirstLsnForgetsReplay == published + 1

\* Mutation of FirstLsn: it leaves a gap.
FirstLsnLeavesGap == Max({MaxLsnOf(Replayable), published}) + 2

\* What Engine::open sets next_lsn to, from Replay::max_lsn and the watermark.
FirstLsn == Max({MaxLsnOf(Replayable), published}) + 1

\* list_segments, replay_segment and set_len on each; the segment with the
\* highest name is reused as the active one, or "0" is created.  One action for these
\* calls: a crash between them leaves a directory of which the next open makes the
\* same.  What is found is taken to be on disk, though only a file that was cut is
\* synced: a frame that one dead process wrote and did not sync, the next one replayed
\* and a power failure then takes is left out.
Open ==
    /\ at = "closed"
    /\ at' = "idle"
    /\ LET names == IF DOMAIN dir = {} THEN {0} ELSE DOMAIN dir
           last  == Max(names)
           clean == [s \in names |-> IF s \in DOMAIN dir THEN Repaired(dir[s]) ELSE << >>]
           seg(s) == ReplayedSegment(s, clean[s])
       IN  /\ dir' = clean
           /\ unlisted' = unlisted \cup (names \ DOMAIN dir)
           /\ active' = seg(last)
           /\ size' = Len(clean[last])
           /\ synced' = Len(clean[last])
           /\ sealed' = {seg(s) : s \in names \ {last}}
    /\ nextLsn' = FirstLsn
    /\ UNCHANGED <<arg, inflight, doubtful, published, crashes>>

------------------------------------------------------------------------------
(* Wal::append, one record at a time as Engine::append calls it.            *)

TakeLsn(k, v) ==
    /\ at # "closed"
    /\ nextLsn <= MaxLsn
    /\ Cardinality(inflight) < InFlight
    /\ inflight' = inflight \cup {[key |-> k, lsn |-> nextLsn, val |-> v]}
    /\ nextLsn' = nextLsn + 1
    /\ UNCHANGED <<dir, unlisted, active, size, sealed, synced, at, arg, doubtful, published, crashes>>

\* The mutex is taken and the segment size checked.
AppendLock(r) ==
    /\ at = "idle"
    /\ r \in inflight
    /\ at' = IF size >= SegmentBytes THEN "rotate" ELSE "write"
    /\ arg' = [Idle EXCEPT !.record = {r}]
    /\ UNCHANGED <<dir, unlisted, active, size, sealed, synced, nextLsn, inflight, doubtful,
                   published, crashes>>

\* rotate: sync the active file, open the file named after the record's LSN and
\* seal the old segment.
Rotate ==
    /\ at = "rotate"
    /\ at' = "write"
    /\ \E r \in arg.record :
          /\ dir' = IF r.lsn \in DOMAIN dir THEN dir
                    ELSE [s \in DOMAIN dir \cup {r.lsn} |->
                            IF s = r.lsn THEN << >> ELSE dir[s]]
          /\ unlisted' = unlisted \cup ({r.lsn} \ DOMAIN dir)
          /\ active' = [start |-> r.lsn, max |-> 0]
          /\ synced' = Len(dir'[r.lsn])
    /\ sealed' = sealed \cup {active}
    /\ size' = 0
    /\ UNCHANGED <<arg, nextLsn, inflight, doubtful, published, crashes>>

\* write_all and flush: the frame is in the page cache.
WriteFrame ==
    /\ at = "write"
    /\ at' = "sync"
    /\ \E r \in arg.record : dir' = AppendFrame(dir, active.start, r)
    /\ doubtful' = doubtful \cup arg.record
    /\ UNCHANGED <<unlisted, active, size, sealed, synced, arg, nextLsn, inflight, published, crashes>>

\* write_all fails half way through a frame that bypasses the writer's buffer.
WriteFail ==
    /\ "short_write" \in WalFaults
    /\ at = "write"
    /\ at' = "idle"
    /\ dir' = AppendFrame(dir, active.start, Torn)
    /\ doubtful' = doubtful \cup arg.record
    /\ inflight' = inflight \ arg.record
    /\ arg' = Idle
    /\ UNCHANGED <<unlisted, active, size, sealed, synced, nextLsn, published, crashes>>

\* The active segment's max_lsn once the record is counted in.
RaisedMax == Max({active.max} \cup {r.lsn : r \in arg.record})

\* sync_data, the accounting, and Ok.
SyncFrame ==
    /\ at = "sync"
    /\ at' = "idle"
    /\ synced' = IF active.start \in DOMAIN dir THEN Len(dir[active.start]) ELSE synced
    /\ size' = size + 1
    /\ active' = [active EXCEPT !.max = RaisedMax]
    /\ inflight' = inflight \ arg.record
    /\ doubtful' = doubtful \ arg.record
    /\ arg' = Idle
    /\ UNCHANGED <<dir, unlisted, sealed, nextLsn, published, crashes>>

\* rotate, flush or sync_data fails.  A frame that got as far as the file, or
\* stays in the writer's buffer for the next flush, may yet become durable; the
\* accounting is skipped.
AppendFail ==
    /\ "io_error" \in WalFaults
    /\ at \in {"rotate", "sync"}
    /\ at' = "idle"
    /\ inflight' = inflight \ arg.record
    /\ arg' = Idle
    /\ UNCHANGED <<dir, unlisted, active, size, sealed, synced, nextLsn, doubtful, published, crashes>>

------------------------------------------------------------------------------
(* Wal::truncate_through.                                                   *)

\* Mutation of CoveredBy: a segment is judged by the LSN it starts at.
CoveredByStart(w) == {s \in sealed : s.start <= w}

\* The sealed segments with nothing above w in them.
CoveredBy(w) == {s \in sealed : s.max <= w /\ s.max > 0}

\* Partition the sealed segments.  The caller published everything up to w.
TruncateThrough(w) ==
    /\ at = "idle"
    /\ w < nextLsn
    /\ LET covered == CoveredBy(w)
       IN  /\ sealed' = sealed \ covered
           /\ arg' = [Idle EXCEPT !.remove = covered]
           /\ at' = IF covered = {} THEN "idle" ELSE "remove"
    /\ published' = Max({published, w})
    /\ UNCHANGED <<dir, unlisted, active, size, synced, nextLsn, inflight, doubtful, crashes>>

\* remove_file, once per covered segment.
RemoveFile(g) ==
    /\ at = "remove"
    /\ g \in arg.remove
    /\ g.start \in DOMAIN dir
    /\ dir' = Without(dir, {g.start})
    /\ unlisted' = unlisted \ {g.start}
    /\ arg' = [arg EXCEPT !.remove = @ \ {g}]
    /\ at' = IF arg.remove = {g} THEN "idle" ELSE "remove"
    /\ UNCHANGED <<active, size, sealed, synced, nextLsn, inflight, doubtful, published, crashes>>

\* remove_file fails, or does not find the file because another segment of the same
\* name was removed: the segments not removed yet are forgotten until a restart.
RemoveFail ==
    /\ at = "remove"
    /\ "io_error" \in WalFaults \/ \E g \in arg.remove : g.start \notin DOMAIN dir
    /\ at' = "idle"
    /\ arg' = Idle
    /\ UNCHANGED <<dir, unlisted, active, size, sealed, synced, nextLsn, inflight, doubtful, published,
                   crashes>>

------------------------------------------------------------------------------

\* The frames a file may hold after a crash: those synced, any number of the
\* ones after them, and a torn one where the next was being written.
Survivors(frames, n) ==
    UNION {{SubSeq(frames, 1, i)} \cup
           (IF i < Len(frames) THEN {Append(SubSeq(frames, 1, i), Torn)} ELSE {}) :
             i \in n .. Len(frames)}

\* The process dies.  In a power failure the names that rotate and open created,
\* and nothing synced, may go with it.
Crash ==
    /\ at # "closed"
    /\ crashes < MaxCrashes
    /\ crashes' = crashes + 1
    /\ at' = "closed"
    /\ \E lost \in SUBSET unlisted :
          /\ \/ lost = {} /\ UNCHANGED unlisted
             \/ "power_loss" \in WalFaults /\ unlisted' = {}
          /\ IF active.start \in DOMAIN dir \ lost
             THEN \E f \in Survivors(dir[active.start], synced) :
                     dir' = Without([dir EXCEPT ![active.start] = f], lost)
             ELSE dir' = Without(dir, lost)
    /\ active' = [start |-> 0, max |-> 0]
    /\ size' = 0
    /\ sealed' = {}
    /\ synced' = 0
    /\ arg' = Idle
    /\ nextLsn' = 1
    /\ inflight' = {}
    /\ doubtful' = {}
    /\ UNCHANGED published

Next ==
    \/ Open
    \/ \E k \in Keys, v \in Values \cup {Tombstone} : TakeLsn(k, v)
    \/ \E r \in inflight : AppendLock(r)
    \/ Rotate
    \/ WriteFrame
    \/ WriteFail
    \/ SyncFrame
    \/ AppendFail
    \/ \E w \in Lsn : TruncateThrough(w)
    \/ \E g \in arg.remove : RemoveFile(g)
    \/ RemoveFail
    \/ Crash

Spec == Init /\ [][Next]_vars

------------------------------------------------------------------------------
(* Properties.                                                              *)

\* The log keeps its promise to the engine: an append that returned Ok is
\* replayed after any crash until a truncation at or above its LSN removes it,
\* and a replay returns nothing that was not appended.
Log == INSTANCE DurableLog WITH
    wal <- Replayable \ doubtful,
    unsynced <- doubtful,
    covered <- published

ImplementsDurableLog == Log!LogSpec

\* A sealed segment's max_lsn bounds the records in it, so a segment that
\* truncate_through drops holds nothing above the watermark.
SealedMaxIsBound ==
    \A s \in sealed : s.start \in DOMAIN dir =>
        \A r \in ReplaySegment(dir[s.start]) \ doubtful : r.lsn <= s.max

\* The active segment is never deleted: every append goes to a file that a
\* restart will list.
ActiveNeverDeleted == at # "closed" => active.start \in DOMAIN dir

\* A torn tail is only ever found in the last segment.
TornOnlyInLast ==
    at = "closed" => \A s \in DOMAIN dir : Torn \in Range(dir[s]) => s = Max(DOMAIN dir)

\* A record whose sync returned Ok is replayed: no frame before it in its file
\* keeps the replay from reaching it.
SyncedIsReplayable ==
    \A s \in DOMAIN dir : \A i \in DOMAIN dir[s] :
        (s # active.start \/ i <= synced) /\ dir[s][i] \in Record =>
            dir[s][i] \in ReplaySegment(dir[s])

\* A replay never returns two different records with one LSN, whatever appends
\* failed, whatever segments a power failure took out of the middle of the log and
\* whatever LSNs were handed out again after the restart.
ReplayIsUnambiguous == \A r, s \in Replayable : r.lsn = s.lsn => r = s

==============================================================================
