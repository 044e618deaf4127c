------------------------------ MODULE Memtable -------------------------------
(***************************************************************************)
(* memtable.rs: one memtable, and the rules of the MemtableSet around it.  *)
(*                                                                         *)
(* A memtable is the set of its entries (at most one record per key), the  *)
(* byte estimate that drives the flush threshold and the highest LSN ever  *)
(* offered to it.  Every record weighs one unit of approx_bytes.  `id'     *)
(* stands for the Arc pointer and for the position in the frozen vector:   *)
(* ids grow in freeze order, so the set of frozen memtables ordered by id  *)
(* is the vector, oldest first.                                            *)
(***************************************************************************)
EXTENDS Records

CONSTANTS
    MaxBytes,   \* memtable_max_bytes: the freeze threshold
    MaxFrozen   \* max_frozen_memtables: the backpressure limit

ASSUME MemtableAssumption ==
    /\ MaxBytes \in Nat
    /\ MaxFrozen \in Nat \ {0}   \* MemtableSet::new asserts it

Memtable == [id : Nat, rows : SUBSET Record, bytes : Nat, max_lsn : 0 .. MaxLsn]

NewMemtable(id) == [id |-> id, rows |-> {}, bytes |-> 0, max_lsn |-> 0]

\* Mutation of Insert: a plain insert, in which the last arrival stands.
InsertByArrival(mt, r) ==
    [mt EXCEPT !.rows    = (mt.rows \ Of(mt.rows, r.key)) \cup {r},
               !.bytes   = mt.bytes + 1,
               !.max_lsn = IF r.lsn > mt.max_lsn THEN r.lsn ELSE mt.max_lsn]

\* Mutation of Insert: max_lsn is stored rather than maximised.
InsertStoresLsn(mt, r) ==
    [mt EXCEPT !.rows    = Winners(mt.rows \cup {r}),
               !.bytes   = mt.bytes + 1,
               !.max_lsn = r.lsn]

\* Memtable::insert.  LSN order wins, not arrival order; the byte estimate and
\* the highest LSN advance even when the record loses.
Insert(mt, r) ==
    [mt EXCEPT
        !.rows    = IF \E s \in Of(mt.rows, r.key) : s.lsn >= r.lsn
                    THEN mt.rows
                    ELSE (mt.rows \ Of(mt.rows, r.key)) \cup {r},
        !.bytes   = mt.bytes + 1,
        !.max_lsn = IF r.lsn > mt.max_lsn THEN r.lsn ELSE mt.max_lsn]

\* The memtable that inserting every record of R into an empty one leaves,
\* whatever the order: Engine::open's replay loop.
Replayed(R) ==
    [id |-> 0, rows |-> Winners(R), bytes |-> Cardinality(R), max_lsn |-> MaxLsnOf(R)]

\* MemtableSet::get over the active and frozen memtables: the newest memtable
\* that holds the key answers.  The empty set is Lookup::Missing, a record
\* carrying Tombstone is Lookup::Deleted.
RowTierGet(tables, k) ==
    LET holders == {m \in tables : Of(m.rows, k) # {}}
    IN  UNION {Of(m.rows, k) : m \in {h \in holders : \A n \in holders : n.id <= h.id}}

ShouldFreeze(mt) == mt.bytes >= MaxBytes

\* Mutation of Stalled: the comparison lets one memtable too many be frozen.
StalledOffByOne(frozen) == Cardinality(frozen) > MaxFrozen

Stalled(frozen) == Cardinality(frozen) >= MaxFrozen

==============================================================================
