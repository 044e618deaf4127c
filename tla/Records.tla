------------------------------- MODULE Records -------------------------------
(***************************************************************************)
(* The record of record.rs: a key, the LSN it was written under, and       *)
(* either a value (Op::Put) or the tombstone (Op::Delete).  Every level of *)
(* the engine - WAL, memtable, staged file, lake file - holds records, so  *)
(* each is modelled as a set of them.                                      *)
(***************************************************************************)
EXTENDS Naturals, FiniteSetsExt

CONSTANTS
    Keys,       \* primary keys
    Values,     \* values a put may carry
    Tombstone,  \* what a delete writes in place of a value
    MaxLsn      \* bound on the LSNs a run may hand out

ASSUME RecordAssumption ==
    /\ Tombstone \notin Values
    /\ MaxLsn \in Nat \ {0}

Lsn == 1 .. MaxLsn

Record == [key : Keys, lsn : Lsn, val : Values \cup {Tombstone}]

\* The records of R that are about key k.
Of(R, k) == {r \in R : r.key = k}

\* The highest LSN of a set of records, 0 when there is none.
MaxLsnOf(R) == Max({0} \cup {r.lsn : r \in R})

\* The records of R that no other record of R on the same key supersedes.
Winners(R) == {r \in R : \A s \in Of(R, r.key) : s.lsn <= r.lsn}

==============================================================================
