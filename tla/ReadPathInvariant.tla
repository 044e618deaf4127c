-------------------------- MODULE ReadPathInvariant --------------------------
(***************************************************************************)
(* Why ReadPath.tla answers right: what is true of the files, of the lists *)
(* of them that reads walk, of the two caches and of each read under way.  *)
(***************************************************************************)
EXTENDS ReadPath

------------------------------------------------------------------------------
(* The files.                                                               *)

\* The blob of a file's bloom, whole or cut short.
Blob(rows, cut) ==
    FromBase64(Built(Cardinality(rows), KeysOf(rows)), Cardinality(rows) * WordsPerBlock - cut)

\* The row groups that the rows of a flush may be cut into, and the blooms they may get.
Groupings == [rows \in Batches |-> {RowGroups(rows, c.row_group_size) : c \in Configs}]
Blooms == [rows \in Batches |-> {{}} \cup {Blob(rows, cut) : cut \in {0, 1}}]

\* A file is what DuckDB writes for the rows of one flush under some options of the
\* table, with a bloom that parses or not.
Whole(f) ==
    /\ f.rows \in Batches
    /\ f.watermark = MaxLsnOf(f.rows)
    /\ f.pk_min = Min(KeysOf(f.rows)) /\ f.pk_max = Max(KeysOf(f.rows))
    /\ f.groups \in Groupings[f.rows]
    /\ f.bloom \in Blooms[f.rows]
    /\ f.stats \in BOOLEAN /\ f.listed \in BOOLEAN
    /\ f.stats \/ "no_stats" \in ReadFaults
    /\ f.listed \/ "no_catalog_stats" \in ReadFaults

FilesInv == \A i \in DOMAIN files : Whole(files[i])

------------------------------------------------------------------------------
(* The lists of files.                                                      *)

\* The files that the index query finds once the first n are committed.
Listed(n) == {p \in 1 .. n : files[p].listed}

\* What the query found at some point, newest watermark first.
NewestFirst(s) == ByWatermark(s) /\ \E n \in 0 .. Len(files) : Range(s) = Listed(n)

ListsInv ==
    /\ NewestFirst(index)
    /\ \A p \in DOMAIN flushes : \A s \in flushes[p] : NewestFirst(s)
    /\ \A r \in Readers : NewestFirst(walk[r].snapshot)

------------------------------------------------------------------------------
(* The caches.                                                              *)

\* The two maps agree, the accounts are exact, and a range is served for itself.
CacheInv ==
    /\ CacheTypeOK
    /\ MapsAgree
    /\ ResidentIsExact
    /\ \A k \in DOMAIN entries : entries[k].bytes = k

\* A footer is served for its own file.
FootersInv == \A p \in DOMAIN metadata : metadata[p] = p

------------------------------------------------------------------------------
(* The reads.                                                               *)

\* What the read w asked for, is waiting for and has.
Pieces(w) == Range(w.ask) \cup w.waiting \cup w.have

\* A read has one key.  Between the await points it wants nothing; at them, the footer
\* of the file it is at, or both chunks of one row group of it.
WalkOK(w) ==
    /\ w.at = "idle" \/ \E k \in Keys : w.key = {k}
    /\ w.todo \subseteq DOMAIN w.snapshot
    /\ w.at \in {"idle", "walk", "done", "failed"} => Pieces(w) = {}
    /\ w.at \in {"footer", "scan"} => w.todo # {}
    /\ w.at = "footer" => Pieces(w) = {FooterRange(Current(w))}
    /\ w.at = "scan" =>
          \E g \in DOMAIN files[Current(w)].groups :
              Pieces(w) = {PkRange(Current(w), g), ValueRange(Current(w), g)}

WalkInv == \A r \in Readers : WalkOK(walk[r])

ReadPathInv == TypeOK /\ FilesInv /\ ListsInv /\ CacheInv /\ FootersInv /\ WalkInv

Holds(p, k) == Of(files[p].rows, k) # {}

\* No file that holds the key was passed over, and the row group asked for is the one
\* that would hold it.
ExactOK(w) ==
    \A k \in w.key :
        /\ w.at \in {"walk", "footer", "scan"} =>
              w.got = {} /\ \A i \in DOMAIN w.snapshot : Holds(w.snapshot[i], k) => i \in w.todo
        /\ w.at = "scan" =>
              \A b \in Pieces(w) : Of(RowsIn(b), k) = Of(files[Current(w)].rows, k)
        /\ w.at = "done" =>
              OneOf(w.got, ColumnarGet([i \in DOMAIN w.snapshot |-> files[w.snapshot[i]]], k))

ExactInv == \A r \in Readers : ExactOK(walk[r])

==============================================================================
