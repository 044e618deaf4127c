----------------------------- MODULE FileIndex -------------------------------
(***************************************************************************)
(* The columnar level as a reader sees it: a list of live files, each with *)
(* its rows (at most one per key) and the MAX(lsn) statistic that orders   *)
(* it (index.rs), and what a point read of the list means.  ReadPath.tla   *)
(* models how read.rs computes the same answer with pruning.               *)
(***************************************************************************)
EXTENDS Records, Sequences

File == [rows : SUBSET Record, watermark : 0 .. MaxLsn]

\* Mutation of ColumnarGet: the files are sorted oldest first.
ColumnarGetOldest(index, k) ==
    LET holders == {f \in Range(index) : Of(f.rows, k) # {}}
    IN  UNION {Of(f.rows, k) :
                 f \in {h \in holders : \A g \in holders : g.watermark >= h.watermark}}

\* ColumnarReader::get over a FileIndex: the newest file by watermark that
\* holds the key answers.  Files of equal watermark have no defined order, so
\* the answer is a set; the empty set is Lookup::Missing.
ColumnarGet(index, k) ==
    LET holders == {f \in Range(index) : Of(f.rows, k) # {}}
    IN  UNION {Of(f.rows, k) :
                 f \in {h \in holders : \A g \in holders : g.watermark <= h.watermark}}

==============================================================================
