----------------------------- MODULE RecordProofs ----------------------------
(***************************************************************************)
(* What the operators on records and sequences return: the facts that the  *)
(* proofs about the engine and about the log both rest on.                 *)
(***************************************************************************)
EXTENDS Records, Sequences, FiniteSetTheorems, SequenceTheorems, WellFoundedInduction, TLAPS

------------------------------------------------------------------------------
(* Maxima and minima.                                                       *)

\* The library's Max of a non-empty, bounded set of naturals is an element of it
\* and an upper bound: what MaxLsnOf and PublishedWatermark rest on.
LEMMA MaxOfBounded ==
    ASSUME NEW b \in Nat, NEW S \in SUBSET (0 .. b), S # {}
    PROVE  /\ Max(S) \in S
           /\ \A x \in S : x <= Max(S)
<1> DEFINE U == {n \in Nat : \A x \in S : x <= n}
<1>1. b \in U
  OBVIOUS
<1>2. IsWellFoundedOn(OpToRel(<, Nat), Nat)
  BY NatLessThanWellFounded
<1>3. PICK m \in U : \A y \in U : ~(<<y, m>> \in OpToRel(<, Nat))
  BY <1>1, <1>2, WFMin, U \subseteq Nat
<1>4. m \in Nat /\ \A x \in S : x <= m
  OBVIOUS
<1>5. m \in S
  <2> SUFFICES ASSUME m \notin S PROVE FALSE
    OBVIOUS
  <2>1. PICK e \in S : TRUE
    OBVIOUS
  <2>2. m - 1 \in Nat /\ m - 1 < m
    BY <1>4, <2>1
  <2>3. \A x \in S : x <= m - 1
    BY <1>4
  <2>4. m - 1 \in U
    BY <2>2, <2>3
  <2>5. <<m - 1, m>> \in OpToRel(<, Nat)
    BY <2>2, <1>4 DEF OpToRel
  <2> QED BY <1>3, <2>4, <2>5
<1>6. \E x \in S : \A y \in S : x >= y
  BY <1>4, <1>5
<1> QED
  BY <1>6 DEF Max

\* The library's Min of a non-empty set of naturals is an element of it and a lower
\* bound: what Intact rests on.
LEMMA MinOfNaturals ==
    ASSUME NEW S \in SUBSET Nat, S # {}
    PROVE  /\ Min(S) \in S
           /\ \A x \in S : Min(S) <= x
<1>1. IsWellFoundedOn(OpToRel(<, Nat), Nat)
  BY NatLessThanWellFounded
<1>2. PICK m \in S : \A y \in S : ~(<<y, m>> \in OpToRel(<, Nat))
  BY <1>1, WFMin
<1>3. \A y \in S : m <= y
  <2> SUFFICES ASSUME NEW y \in S, y < m PROVE FALSE
    OBVIOUS
  <2>1. <<y, m>> \in OpToRel(<, Nat)
    BY DEF OpToRel
  <2> QED BY <1>2, <2>1
<1>4. \E x \in S : \A y \in S : x <= y
  BY <1>3
<1> QED
  BY <1>4 DEF Min

\* MaxLsnOf bounds the LSNs of a set of records and is one of them, or 0.
LEMMA MaxLsnOfRecords ==
    ASSUME NEW R \in SUBSET Record
    PROVE  /\ MaxLsnOf(R) \in 0 .. MaxLsn
           /\ \A r \in R : r.lsn <= MaxLsnOf(R)
           /\ MaxLsnOf(R) = 0 \/ \E r \in R : r.lsn = MaxLsnOf(R)
<1> DEFINE S == {0} \cup {r.lsn : r \in R}
<1>1. MaxLsn \in Nat
  BY RecordAssumption
<1>2. S \in SUBSET (0 .. MaxLsn) /\ S # {}
  BY <1>1 DEF Record, Lsn
<1>3. Max(S) \in S /\ \A x \in S : x <= Max(S)
  BY <1>1, <1>2, MaxOfBounded
<1>4. MaxLsnOf(R) = Max(S)
  BY DEF MaxLsnOf
<1> HIDE DEF S
<1>5. MaxLsnOf(R) \in S /\ \A x \in S : x <= MaxLsnOf(R)
  BY <1>3, <1>4
<1> QED
  BY <1>2, <1>5 DEF S

\* Adding a record raises the highest LSN to its own, if that is higher.
LEMMA MaxLsnOfAdd ==
    ASSUME NEW R \in SUBSET Record, NEW r \in Record
    PROVE  MaxLsnOf(R \cup {r}) = IF r.lsn > MaxLsnOf(R) THEN r.lsn ELSE MaxLsnOf(R)
<1> DEFINE S == R \cup {r}
<1>1. S \in SUBSET Record
  OBVIOUS
<1>2. /\ MaxLsnOf(R) \in 0 .. MaxLsn
      /\ \A q \in R : q.lsn <= MaxLsnOf(R)
      /\ MaxLsnOf(R) = 0 \/ \E q \in R : q.lsn = MaxLsnOf(R)
  BY MaxLsnOfRecords
<1>3. /\ MaxLsnOf(S) \in 0 .. MaxLsn
      /\ \A q \in S : q.lsn <= MaxLsnOf(S)
      /\ MaxLsnOf(S) = 0 \/ \E q \in S : q.lsn = MaxLsnOf(S)
  BY <1>1, MaxLsnOfRecords
<1>4. \A q \in Record : q.lsn \in Nat
  BY RecordAssumption DEF Record, Lsn
<1> QED
  BY <1>2, <1>3, <1>4, RecordAssumption

------------------------------------------------------------------------------
(* Sequences.                                                               *)

\* Appending to a sequence adds the element to its range.
LEMMA RangeOfAppend ==
    ASSUME NEW T, NEW s \in Seq(T), NEW e \in T
    PROVE  Range(Append(s, e)) = Range(s) \cup {e}
<1>1. /\ DOMAIN Append(s, e) = 1 .. Len(s) + 1
      /\ \A i \in 1 .. Len(s) : Append(s, e)[i] = s[i]
      /\ Append(s, e)[Len(s) + 1] = e
      /\ DOMAIN s = 1 .. Len(s)
      /\ Len(s) \in Nat
  OBVIOUS
<1>2. ASSUME NEW y \in Range(Append(s, e)) PROVE y \in Range(s) \cup {e}
  <2>1. PICK i \in 1 .. Len(s) + 1 : y = Append(s, e)[i]
    BY <1>1, <1>2 DEF Range
  <2>2. CASE i \in 1 .. Len(s)
    BY <1>1, <2>1, <2>2 DEF Range
  <2>3. CASE i = Len(s) + 1
    BY <1>1, <2>1, <2>3
  <2> QED BY <1>1, <2>1, <2>2, <2>3
<1>3. ASSUME NEW y \in Range(s) PROVE y \in Range(Append(s, e))
  <2>1. PICK i \in 1 .. Len(s) : y = s[i]
    BY <1>1, <1>3 DEF Range
  <2> QED BY <1>1, <2>1 DEF Range
<1>4. e \in Range(Append(s, e))
  <2>1. Len(s) + 1 \in DOMAIN Append(s, e)
    BY <1>1
  <2> QED BY <1>1, <2>1 DEF Range
<1> QED
  BY <1>2, <1>3, <1>4

\* The first n elements of a sequence.
LEMMA PrefixOfSeq ==
    ASSUME NEW T, NEW f \in Seq(T), NEW n \in 0 .. Len(f)
    PROVE  /\ SubSeq(f, 1, n) \in Seq(T)
           /\ Len(SubSeq(f, 1, n)) = n
           /\ \A i \in 1 .. n : SubSeq(f, 1, n)[i] = f[i]
<1>1. /\ Len(f) \in Nat
      /\ \A i \in 1 .. Len(f) : f[i] \in T
  OBVIOUS
<1>2. n \in Int /\ 1 \in Int /\ \A i \in 1 .. n : f[i] \in T
  BY <1>1
<1>3. /\ SubSeq(f, 1, n) \in Seq(T)
      /\ Len(SubSeq(f, 1, n)) = IF 1 <= n THEN n - 1 + 1 ELSE 0
      /\ \A i \in 1 .. n - 1 + 1 : SubSeq(f, 1, n)[i] = f[1 + i - 1]
  BY <1>2, SubSeqProperties
<1>4. n \in Nat /\ n - 1 + 1 = n /\ \A i \in 1 .. n : 1 + i - 1 = i
  BY <1>1
<1> QED
  BY <1>3, <1>4

==============================================================================
