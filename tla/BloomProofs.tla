----------------------------- MODULE BloomProofs -----------------------------
(***************************************************************************)
(* Proofs about Bloom.tla, for every width, salt and hash.                 *)
(***************************************************************************)
EXTENDS Bloom, TLAPS

\* A quotient is below the divisor's multiple that bounds the dividend.
LEMMA QuotientBelow ==
  ASSUME NEW a \in Nat, NEW d \in Nat \ {0}, NEW n \in Nat, a < d * n
  PROVE  a \div d \in Nat /\ a \div d < n
<1> DEFINE q == a \div d
<1>1. q \in Nat /\ d * q <= a
  BY Z3
<1>2. d * q < d * n
  BY <1>1
<1>3. q < n
  BY <1>1, <1>2, Z3
<1> QED
  BY <1>1, <1>3

\* block_index stays within the filter: might_contain's read of
\* words[block * WORDS_PER_BLOCK + i] is in bounds for every hash and block count.
THEOREM BlockIndexInBounds ==
  ASSUME NEW k \in Hashed, NEW n \in Nat \ {0}
  PROVE  BlockIndex(Hash[k], n) \in 0 .. n - 1
<1>1. /\ Hash[k].hi \in Nat
      /\ Hash[k].hi <= Half - 1
      /\ Half \in Nat \ {0}
  BY BloomAssumption
<1> DEFINE hi == Hash[k].hi
<1>2. hi * n \in Nat
  BY <1>1
<1>3. hi * n < Half * n
  BY <1>1, Z3
<1>4. (hi * n) \div Half \in Nat /\ (hi * n) \div Half < n
  BY <1>1, <1>2, <1>3, QuotientBelow
<1> QED
  BY <1>4 DEF BlockIndex

\* The word of a block splits back into the block and its place in it.
LEMMA WordSplits ==
  ASSUME NEW b \in Nat, NEW w \in Nat \ {0}, NEW i \in 0 .. w - 1
  PROVE  /\ (b * w + i) \div w = b
         /\ (b * w + i) % w = i
<1> DEFINE j == b * w + i
           q == j \div w
           r == j % w
<1>1. b * w \in Nat /\ j \in Nat
  OBVIOUS
<1>2. q \in Nat /\ r \in Nat /\ r < w /\ j = w * q + r
  BY <1>1, Z3
<1>3. w * b + i = w * q + r
  BY <1>2
<1>4. q = b
  <2>1. ASSUME q < b PROVE FALSE
    <3>1. w * q + w <= w * b
      BY <1>2, <2>1, Z3
    <3> QED
      BY <1>2, <1>3, <3>1, Z3
  <2>2. ASSUME b < q PROVE FALSE
    <3>1. w * b + w <= w * q
      BY <1>2, <2>2, Z3
    <3> QED
      BY <1>2, <1>3, <3>1, Z3
  <2> QED
    BY <1>2, <2>1, <2>2
<1>5. r = i
  BY <1>2, <1>3, <1>4, Z3
<1> QED
  BY <1>4, <1>5

\* A bloom never dismisses a file that holds the key: whatever the block count, the
\* blob the writer built over the file's keys parses, and might_contain accepts each
\* of them.  This is what makes BloomMayContain safe to prune by.
THEOREM NoFalseNegatives ==
  ASSUME NEW S \in SUBSET Hashed, NEW k \in S, NEW n \in Nat \ {0}
  PROVE  LET parsed == FromBase64(Built(n, S), n * WordsPerBlock)
         IN  parsed # {} /\ \A b \in parsed : MightContain(b, k)
<1> DEFINE w == WordsPerBlock
           block == BlockIndex(Hash[k], n)
<1>1. w \in Nat \ {0}
  BY BloomAssumption
<1>2. /\ block \in Nat
      /\ block <= n - 1
  BY BlockIndexInBounds
<1>3. (n * w) \div w = n /\ (n * w) % w = 0 /\ n * w # 0
  <2>1. 0 \in 0 .. w - 1
    BY <1>1
  <2>2. (n * w + 0) \div w = n /\ (n * w + 0) % w = 0
    BY <1>1, <2>1, WordSplits
  <2>3. n * w # 0 /\ n * w + 0 = n * w
    BY <1>1, Z3
  <2> QED
    BY <2>2, <2>3
<1> DEFINE b == [words |-> Built(n, S), num_blocks |-> n]
<1>4. FromBase64(Built(n, S), n * WordsPerBlock) = {b}
  BY <1>3 DEF FromBase64
<1>5. SUFFICES ASSUME NEW i \in 0 .. w - 1
               PROVE  MaskBit(Hash[k], i) \in Built(n, S)[block * w + i]
  <2>1. b.words = Built(n, S) /\ b.num_blocks = n
    OBVIOUS
  <2>2. MightContain(b, k)
    BY <2>1 DEF MightContain
  <2> HIDE DEF b
  <2> QED
    BY <1>4, <2>2
<1> DEFINE j == block * w + i
<1>6. j \div w = block /\ j % w = i
  BY <1>1, <1>2, WordSplits
<1>7. j \in 0 .. n * w - 1
  <2>1. block * w + w <= n * w
    BY <1>1, <1>2, Z3
  <2>2. n * w \in Nat /\ block * w \in Nat
    BY <1>1, <1>2
  <2> QED
    BY <1>1, <2>1, <2>2
<1>8. k \in {l \in S : BlockIndex(Hash[l], n) = j \div w}
  BY <1>6
<1>9. Built(n, S)[j] = {MaskBit(Hash[l], j % w) : l \in {m \in S : BlockIndex(Hash[m], n) = j \div w}}
  BY <1>7 DEF Built
<1> QED
  BY <1>6, <1>8, <1>9
==============================================================================
