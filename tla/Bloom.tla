-------------------------------- MODULE Bloom --------------------------------
(***************************************************************************)
(* bloom.rs: the split-block bloom filter of the catalog, probed in        *)
(* memory.  A filter is whole blocks of WordsPerBlock words; a word is the *)
(* set of its bits that are one.  The upper half of a key's hash picks the *)
(* block, the lower half one bit in each word of it.  The widths are       *)
(* parameters: 2^32, 8 words and 32 bits in the code.                      *)
(***************************************************************************)
EXTENDS Naturals

CONSTANTS
    Half,           \* values of one half of the hash
    WordsPerBlock,  \* WORDS_PER_BLOCK
    WordBits,       \* bits of a word; divides Half
    Salt,           \* SBBF_SALT: a number for each word of a block
    Hashed,         \* the keys that have a hash
    Hash            \* hash64, the two murmur3 hashes: key -> [hi, lo]

ASSUME BloomAssumption ==
    /\ WordsPerBlock \in Nat \ {0}
    /\ WordBits \in Nat \ {0}
    /\ Half \in Nat \ {0}
    /\ Half % WordBits = 0
    /\ Salt \in [0 .. WordsPerBlock - 1 -> Nat]
    /\ Hash \in [Hashed -> [hi : 0 .. Half - 1, lo : 0 .. Half - 1]]

\* block_index: multiply and shift.
BlockIndex(hash, num_blocks) == (hash.hi * num_blocks) \div Half

\* compute_mask: the bit of word i, the top bits of a wrapping product.
MaskBit(hash, i) == ((hash.lo * Salt[i]) % Half) \div (Half \div WordBits)

\* CatalogBloom::from_base64: what does not decode into whole blocks is None, the
\* empty set.  A blob is the words it decodes to, numbered from 0.
FromBase64(blob, len) ==
    IF len = 0 \/ len % WordsPerBlock # 0 THEN {}
    ELSE {[words |-> blob, num_blocks |-> len \div WordsPerBlock]}

\* Mutation of MightContain: the probe looks one block too far.
MightContainNextBlock(bloom, k) ==
    LET block == (BlockIndex(Hash[k], bloom.num_blocks) + 1) % bloom.num_blocks
    IN  \A i \in 0 .. WordsPerBlock - 1 :
            MaskBit(Hash[k], i) \in bloom.words[block * WordsPerBlock + i]

\* CatalogBloom::might_contain.
MightContain(bloom, k) ==
    LET block == BlockIndex(Hash[k], bloom.num_blocks)
    IN  \A i \in 0 .. WordsPerBlock - 1 :
            MaskBit(Hash[k], i) \in bloom.words[block * WordsPerBlock + i]

\* The writer in DuckDB, which bloom.rs reproduces: in a filter of n blocks each key
\* of S sets its bit in every word of its block.  It is not in this repository and is
\* written here with the probe's own block and bits, so a probe that drifts from
\* DuckLake's writer does not show.
Built(n, S) ==
    [j \in 0 .. n * WordsPerBlock - 1 |->
        {MaskBit(Hash[k], j % WordsPerBlock) :
            k \in {l \in S : BlockIndex(Hash[l], n) = j \div WordsPerBlock}}]

==============================================================================
