----------------------------- MODULE MCBlockCache ------------------------------
\* More blocks than slots, and accesses nested until no slot is left.
EXTENDS BlockCache, TLC

Bits == {0, 1}
Symmetry == Permutations(Blocks)
=============================================================================
