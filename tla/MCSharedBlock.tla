--------------------------- MODULE MCSharedBlock ---------------------------
EXTENDS SharedBlock, TLC
CONSTANTS a1, a2, a3, v0, v1
Symmetric == Permutations(Agents)
=============================================================================
