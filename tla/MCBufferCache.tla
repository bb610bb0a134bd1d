--------------------------- MODULE MCBufferCache ----------------------------
EXTENDS BufferCache, TLC

MCSymmetry == Permutations(Proc) \cup Permutations(Sector) \cup Permutations(Val)
=============================================================================
