------------------------------- MODULE MCPipe -------------------------------
EXTENDS Pipe, TLC

MCSymmetry == Permutations(Writers) \cup Permutations(Readers) \cup Permutations(Byte)
=============================================================================
