------------------------------ MODULE MCMemory ------------------------------
EXTENDS Memory

Seg(va, filesz, memsz) == [va |-> va, filesz |-> filesz, memsz |-> memsz]
MCPrograms == {<<Seg(0, 1, 2)>>, <<Seg(0, 3, 3), Seg(4, 0, 1)>>}
MCDeltas == {-2, 3, 20}
=============================================================================
