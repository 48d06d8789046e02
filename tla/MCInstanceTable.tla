---- MODULE MCInstanceTable ----
EXTENDS InstanceTable, TLC
CONSTANTS i1, i2, w1, p1, a1, a2
Symmetric == Permutations(Isolates) \cup Permutations(Heap)
====
