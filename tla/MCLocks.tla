------------------------------ MODULE MCLocks ------------------------------
EXTENDS Locks
CONSTANTS k0, d1, d2, d3, d4
MCWaitQueues == {<<"lock", l>> : l \in 1 .. MaxLocks}
MCSymmetry == Permutations(Dirs \ {KernelDir, InitDir})
=============================================================================
