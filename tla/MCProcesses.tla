---------------------------- MODULE MCProcesses ----------------------------
EXTENDS ProcessProps
CONSTANTS k0, d1, d2, d3, d4
MCSymmetry == Permutations(Dirs \ {KernelDir, InitDir})
=============================================================================
