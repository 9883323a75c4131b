------------------------------ MODULE MCLogFile ------------------------------
EXTENDS LogFile, TLC
Symmetry == Permutations(Logs)
=============================================================================
