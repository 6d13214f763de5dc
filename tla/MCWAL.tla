------------------------------- MODULE MCWAL -------------------------------
EXTENDS WAL, TLC

IdSymmetry == Permutations(Id)
=============================================================================
