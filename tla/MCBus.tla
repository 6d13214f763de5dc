------------------------------- MODULE MCBus -------------------------------
EXTENDS IPCBus, TLC

IdSymmetry == Permutations(Id)
=============================================================================
