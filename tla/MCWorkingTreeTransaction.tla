---------------------- MODULE MCWorkingTreeTransaction ----------------------
EXTENDS WorkingTreeTransaction, TLC

Symmetric == Permutations(Path) \cup Permutations(Value)
=============================================================================
