----------------------- MODULE MCLocalFirstRepository -----------------------
EXTENDS LocalFirstRepository, TLC

Symmetric == Permutations(Value) \cup Permutations(Editable)
=============================================================================
