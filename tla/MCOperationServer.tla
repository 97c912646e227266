-------------------------- MODULE MCOperationServer --------------------------
EXTENDS OperationServer, TLC

Symmetric == Permutations(Contents)
=============================================================================
