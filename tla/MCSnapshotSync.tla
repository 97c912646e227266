--------------------------- MODULE MCSnapshotSync ---------------------------
EXTENDS SnapshotSync, TLC

Symmetric == Permutations(Request) \cup Permutations(Unit \ {Syntax})
             \cup Permutations(Slot)
=============================================================================
