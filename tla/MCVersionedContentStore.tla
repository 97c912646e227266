---------------------- MODULE MCVersionedContentStore -----------------------
EXTENDS VersionedContentStore, TLC

Symmetric == Permutations(Contents) \cup Permutations(Proc)
=============================================================================
