-------------------------- MODULE MCManifestCache --------------------------
EXTENDS ManifestCache, TLC

Symmetry == Permutations(Proc) \cup Permutations(Digest)
=============================================================================
