---------------------------- MODULE MCBlobCache ----------------------------
EXTENDS BlobCache

BlobNames == {"a", "b", "c"}
FittingBlobs == {"a", "b"}
BlobSize  == [k \in Key |-> CASE k = "a" -> 1 [] k = "b" -> 2 [] k = "c" -> 3]
Symmetry  == Permutations(Proc)
=============================================================================
