---------------------------- MODULE MCHashTable ----------------------------
(* Instances of HashTable for TLC: three keys, two of them in one bucket,   *)
(* which is not the first, and an empty bucket between the others.          *)
EXTENDS HashTable, TLC

CONSTANTS k1, k2, k3

CaptureOnly == {"capture"}
SomeKeys == {k1, k2, k3}
SomeHash == (k1 :> 1) @@ (k2 :> 1) @@ (k3 :> 3)
Symmetry == Permutations(Nodes)
=============================================================================
