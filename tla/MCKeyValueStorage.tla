------------------------- MODULE MCKeyValueStorage -------------------------
(* Instances of KeyValueStorage for TLC.                                   *)
EXTENDS KeyValueStorage, TLC

(* Keys are ordered, blobs and readers are interchangeable.                *)
Symmetry == Permutations(Blobs) \cup Permutations(Readers)
=============================================================================
