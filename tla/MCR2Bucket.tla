----------------------------- MODULE MCR2Bucket -----------------------------
(* Small instances of R2Bucket for TLC.                                    *)
EXTENDS R2Bucket, TLC

CONSTANT MaxSelected  \* the longest list of parts a completion names

MCSelections == UNION {[1..n -> SelectedPart] : n \in 0..MaxSelected}

(* Blobs, uploads, keys and readers are interchangeable in every safety    *)
(* property.                                                               *)
Symmetry == Permutations(Blobs) \cup Permutations(Uploads)
              \cup Permutations(Keys) \cup Permutations(Readers)
=============================================================================
