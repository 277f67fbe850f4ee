----------------------------- MODULE MCR2Backup -----------------------------
(* A small instance of R2Backup for TLC.                                   *)
EXTENDS R2Backup, TLC

CONSTANT MaxSelected  \* the longest list of parts a completion names

MCSelections == UNION {[1..n -> SelectedPart] : n \in 0..MaxSelected}

Symmetry == Permutations(Blobs)
=============================================================================
