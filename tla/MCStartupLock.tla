--------------------------- MODULE MCStartupLock ---------------------------
(* Instances of StartupLock for TLC.                                       *)
EXTENDS StartupLock, TLC

Symmetry == Permutations(Procs)
=============================================================================
