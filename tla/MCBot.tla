------------------------------- MODULE MCBot -------------------------------
(* Bot with the symmetry of its workers, for TLC. *)
EXTENDS Bot, TLC

WorkerSymmetry == Permutations(Workers)
=============================================================================
