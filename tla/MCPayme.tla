------------------------------ MODULE MCPayme ------------------------------
(***************************************************************************)
(* Payme for TLC: goroutines and transactions are interchangeable.         *)
(***************************************************************************)
EXTENDS Payme, TLC

Symmetry == Permutations(Proc) \cup Permutations(Txn)
============================================================================
