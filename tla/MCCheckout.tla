----------------------------- MODULE MCCheckout -----------------------------
(***************************************************************************)
(* Checkout for TLC: goroutines and transactions are interchangeable, so   *)
(* runs without a temporal property are checked up to a permutation.       *)
(***************************************************************************)
EXTENDS Checkout, TLC

Symmetry == Permutations(Proc) \cup Permutations(Txn)
=============================================================================
