------------------------------ MODULE MCClick ------------------------------
(***************************************************************************)
(* Click for TLC: goroutines are interchangeable.                          *)
(***************************************************************************)
EXTENDS Click, TLC

Symmetry == Permutations(Proc)
============================================================================
