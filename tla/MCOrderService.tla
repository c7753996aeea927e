--------------------------- MODULE MCOrderService ---------------------------
(***************************************************************************)
(* OrderService for TLC.  Goroutines are interchangeable, so runs without  *)
(* a temporal property are checked up to a permutation of them.            *)
(***************************************************************************)
EXTENDS OrderService, TLC

Symmetry == Permutations(Proc)

============================================================================
