------------------------------ MODULE Requests ------------------------------
(***************************************************************************)
(* The goroutines in which gin runs the requests of the gateway: each runs *)
(* one statement, or one HTTP call, per step.                              *)
(***************************************************************************)
EXTENDS Naturals

CONSTANTS
  Req,     \* requests that may be served at the same time
  Mixes    \* bound: what may happen in one behaviour

VARIABLES
  pc,      \* pc[r]: what request r does next
  mix      \* the requests that come in this behaviour, what else happens
           \* ("expire", "edit"), what may fail ("db", "iiko", "crash") and
           \* what the database lacks at first ("no_token", "no_rows")

At(r, l) == pc[r] = l

Goto(r, l) == pc' = [pc EXCEPT ![r] = l]

\* The partial function f with v for x, and f completed by g.
Put(f, x, v) == [y \in DOMAIN f \cup {x} |-> IF y = x THEN v ELSE f[y]]

OrElse(f, g) ==
  [x \in DOMAIN f \cup DOMAIN g |-> IF x \in DOMAIN f THEN f[x] ELSE g[x]]

\* A value that no row of the database has.
NoValue == "NULL"

MayFail(kind) == kind \in mix
=============================================================================
