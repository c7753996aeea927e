----------------------------- MODULE Fulfilment -----------------------------
(***************************************************************************)
(* What all the handlers together promise about paying for an order and    *)
(* preparing it, with neither goroutines nor tables: the kitchen (iiko)    *)
(* gets an order that is paid online only after it was paid, and the shop  *)
(* knows an order of the kitchen only by an id the kitchen gave it.        *)
(***************************************************************************)
EXTENDS Naturals

CONSTANT Order

VARIABLES
  online,    \* the orders that are paid online
  paid,      \* the orders that have been paid
  kitchen,   \* kitchen[o]: how many times the kitchen accepted o
  known      \* known[o]: which of these the shop refers to, 0 for none

fulfilmentVars == <<online, paid, kitchen, known>>

Init ==
  /\ online \subseteq Order
  /\ paid = {}
  /\ kitchen = [o \in Order |-> 0]
  /\ known = [o \in Order |-> 0]

Pay(o) ==
  /\ paid' = paid \cup {o}
  /\ UNCHANGED <<online, kitchen, known>>

Prepare(o) ==
  /\ o \in online => o \in paid
  /\ kitchen' = [kitchen EXCEPT ![o] = @ + 1]
  /\ UNCHANGED <<online, paid, known>>

Record(o) ==
  /\ \E i \in 1 .. kitchen[o] : known' = [known EXCEPT ![o] = i]
  /\ UNCHANGED <<online, paid, kitchen>>

Next == \E o \in Order : Pay(o) \/ Prepare(o) \/ Record(o)

Spec == Init /\ [][Next]_fulfilmentVars
=============================================================================
