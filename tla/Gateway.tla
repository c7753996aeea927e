------------------------------ MODULE Gateway ------------------------------
(***************************************************************************)
(* The gateway at work: requests pass the middleware, edit roles,          *)
(* employees, categories and products, import the nomenclature with iiko's *)
(* token, place, pay and submit orders, all over the same tables and       *)
(* several at a time.  Meanwhile tokens expire and iiko's nomenclature is  *)
(* edited.                                                                 *)
(***************************************************************************)
EXTENDS Pricing, Access

CONSTANTS
  MaxRequests,   \* bound: how many requests come
  MaxEdits       \* bound: how often iiko's nomenclature is edited

ASSUME GatewayBoundsAssumption == MaxRequests \in Nat /\ MaxEdits \in Nat

VARIABLES
  taken,    \* how many requests have come
  edits     \* how often the nomenclature was edited

boundVars == <<mix, taken, edits>>

gatewayVars == <<pc, tokenVars, catalogueVars, pricingVars, accessVars, boundVars>>

GatewayInit ==
  /\ pc = [r \in Req |-> "idle"]
  /\ mix \in Mixes
  /\ TokenInit /\ CatalogueInit /\ PricingInit /\ AccessInit
  /\ taken = 0
  /\ edits = 0

\* A request that returns is forgotten by the middleware.
Served(r) == IF pc'[r] = "idle" THEN Forget(r) ELSE UNCHANGED visit

Request(r) ==
  /\ taken < MaxRequests
  /\ taken' = taken + 1
  /\ \E op \in mix \cap Op : Arrive(r, op)
  /\ UNCHANGED <<tokenVars, catalogueVars, pricingVars, mix, edits>>

AccessTurn(r) ==
  AccessStep(r) /\ UNCHANGED <<tokenVars, catalogueVars, pricingVars>>

TokenTurn(r) ==
  TokenStep(r) /\ UNCHANGED <<catalogueVars, pricingVars, accessVars>>

\* iiko acts on a call: it answers an import with the nomenclature of this
\* moment, and accepts the order that is submitted.
IikoTurn(r) ==
  /\ AskServed(r)
  /\ fetched' = IF client[r].back = "import"
                  THEN [fetched EXCEPT ![r] = Listing(visit[r].op)] ELSE fetched
  /\ TicketAccepted(r)
  /\ UNCHANGED <<nomenclature, rows, edited, orders, bill, charged, drifted,
                 accessVars>>

CatalogueTurn(r) ==
  /\ CatalogueStep(r)
  /\ Served(r)
  /\ PricesMove
  /\ UNCHANGED <<orders, bill, charged, kitchen, tables>>

PricingTurn(r) ==
  /\ PricingStep(r)
  /\ Served(r)
  /\ UNCHANGED <<catalogueVars, tables>>

\* What a request does after it has come.
Handler(r) ==
  /\ \/ AccessTurn(r) \/ TokenTurn(r) \/ IikoTurn(r)
     \/ CatalogueTurn(r) \/ PricingTurn(r)
  /\ UNCHANGED boundVars

TokenExpires ==
  /\ \E t \in Token : Expire(t)
  /\ UNCHANGED <<catalogueVars, pricingVars, accessVars, boundVars>>

NomenclatureEdited ==
  /\ edits < MaxEdits
  /\ edits' = edits + 1
  /\ \E i \in Item : IikoEdits(i)
  /\ UNCHANGED <<pc, tokenVars, pricingVars, accessVars, mix, taken>>

\* The server restarts: the requests are gone, the rows stay.
GatewayCrash ==
  /\ MayFail("crash")
  /\ pc' = [r \in Req |-> "idle"]
  /\ client' = [r \in Req |-> NoCall]
  /\ served' = [r \in Req |-> 0]
  /\ fetched' = [r \in Req |-> <<>>]
  /\ bill' = [r \in Req |-> NoBill]
  /\ visit' = [r \in Req |-> NoVisit]
  /\ UNCHANGED <<stored, issued, expired, nomenclature, rows, edited, orders,
                 charged, kitchen, drifted, tables, boundVars>>

GatewayNext ==
  \/ \E r \in Req : Request(r) \/ Handler(r)
  \/ TokenExpires \/ NomenclatureEdited \/ GatewayCrash

GatewaySpec == GatewayInit /\ [][GatewayNext]_gatewayVars

----------------------------------------------------------------------------
\* Every variable keeps its type.
GatewayTypeOK ==
  /\ pc \in [Req -> {"idle"} \cup TokenPC \cup CataloguePC \cup PricingPC
                      \cup AccessPC]
  /\ TokenTypeOK /\ CatalogueTypeOK /\ PricingTypeOK /\ AccessTypeOK
  /\ mix \in Mixes /\ taken \in 0 .. MaxRequests /\ edits \in 0 .. MaxEdits
=============================================================================
