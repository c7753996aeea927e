------------------------------ MODULE Checkout ------------------------------
(***************************************************************************)
(* The order service, the Payme endpoint and the Click callbacks at work   *)
(* on the same orders, through the same goroutines.                        *)
(***************************************************************************)
EXTENDS OrderService, Payme, Click

checkoutVars == <<table, orders, paidOnce, pc, job, submitted, told,
                  txn, call, invoice, linked, prepared, outcome, charged>>

CheckoutInit == ServiceInit /\ PaymeInit /\ ClickInit

\* Create: an order that is paid with Click has more steps to take, and is
\* placed by PlaceOrder.
CreateUnlinked(o) ==
  /\ orders[o].method # "CLICK"
  /\ CreateOrder(o)

\* The row of an order that a Payme transaction refers to cannot be deleted.
DeleteUnreferenced(o) ==
  /\ ~\E t \in Txn : txn[t].ord = o
  /\ DeleteOrder(o)

\* The server runs one handler at a time per goroutine, of any component.
ServiceTurn(p) ==
  (ServiceRequest(p) \/ ServiceStep(p)) /\ UNCHANGED <<paymeVars, clickVars>>

PaymeTurn(p) == (PaymeRequest(p) \/ PaymeStep(p)) /\ UNCHANGED clickVars

ClickTurn(p) == (ClickRequest(p) \/ ClickStep(p)) /\ UNCHANGED paymeVars

SharedTurn(p) == FlowStep(p) /\ UNCHANGED <<paymeVars, clickVars>>

CheckoutCrash ==
  /\ ClickCrash
  /\ call' = [p \in Proc |-> NoCall]
  /\ UNCHANGED txn

CheckoutNext ==
  \/ \E o \in Order :
       \/ /\ CreateUnlinked(o) \/ DeleteUnreferenced(o)
          /\ UNCHANGED <<paymeVars, clickVars>>
       \/ ShopPrepare(o) /\ UNCHANGED paymeVars
  \/ \E p \in Proc :
       ServiceTurn(p) \/ PaymeTurn(p) \/ ClickTurn(p) \/ SharedTurn(p)
  \/ CheckoutCrash

CheckoutSpec == CheckoutInit /\ [][CheckoutNext]_checkoutVars

\* What a goroutine that is inside a handler does next.
CheckoutHandler(p) ==
  \/ ServiceStep(p) /\ UNCHANGED <<paymeVars, clickVars>>
  \/ PaymeStep(p) /\ UNCHANGED clickVars
  \/ ClickStep(p) /\ UNCHANGED paymeVars
  \/ SharedTurn(p)

\* A goroutine that has started a handler is scheduled until it returns, and
\* the database and iiko answer (or time out).
CheckoutFairSpec ==
  CheckoutSpec /\ \A p \in Proc : WF_checkoutVars(CheckoutHandler(p))

----------------------------------------------------------------------------
(* Properties                                                              *)

\* Every variable keeps its type.
CheckoutTypeOK == ServiceTypeOK /\ PaymeTypeOK /\ ClickTypeOK

\* The kitchen gets an order that is paid online only if one of the two
\* providers took the money for it, whichever handlers race and whatever
\* fails (PerformTransaction, ShopComplete; while no operator completes an
\* order that is not paid, which counts as paying it).
KitchenOnlyIfTaken ==
  \A o \in Order :
    submitted[o] > 0 /\ orders[o].method \in Online =>
      \/ o \in charged
      \/ \E t \in Txn : txn[t].ord = o /\ txn[t].state \notin {"none", "created"}

\* Between requests, what a client was last told is the order's status, or
\* the order was set to REJECTED, which HandleIikoDeliveryOrderUpdate does in
\* silence, or its payment refunded, which announces nothing either
\* ("Zakaz #%d holati: %s").
ToldOrRefunded ==
  (\A p \in Proc : At(p, "idle")) =>
    \A o \in Order : Stored(o) /\ told[o] # NeverNotified =>
      \/ told[o] = orders[o].status
      \/ orders[o].status = "REJECTED"
      \/ Refunded(o)
=============================================================================
