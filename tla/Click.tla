------------------------------- MODULE Click -------------------------------
(***************************************************************************)
(* Paying with Click: the order service registers an invoice for a new     *)
(* order, and Click then calls Prepare and Complete for every attempt to   *)
(* pay it.  Complete's handler calls ShopComplete, which pays, cooks, sends*)
(* and announces the order, and then writes both statuses once more.       *)
(***************************************************************************)
EXTENDS OrderFlow

CONSTANT Outcomes   \* bound: how attempts end, "success" or "failure"

ASSUME OutcomesAssumption == Outcomes \subseteq {"success", "failure"}

VARIABLES
  invoice,    \* invoice[o]: status of the invoices row of o, "none" if absent
  linked,     \* the orders whose payment_url is set
  prepared,   \* the orders with an attempt that Prepare accepted
  outcome,    \* outcome[p]: what the Complete that p handles reports
  charged     \* history: the orders for which Click reported success

clickVars == <<invoice, linked, prepared, outcome, charged>>
clickAllVars == <<table, orders, paidOnce, pc, job, submitted, told,
                  invoice, linked, prepared, outcome, charged>>

NoOutcome == "none"

ClickInit ==
  /\ RepoInit
  /\ FlowInit
  /\ invoice = [o \in Order |-> "none"]
  /\ linked = {}
  /\ prepared = {}
  /\ outcome = [p \in Proc |-> NoOutcome]
  /\ charged = {}

----------------------------------------------------------------------------
(* The statements on invoices; a row is found by the order's number        *)

\* INSERT ... ON CONFLICT (merchant_trans_id) DO UPDATE: the row waits again.
CreateInvoice(o) == invoice' = [invoice EXCEPT ![o] = "waiting"]

\* The attempt's ids are stored in the row, if there is one; its status stays.
UpsertPrepare(o) == invoice[o] # "none" /\ prepared' = prepared \cup {o}

\* One UPDATE in a transaction of its own, whatever the status was.
UpdateOnComplete(o) == invoice' = [invoice EXCEPT ![o] = "paid"]

----------------------------------------------------------------------------
(* Create, for an order that is paid with Click                            *)

\* The INSERT of the order; reading it back may fail.
PlaceOrder(p, o) ==
  /\ orders[o].method = "CLICK"
  /\ Insert(o)
  /\ Start(p, "checkout_prepare", JobFor(o))
  /\ UNCHANGED <<submitted, told, clickVars>>

\* Click's checkout/prepare, which Click may refuse or not answer: the order
\* stays and cannot be paid.
CheckoutPrepare(p) ==
  /\ At(p, "checkout_prepare")
  /\ Goto(p, "invoice_insert") \/ Goto(p, "idle")
  /\ UNCHANGED <<repoVars, submitted, told, clickVars>>

InvoiceInsertUnchecked(p) ==
  /\ At(p, "invoice_insert")
  /\ \/ CreateInvoice(Ord(p))
     \/ "db" \in Faults /\ UNCHANGED invoice
  /\ Goto(p, "add_link")
  /\ UNCHANGED <<repoVars, submitted, told, linked, prepared, outcome,
                 charged>>

\* Create gives up when the invoice cannot be stored.
InvoiceInsert(p) ==
  /\ At(p, "invoice_insert")
  /\ \/ /\ CreateInvoice(Ord(p))
        /\ Goto(p, "add_link")
     \/ "db" \in Faults /\ UNCHANGED invoice /\ Goto(p, "idle")
  /\ UNCHANGED <<repoVars, submitted, told, linked, prepared, outcome,
                 charged>>

\* AddLink; the client gets the link with the answer.
AddLink(p) ==
  /\ At(p, "add_link")
  /\ \/ linked' = linked \cup {Ord(p)}
     \/ "db" \in Faults /\ UNCHANGED linked
  /\ Goto(p, "idle")
  /\ UNCHANGED <<repoVars, submitted, told, invoice, prepared, outcome,
                 charged>>

----------------------------------------------------------------------------
\* ShopPrepare: an attempt for the amount of an invoice that exists.
ShopPrepare(o) ==
  /\ o \in linked
  /\ UpsertPrepare(o)
  /\ UNCHANGED <<repoVars, flowVars, invoice, linked, outcome, charged>>

----------------------------------------------------------------------------
(* Complete                                                                *)

CompleteUnexamined(p, o, r) ==
  /\ o \in prepared
  /\ Start(p, "shop_invoice", JobFor(o))
  /\ outcome' = [outcome EXCEPT ![p] = r]
  /\ charged' = IF r = "success" THEN charged \cup {o} ELSE charged
  /\ UNCHANGED <<repoVars, submitted, told, invoice, linked, prepared>>

\* ShopComplete up to the invoice it reads and Click's error code.
Complete(p, o, r) ==
  /\ o \in prepared
  /\ Start(p, IF r = "success" THEN "shop_invoice" ELSE "shop_fail",
           JobFor(o))
  /\ outcome' = [outcome EXCEPT ![p] = r]
  /\ charged' = IF r = "success" THEN charged \cup {o} ELSE charged
  /\ UNCHANGED <<repoVars, submitted, told, invoice, linked, prepared>>

\* The handler returns.
Return(p) == Goto(p, "idle") /\ outcome' = [outcome EXCEPT ![p] = NoOutcome]

\* A failed attempt makes the order UNPAID, whatever it was.
ShopFail(p) ==
  /\ At(p, "shop_fail")
  /\ PaymentOrIgnore(Ord(p), "UNPAID")
  /\ Goto(p, "handler_read")
  /\ UNCHANGED <<submitted, told, clickVars>>

\* The invoice is PAID, also when it was before.
ShopInvoice(p) ==
  /\ At(p, "shop_invoice")
  /\ \/ /\ UpdateOnComplete(Ord(p))
        /\ Goto(p, "shop_pay")
        /\ UNCHANGED outcome
     \/ "db" \in Faults /\ UNCHANGED invoice /\ Return(p)
  /\ UNCHANGED <<repoVars, submitted, told, linked, prepared, charged>>

ShopPayForgotten(p) ==
  /\ At(p, "shop_pay")
  /\ Goto(p, "shop_cook")
  /\ UNCHANGED <<repoVars, submitted, told, clickVars>>

\* payment_status = PAID; on an error the handler gives up.
ShopPay(p) ==
  /\ At(p, "shop_pay")
  /\ \/ /\ WritePayment(Ord(p), "PAID")
        /\ Goto(p, "shop_cook")
        /\ UNCHANGED outcome
     \/ StatementFails(Ord(p)) /\ Return(p)
  /\ UNCHANGED <<submitted, told, invoice, linked, prepared, charged>>

ShopCookUnsent(p) ==
  /\ At(p, "shop_cook")
  /\ StatusOrIgnore(Ord(p), "COOKING")
  /\ pc' = [pc EXCEPT ![p] = "claim"]
  /\ job' = [job EXCEPT ![p].status = "COOKING",
                        ![p].afterNotify = "handler_read"]
  /\ UNCHANGED <<submitted, told, clickVars>>

\* order_status = COOKING, then the order is sent to iiko and announced.
ShopCook(p) ==
  /\ At(p, "shop_cook")
  /\ StatusOrIgnore(Ord(p), "COOKING")
  /\ pc' = [pc EXCEPT ![p] = "send"]
  /\ job' = [job EXCEPT ![p].status = "COOKING",
                        ![p].afterSend = "claim",
                        ![p].afterNotify = "handler_read"]
  /\ UNCHANGED <<submitted, told, clickVars>>

\* Back in the HTTP handler: GetByMerchantTransID.
HandlerRead(p) ==
  /\ At(p, "handler_read")
  /\ \/ Goto(p, "handler_pay") /\ UNCHANGED outcome
     \/ "db" \in Faults /\ Return(p)
  /\ UNCHANGED <<repoVars, submitted, told, invoice, linked, prepared,
                 charged>>

HandlerPayVerbatim(p) ==
  /\ At(p, "handler_pay")
  /\ PaymentOrIgnore(Ord(p), outcome[p])
  /\ Goto(p, "handler_cook")
  /\ UNCHANGED <<submitted, told, clickVars>>

\* payment_status again: UNPAID if Click reported an error.
HandlerPay(p) ==
  /\ At(p, "handler_pay")
  /\ PaymentOrIgnore(Ord(p),
                     IF outcome[p] = "failure" THEN "UNPAID" ELSE "PAID")
  /\ Goto(p, "handler_cook")
  /\ UNCHANGED <<submitted, told, clickVars>>

\* order_status = COOKING again, whatever Click reported.
HandlerCook(p) ==
  /\ At(p, "handler_cook")
  /\ StatusOrIgnore(Ord(p), "COOKING")
  /\ Return(p)
  /\ UNCHANGED <<submitted, told, invoice, linked, prepared, charged>>

----------------------------------------------------------------------------
ClickRequest(p) ==
  \E o \in Order :
    PlaceOrder(p, o) \/ \E r \in Outcomes : Complete(p, o, r)

ClickStep(p) ==
  \/ CheckoutPrepare(p) \/ InvoiceInsert(p) \/ AddLink(p)
  \/ ShopFail(p) \/ ShopInvoice(p) \/ ShopPay(p) \/ ShopCook(p)
  \/ HandlerRead(p) \/ HandlerPay(p) \/ HandlerCook(p)

ClickCrash ==
  /\ Crash
  /\ outcome' = [p \in Proc |-> NoOutcome]
  /\ UNCHANGED <<invoice, linked, prepared, charged>>

ClickNext ==
  \/ \E o \in Order : ShopPrepare(o)
  \/ \E p \in Proc : \/ ClickRequest(p)
                     \/ ClickStep(p)
                     \/ FlowStep(p) /\ UNCHANGED clickVars
  \/ ClickCrash

ClickSpec == ClickInit /\ [][ClickNext]_clickAllVars

----------------------------------------------------------------------------
(* Properties                                                              *)

\* Every variable keeps its type.
ClickTypeOK ==
  /\ RepoTypeOK
  /\ FlowTypeOK
  /\ invoice \in [Order -> {"none", "waiting", "paid"}]
  /\ linked \subseteq Order
  /\ prepared \subseteq Order
  /\ outcome \in [Proc -> Outcomes \cup {NoOutcome}]
  /\ charged \subseteq Order

\* A client is sent to pay only for an order whose payment Click's callbacks
\* will find: the link is stored after the invoice (Create, CLICK branch).
LinkedHasInvoice == \A o \in linked : invoice[o] # "none"

\* A PAID invoice never leaves its order behind: the order has been PAID, or
\* a goroutine is about to mark it so (UpdateOnComplete and then
\* UpdatePaymentStatus; while no statement fails and no crash).
PaidInvoiceIsPaidOrder ==
  \A o \in Order :
    Stored(o) /\ invoice[o] = "paid" =>
      o \in paidOnce \/ \E p \in Proc : At(p, "shop_pay") /\ Ord(p) = o

\* An order whose payment failed is not prepared: only an order that Click
\* reported as paid is COOKING (the bot promises the client to start cooking
\* when the payment is complete).
CookingOnlyIfCharged ==
  \A o \in Order :
    Stored(o) /\ orders[o].status = "COOKING" => o \in charged

\* What was paid is cooked: an order that Click reported as paid reaches
\* iiko, when nothing fails and it is not deleted.
ChargedReachesKitchen ==
  \A o \in Order : o \in charged ~> submitted[o] > 0 \/ ~Stored(o)
============================================================================
