------------------------------- MODULE Payme -------------------------------
(***************************************************************************)
(* The Payme merchant endpoint.  Paycom opens a transaction for an order,  *)
(* performs it when the client has paid and cancels it when it has not, or *)
(* to refund.  Paycom calls again when an answer is late, so two calls for *)
(* one transaction may run at once.                                        *)
(***************************************************************************)
EXTENDS OrderFlow

CONSTANTS
  Txn,     \* paycom_transaction_ids
  NoTxn    \* the transaction of a goroutine that serves no Payme call

ASSUME NoTxnAssumption == NoTxn \notin Txn

\* StateCreated, StatePerformed, StateCanceledCreated and
\* StateCanceledPerformed (1, 2, -1, -2); "none": there is no such row.
Canceled == {"canceled_created", "canceled_performed"}
TxnState == {"none", "created", "performed"} \cup Canceled

VARIABLES
  txn,    \* txn[t]: the row of t in payme_transactions
  call    \* call[p]: the transaction p works on, the state it will write

paymeVars == <<txn, call>>
paymeAllVars == <<table, orders, paidOnce, pc, job, submitted, told, txn,
                  call>>

NoCall == [txn |-> NoTxn, state |-> "none"]

PaymeInit ==
  /\ RepoInit
  /\ FlowInit
  /\ txn = [t \in Txn |-> [ord |-> NoOrder, state |-> "none"]]
  /\ call = [p \in Proc |-> NoCall]

Call(p, t, st) == call' = [call EXCEPT ![p] = [txn |-> t, state |-> st]]

Hangup(p) == call' = [call EXCEPT ![p] = NoCall]

----------------------------------------------------------------------------
(* CreateTransaction                                                       *)

\* A transaction may be opened only for an order that waits for payment.
AcceptsPayment(o) == Stored(o) /\ orders[o].status = "WAITING_PAYMENT"

\* GetByOrderNumber and the checks on the order it returned.
CreateTransaction(p, t, o) ==
  /\ AcceptsPayment(o)
  /\ Start(p, "create_lookup", JobFor(o))
  /\ Call(p, t, "created")
  /\ UNCHANGED <<repoVars, submitted, told, txn>>

\* GetByPaycomTransactionID: a transaction that is known is answered as it
\* is; any error, not only "not found", goes on to the insert.
CreateLookup(p) ==
  /\ At(p, "create_lookup")
  /\ \/ /\ txn[call[p].txn].state # "none"
        /\ Goto(p, "idle")
        /\ Hangup(p)
     \/ /\ txn[call[p].txn].state = "none" \/ "db" \in Faults
        /\ Goto(p, "create_insert")
        /\ UNCHANGED call
  /\ UNCHANGED <<repoVars, submitted, told, txn>>

\* payme_one_active_per_order_uq: one transaction in state 1 per order.
ActiveFor(o) == \E t \in Txn : txn[t].ord = o /\ txn[t].state = "created"

InsertIndexed(t, o) ==
  /\ txn[t].state = "none"
  /\ Stored(o)
  /\ ~ActiveFor(o)

InsertUnindexed(t, o) ==
  /\ txn[t].state = "none"
  /\ Stored(o)

\* The INSERT goes through: no such id, the order's row exists, no active one.
Insertable(t, o) == InsertIndexed(t, o)

\* INSERT ... ON CONFLICT (paycom_transaction_id) DO UPDATE SET updated_at.
\* An id that is known, or an error, leaves the transactions as they are.
CreateInsert(p) ==
  LET t == call[p].txn IN
  /\ At(p, "create_insert")
  /\ \/ /\ Insertable(t, Ord(p))
        /\ txn' = [txn EXCEPT ![t] = [ord |-> Ord(p), state |-> "created"]]
     \/ /\ ~Insertable(t, Ord(p)) \/ "db" \in Faults
        /\ UNCHANGED txn
  /\ Goto(p, "idle")
  /\ Hangup(p)
  /\ UNCHANGED <<repoVars, submitted, told>>

----------------------------------------------------------------------------
(* PerformTransaction                                                      *)

PerformableIfCanceled(st) == st # "none" /\ st # "performed"

\* State 2 is answered at once (it was done before), states below 0 refused.
Performable(st) == st = "created"

PerformUnmarked(p, t) ==
  /\ Performable(txn[t].state)
  /\ Start(p, "perform_pay", JobFor(txn[t].ord))
  /\ Call(p, t, "performed")
  /\ UNCHANGED <<repoVars, submitted, told, txn>>

\* GetByPaycomTransactionID and the checks on the state it returned.
PerformTransaction(p, t) ==
  /\ Performable(txn[t].state)
  /\ Start(p, "mark_performed", JobFor(txn[t].ord))
  /\ Call(p, t, "performed")
  /\ UNCHANGED <<repoVars, submitted, told, txn>>

\* UPDATE payme_transactions SET state: whatever the state is by now.
SetTxnState(p) ==
  txn' = [txn EXCEPT ![call[p].txn].state = call[p].state]

MarkPerformed(p) ==
  /\ At(p, "mark_performed")
  /\ \/ SetTxnState(p) /\ Goto(p, "perform_pay") /\ UNCHANGED call
     \/ "db" \in Faults /\ Goto(p, "idle") /\ Hangup(p) /\ UNCHANGED txn
  /\ UNCHANGED <<repoVars, submitted, told>>

PerformPayForgotten(p) ==
  /\ At(p, "perform_pay")
  /\ Goto(p, "perform_cook")
  /\ UNCHANGED <<repoVars, submitted, told, paymeVars>>

\* payment_status = PAID; its error is dropped.
PerformPay(p) ==
  /\ At(p, "perform_pay")
  /\ PaymentOrIgnore(Ord(p), "PAID")
  /\ Goto(p, "perform_cook")
  /\ UNCHANGED <<submitted, told, paymeVars>>

PerformCookUnsent(p) ==
  /\ At(p, "perform_cook")
  /\ StatusOrIgnore(Ord(p), "COOKING")
  /\ pc' = [pc EXCEPT ![p] = "claim"]
  /\ job' = [job EXCEPT ![p].status = "COOKING"]
  /\ Hangup(p)
  /\ UNCHANGED <<submitted, told, txn>>

\* order_status = COOKING, its error is dropped; then the order is sent to
\* iiko and the client is told, and neither can fail the call.
PerformCook(p) ==
  /\ At(p, "perform_cook")
  /\ StatusOrIgnore(Ord(p), "COOKING")
  /\ pc' = [pc EXCEPT ![p] = "send"]
  /\ job' = [job EXCEPT ![p].status = "COOKING", ![p].afterSend = "claim"]
  /\ Hangup(p)
  /\ UNCHANGED <<submitted, told, txn>>

----------------------------------------------------------------------------
(* CancelTransaction                                                       *)

\* The state to write is chosen from the state that was read.
CancelTransaction(p, t) ==
  /\ txn[t].state \in {"created", "performed"}
  /\ Start(p, "mark_canceled", JobFor(txn[t].ord))
  /\ Call(p, t, IF txn[t].state = "performed" THEN "canceled_performed"
                ELSE "canceled_created")
  /\ UNCHANGED <<repoVars, submitted, told, txn>>

MarkCanceled(p) ==
  /\ At(p, "mark_canceled")
  /\ \/ /\ SetTxnState(p)
        /\ Goto(p, IF call[p].state = "canceled_performed"
                     THEN "cancel_order" ELSE "idle")
     \/ "db" \in Faults /\ Goto(p, "idle") /\ UNCHANGED txn
  /\ Hangup(p)
  /\ UNCHANGED <<repoVars, submitted, told>>

CancelOrderForgotten(p) ==
  /\ At(p, "cancel_order")
  /\ Goto(p, "idle")
  /\ UNCHANGED <<repoVars, submitted, told, paymeVars>>

\* order_status = CANCELLED; payment_status stays and nobody is told.
CancelOrder(p) ==
  /\ At(p, "cancel_order")
  /\ StatusOrIgnore(Ord(p), "CANCELLED")
  /\ Goto(p, "idle")
  /\ UNCHANGED <<submitted, told, paymeVars>>

----------------------------------------------------------------------------
PaymeRequest(p) ==
  \E t \in Txn :
    \/ PerformTransaction(p, t)
    \/ CancelTransaction(p, t)
    \/ \E o \in Order : CreateTransaction(p, t, o)

PaymeStep(p) ==
  \/ CreateLookup(p) \/ CreateInsert(p)
  \/ MarkPerformed(p) \/ PerformPay(p) \/ PerformCook(p)
  \/ MarkCanceled(p) \/ CancelOrder(p)

\* Orders appear; nothing but Payme changes them in this module.
PaymeNext ==
  \/ \E o \in Order : Insert(o) /\ UNCHANGED <<flowVars, paymeVars>>
  \/ \E p \in Proc : \/ PaymeRequest(p)
                     \/ PaymeStep(p)
                     \/ FlowStep(p) /\ UNCHANGED paymeVars
  \/ Crash /\ call' = [p \in Proc |-> NoCall] /\ UNCHANGED txn

PaymeSpec == PaymeInit /\ [][PaymeNext]_paymeAllVars

----------------------------------------------------------------------------
(* Properties                                                              *)

\* Every variable keeps its type; a Payme handler works on a transaction
\* that exists and on that transaction's order.
PaymeTypeOK ==
  /\ RepoTypeOK
  /\ FlowTypeOK
  /\ txn \in [Txn -> [ord : Order \cup {NoOrder}, state : TxnState]]
  /\ call \in [Proc -> [txn : Txn \cup {NoTxn}, state : TxnState]]

\* Money that Payme has taken is never lost to the order: once a transaction
\* was performed its order has been PAID, or a goroutine is about to mark it
\* so (PerformTransaction; holds while no statement fails and no crash).
PerformedIsPaid ==
  \A t \in Txn :
    txn[t].state \in {"performed", "canceled_performed"} =>
      \/ txn[t].ord \in paidOnce
      \/ \E p \in Proc : At(p, "perform_pay") /\ Ord(p) = txn[t].ord

\* An order is marked PAID only after a transaction of its own was performed,
\* whichever calls race and whatever fails (PerformTransaction).
PaidOnlyByTransaction ==
  \A o \in paidOnce :
    \E t \in Txn : txn[t].ord = o /\ txn[t].state \notin {"none", "created"}

\* An order has at most one transaction that is open or paid: the client is
\* not charged twice ("Transaction already exists",
\* payme_one_active_per_order_uq).
OnePaymentPerOrder ==
  \A t, u \in Txn :
    /\ txn[t].ord = txn[u].ord
    /\ txn[t].state \in {"created", "performed"}
    /\ txn[u].state \in {"created", "performed"}
    => t = u

\* A transaction that was canceled stays canceled, as it was ("Transaction
\* canceled", -31008).
CanceledStaysCanceled ==
  [][\A t \in Txn : txn[t].state \in Canceled => txn'[t] = txn[t]]_txn

\* A payment for o was taken and given back.
Refunded(o) ==
  \E t \in Txn : txn[t].ord = o /\ txn[t].state = "canceled_performed"

\* Between handlers, an order whose payment was refunded is CANCELLED, unless
\* iiko has rejected it since (CancelTransaction, shouldCancelOrder).
RefundedIsCancelled ==
  (\A p \in Proc : At(p, "idle")) =>
    \A t \in Txn :
      txn[t].state = "canceled_performed" =>
        orders[txn[t].ord].status \in {"CANCELLED", "REJECTED"}

\* What was paid is cooked: the order of a performed transaction reaches
\* iiko, when nothing fails.
PerformedReachesKitchen ==
  \A t \in Txn, o \in Order :
    txn[t].state = "performed" /\ txn[t].ord = o ~> submitted[o] > 0
============================================================================
