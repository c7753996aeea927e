---------------------------- MODULE PaymeProofs ----------------------------
(***************************************************************************)
(* Payme: an order is marked PAID only for a transaction of its own, no    *)
(* payment that was taken is lost while the database and the server do not *)
(* fail, and the endpoint implements Fulfilment; for any number of orders, *)
(* transactions and calls that run at once.                                *)
(***************************************************************************)
EXTENDS Payme, OrderFlowProofs

CallType == [txn : Txn \cup {NoTxn}, state : TxnState]

TxnTypeOK ==
  /\ txn \in [Txn -> [ord : Order \cup {NoOrder}, state : TxnState]]
  /\ call \in [Proc -> CallType]

\* A transaction belongs to an order from its INSERT on.
TxnOrderOK ==
  \A t \in Txn : txn[t].ord \in Order <=> txn[t].state # "none"

Settled == {"performed"} \cup Canceled

\* At l, the call c that works on order o is about a transaction of o: tx
\* is the table of transactions.
CallMatches(tx, l, o, c) ==
  /\ l \in {"create_lookup", "create_insert"} => c.txn \in Txn
  /\ l \in {"mark_performed", "mark_canceled", "perform_pay"} =>
       /\ c.txn \in Txn
       /\ tx[c.txn].ord = o
       /\ tx[c.txn].state # "none"
  /\ l = "mark_performed" => c.state = "performed"
  /\ l = "mark_canceled" => c.state \in Canceled
  /\ l = "perform_pay" => tx[c.txn].state \in Settled

CallOK == \A p \in Proc : CallMatches(txn, pc[p], Ord(p), call[p])

\* What the handlers of Payme keep, whatever other handlers are at work.
PaymeCore ==
  /\ FlowInv
  /\ TxnTypeOK
  /\ TxnOrderOK
  /\ CallOK

\* The inductive invariant when Payme is alone.
PaymeInv == PaymeCore /\ PaidOnlyByTransaction

\* A transaction keeps its order, and never becomes open again.
TxnForward ==
  \A t \in Txn :
    txn[t].state # "none" =>
      /\ txn'[t].ord = txn[t].ord
      /\ txn'[t].state # "none"
      /\ txn[t].state \in Settled => txn'[t].state \in Settled

\* What becomes PAID has a settled transaction of its own.
PaidForTxn ==
  \A o \in paidOnce' \ paidOnce :
    \E t \in Txn : txn'[t].ord = o /\ txn'[t].state \in Settled

MoneyForward == TxnForward /\ PaidForTxn

----------------------------------------------------------------------------
\* What a step about goroutine p must satisfy for the invariant to stay, and
\* for the step to implement Fulfilment.
LEMMA PaymeLocalStep ==
  ASSUME PaymeCore, NEW p \in Proc, NEW l, NEW j, NEW c,
         Moves(p, l, j), l \notin {"post"} \cup MetaPC,
         QuietStatement,
         UNCHANGED <<submitted, told>>,
         call' = [call EXCEPT ![p] = c],
         TxnTypeOK', TxnOrderOK', TxnForward,
         CallMatches(txn', l, j.ord, c),
         \/ paidOnce' = paidOnce
         \/ /\ paidOnce' = paidOnce \cup {Ord(p)}
            /\ \E t \in Txn : txn[t].ord = Ord(p) /\ txn[t].state \in Settled
  PROVE  PaymeCore' /\ FulfilStep /\ MoneyForward
<1>1. FlowInv' /\ FulfilStep
  BY QuietStep DEF PaymeCore, FlowInv, FlowTypeOK
<1>2. CallOK'
  <2> SUFFICES ASSUME NEW q \in Proc
               PROVE  CallMatches(txn', pc'[q], job'[q].ord, call'[q])
    BY DEF CallOK, Ord
  <2>1. CASE q = p
    BY <2>1 DEF Moves, PaymeCore, FlowInv, FlowTypeOK, TxnTypeOK
  <2>2. CASE q # p
    <3>1. /\ pc'[q] = pc[q] /\ job'[q] = job[q] /\ call'[q] = call[q]
          /\ CallMatches(txn, pc[q], Ord(q), call[q])
      BY <2>2 DEF Moves, PaymeCore, FlowInv, FlowTypeOK, TxnTypeOK, CallOK
    <3> QED BY <3>1 DEF CallMatches, TxnForward, Ord
  <2> QED BY <2>1, <2>2
<1>3. MoneyForward
  BY DEF MoneyForward, PaidForTxn, TxnForward, TxnTypeOK, TxnState, Settled,
         Canceled, PaymeCore
<1> QED BY <1>1, <1>2, <1>3 DEF PaymeCore

\* Transactions that do not change satisfy what the lemma above asks of them.
LEMMA SameTxn ==
  ASSUME PaymeCore, NEW p \in Proc, NEW c \in CallType, UNCHANGED txn,
         call' = [call EXCEPT ![p] = c]
  PROVE  TxnTypeOK' /\ TxnOrderOK' /\ TxnForward
  BY DEF PaymeCore, TxnTypeOK, TxnOrderOK, TxnForward

\* A goroutine without a call has one of the right type.
LEMMA NoCallType == NoCall \in CallType
  BY DEF NoCall, CallType, TxnState

----------------------------------------------------------------------------
\* A call of Paycom arrives.
LEMMA PaymeRequestKeeps ==
  ASSUME PaymeCore, NEW p \in Proc, PaymeRequest(p)
  PROVE  PaymeCore' /\ FulfilStep /\ MoneyForward
<1> USE DEF MetaPC
<1>1. RepoInv /\ FlowTypeOK /\ TxnTypeOK /\ TxnOrderOK
  BY DEF PaymeCore, FlowInv
<1>2. \A o \in Order : JobFor(o) \in Job /\ JobFor(o).ord = o
  BY NoJobType DEF JobFor, Job, NoJob
<1>3. PaymePC \subseteq PC
  BY DEF PC
<1>4. PICK t \in Txn :
        \/ PerformTransaction(p, t)
        \/ CancelTransaction(p, t)
        \/ \E o \in Order : CreateTransaction(p, t, o)
  BY DEF PaymeRequest
<1>5. CASE PerformTransaction(p, t)
  <2> DEFINE o == txn[t].ord
             c == [txn |-> t, state |-> "performed"]
  <2>1. o \in Order /\ txn[t].state # "none"
    BY <1>1, <1>5 DEF TxnOrderOK, PerformTransaction, Performable
  <2>2. Moves(p, "mark_performed", JobFor(o))
    BY <1>2, <1>3, <1>5, <2>1, StartMoves DEF PerformTransaction, PaymePC
  <2>3. c \in CallType /\ call' = [call EXCEPT ![p] = c] /\ UNCHANGED txn
    BY <1>5 DEF PerformTransaction, Call, CallType, TxnState
  <2>4. TxnTypeOK' /\ TxnOrderOK' /\ TxnForward
    BY <2>3, SameTxn
  <2>5. CallMatches(txn', "mark_performed", JobFor(o).ord, c)
    BY <1>2, <2>1, <2>3 DEF CallMatches
  <2> QED
    BY <1>1, <1>5, <2>2, <2>3, <2>4, <2>5, PaymeLocalStep, NoStatementQuiet
    DEF PerformTransaction, repoVars
<1>6. CASE CancelTransaction(p, t)
  <2> DEFINE o == txn[t].ord
             st == IF txn[t].state = "performed" THEN "canceled_performed"
                   ELSE "canceled_created"
             c == [txn |-> t, state |-> st]
  <2>1. o \in Order /\ txn[t].state # "none"
    BY <1>1, <1>6 DEF TxnOrderOK, CancelTransaction
  <2>2. Moves(p, "mark_canceled", JobFor(o))
    BY <1>2, <1>3, <1>6, <2>1, StartMoves DEF CancelTransaction, PaymePC
  <2>3. c \in CallType /\ call' = [call EXCEPT ![p] = c] /\ UNCHANGED txn
    BY <1>6 DEF CancelTransaction, Call, CallType, TxnState, Canceled
  <2>4. TxnTypeOK' /\ TxnOrderOK' /\ TxnForward
    BY <2>3, SameTxn
  <2>5. CallMatches(txn', "mark_canceled", JobFor(o).ord, c)
    BY <1>2, <2>1, <2>3 DEF CallMatches, Canceled
  <2> QED
    BY <1>1, <1>6, <2>2, <2>3, <2>4, <2>5, PaymeLocalStep, NoStatementQuiet
    DEF CancelTransaction, repoVars
<1>7. CASE \E o \in Order : CreateTransaction(p, t, o)
  <2>1. PICK o \in Order : CreateTransaction(p, t, o)
    BY <1>7
  <2> DEFINE c == [txn |-> t, state |-> "created"]
  <2>2. Moves(p, "create_lookup", JobFor(o))
    BY <1>2, <1>3, <2>1, StartMoves DEF CreateTransaction, PaymePC
  <2>3. c \in CallType /\ call' = [call EXCEPT ![p] = c] /\ UNCHANGED txn
    BY <2>1 DEF CreateTransaction, Call, CallType, TxnState
  <2>4. TxnTypeOK' /\ TxnOrderOK' /\ TxnForward
    BY <2>3, SameTxn
  <2>5. CallMatches(txn', "create_lookup", JobFor(o).ord, c)
    BY DEF CallMatches
  <2> QED
    BY <1>1, <2>1, <2>2, <2>3, <2>4, <2>5, PaymeLocalStep, NoStatementQuiet
    DEF CreateTransaction, repoVars
<1> QED BY <1>4, <1>5, <1>6, <1>7

\* A later step of a call.
LEMMA PaymeStepKeeps ==
  ASSUME PaymeCore, NEW p \in Proc, PaymeStep(p)
  PROVE  PaymeCore' /\ FulfilStep /\ MoneyForward
<1> USE DEF MetaPC
<1>1. /\ RepoInv /\ FlowTypeOK /\ TxnTypeOK /\ TxnOrderOK
      /\ job[p] \in Job /\ call[p] \in CallType
      /\ call = [call EXCEPT ![p] = call[p]]
      /\ CallMatches(txn, pc[p], Ord(p), call[p])
  BY DEF PaymeCore, FlowInv, FlowTypeOK, TxnTypeOK, CallOK
<1>2. {"idle", "create_insert", "perform_pay", "perform_cook", "cancel_order",
       "send"} \subseteq PC
  BY DEF PC, PaymePC, SendPC
<1>3. \A x \in PaymePC : At(p, x) => ~At(p, "idle") /\ Ord(p) \in Order
  BY <1>1 DEF PaymePC, At, FlowTypeOK
<1>4. "PAID" \in Payment /\ {"COOKING", "CANCELLED"} \subseteq Status
  BY DEF Payment, Status
<1>5. CASE CreateLookup(p)
  <2>1. CASE Goto(p, "idle") /\ Hangup(p)
    <3>1. PICK j : Moves(p, "idle", j)
      BY <1>1, <1>2, <1>3, <1>5, <2>1, GotoMoves DEF CreateLookup, PaymePC
    <3>2. CallMatches(txn', "idle", j.ord, NoCall)
      BY DEF CallMatches
    <3> QED
      BY <1>1, <1>5, <2>1, <3>1, <3>2, NoCallType, SameTxn, PaymeLocalStep,
         NoStatementQuiet
      DEF CreateLookup, Hangup, repoVars
  <2>2. CASE Goto(p, "create_insert") /\ UNCHANGED call
    <3>1. Moves(p, "create_insert", job[p])
      BY <1>1, <1>2, <1>3, <1>5, <2>2, GotoMoves DEF CreateLookup, PaymePC
    <3>2. CallMatches(txn', "create_insert", job[p].ord, call[p])
      BY <1>1, <1>5, <2>2 DEF CreateLookup, CallMatches, At
    <3>3. call' = [call EXCEPT ![p] = call[p]]
      BY <1>1, <2>2
    <3>4. TxnTypeOK' /\ TxnOrderOK' /\ TxnForward
      BY <1>1, <1>5, <3>3, SameTxn DEF CreateLookup
    <3> QED
      BY <1>1, <1>5, <3>1, <3>2, <3>3, <3>4, PaymeLocalStep, NoStatementQuiet
      DEF CreateLookup, repoVars, Ord
  <2> QED BY <1>5, <2>1, <2>2 DEF CreateLookup
<1>6. CASE CreateInsert(p)
  <2> DEFINE t == call[p].txn
  <2>1. Ord(p) \in Order /\ t \in Txn
    BY <1>1, <1>3, <1>6 DEF CreateInsert, PaymePC, CallMatches, At
  <2>2. PICK j : Moves(p, "idle", j)
    BY <1>1, <1>2, <1>3, <1>6, GotoMoves DEF CreateInsert, PaymePC
  <2>3. call' = [call EXCEPT ![p] = NoCall] /\ call' \in [Proc -> CallType]
    BY <1>1, <1>6, NoCallType DEF CreateInsert, Hangup, TxnTypeOK
  <2>4. TxnTypeOK' /\ TxnOrderOK' /\ TxnForward
    <3>1. CASE UNCHANGED txn
      BY <2>3, <3>1, SameTxn, NoCallType
    <3>2. CASE /\ Insertable(t, Ord(p))
               /\ txn' = [txn EXCEPT ![t] = [ord |-> Ord(p),
                                             state |-> "created"]]
      BY <1>1, <2>1, <2>3, <3>2
      DEF TxnTypeOK, TxnOrderOK, TxnForward, TxnState, Insertable,
          InsertIndexed
    <3> QED BY <1>6, <3>1, <3>2 DEF CreateInsert
  <2>5. CallMatches(txn', "idle", j.ord, NoCall)
    BY DEF CallMatches
  <2> QED
    BY <1>1, <1>6, <2>2, <2>3, <2>4, <2>5, PaymeLocalStep, NoStatementQuiet
    DEF CreateInsert, repoVars
<1>7. ASSUME SetTxnState(p), pc[p] \in {"mark_performed", "mark_canceled"},
             call' \in [Proc -> CallType]
      PROVE  /\ TxnTypeOK' /\ TxnOrderOK' /\ TxnForward
             /\ call[p].txn \in Txn
             /\ txn'[call[p].txn].ord = Ord(p)
             /\ txn'[call[p].txn].state = call[p].state
             /\ call[p].state \in Settled
  <2>1. /\ call[p].txn \in Txn
        /\ txn[call[p].txn].ord = Ord(p)
        /\ txn[call[p].txn].state # "none"
        /\ call[p].state \in Settled
    BY <1>1, <1>7 DEF CallMatches, Settled
  <2>2. /\ Settled \subseteq TxnState
        /\ "none" \notin Settled
    BY DEF Settled, TxnState, Canceled
  <2> QED
    BY <1>1, <1>7, <2>1, <2>2
    DEF SetTxnState, TxnTypeOK, TxnOrderOK, TxnForward
<1>8. CASE MarkPerformed(p)
  <2>1. CASE SetTxnState(p) /\ Goto(p, "perform_pay") /\ UNCHANGED call
    <3>1. Moves(p, "perform_pay", job[p])
      BY <1>1, <1>2, <1>3, <1>8, <2>1, GotoMoves DEF MarkPerformed, PaymePC
    <3>2. /\ TxnTypeOK' /\ TxnOrderOK' /\ TxnForward
          /\ CallMatches(txn', "perform_pay", job[p].ord, call[p])
      BY <1>1, <1>7, <1>8, <2>1
      DEF MarkPerformed, At, TxnTypeOK, CallMatches, Ord, Settled, Canceled
    <3> QED
      BY <1>1, <1>8, <2>1, <3>1, <3>2, PaymeLocalStep, NoStatementQuiet
      DEF MarkPerformed, repoVars
  <2>2. CASE Goto(p, "idle") /\ Hangup(p) /\ UNCHANGED txn
    <3>1. PICK j : Moves(p, "idle", j)
      BY <1>1, <1>2, <1>3, <1>8, <2>2, GotoMoves DEF MarkPerformed, PaymePC
    <3>2. CallMatches(txn', "idle", j.ord, NoCall)
      BY DEF CallMatches
    <3> QED
      BY <1>1, <1>8, <2>2, <3>1, <3>2, NoCallType, SameTxn, PaymeLocalStep,
         NoStatementQuiet
      DEF MarkPerformed, Hangup, repoVars
  <2> QED BY <1>8, <2>1, <2>2 DEF MarkPerformed
<1>9. CASE PerformPay(p)
  <2>1. Moves(p, "perform_cook", job[p])
    BY <1>1, <1>2, <1>3, <1>9, GotoMoves DEF PerformPay, PaymePC
  <2>2. QuietStatement
    BY <1>1, <1>3, <1>4, <1>9, PaymentOrIgnoreQuiet DEF PerformPay, PaymePC
  <2>3. paidOnce' \in {paidOnce, paidOnce \cup {Ord(p)}}
    BY <1>9 DEF PerformPay, PaymentOrIgnore, WritePayment, StatementFails,
                repoVars
  <2>4. \E t \in Txn : txn[t].ord = Ord(p) /\ txn[t].state \in Settled
    BY <1>1, <1>9 DEF PerformPay, At, CallMatches
  <2>5. CallMatches(txn', "perform_cook", job[p].ord, call[p])
    BY DEF CallMatches
  <2>6. call' = [call EXCEPT ![p] = call[p]] /\ UNCHANGED txn
    BY <1>1, <1>9 DEF PerformPay, paymeVars
  <2>7. TxnTypeOK' /\ TxnOrderOK' /\ TxnForward
    BY <1>1, <2>6, SameTxn
  <2> QED
    BY <1>9, <2>1, <2>2, <2>3, <2>4, <2>5, <2>6, <2>7, PaymeLocalStep
    DEF PerformPay
<1>10. CASE PerformCook(p)
  <2> DEFINE j == [job[p] EXCEPT !.status = "COOKING", !.afterSend = "claim"]
  <2>1. j \in Job /\ j.ord = Ord(p) /\ job' = [job EXCEPT ![p] = j]
    BY <1>1, <1>4, <1>10 DEF PerformCook, Job, Ord, FlowTypeOK
  <2>2. Moves(p, "send", j)
    BY <1>2, <1>3, <1>10, <2>1 DEF PerformCook, Moves, PaymePC
  <2>3. QuietStatement /\ paidOnce' = paidOnce
    BY <1>1, <1>3, <1>4, <1>10, StatusOrIgnoreQuiet
    DEF PerformCook, PaymePC, StatusOrIgnore, WriteStatus, StatementFails,
        repoVars
  <2>4. CallMatches(txn', "send", j.ord, NoCall)
    BY DEF CallMatches
  <2>5. call' = [call EXCEPT ![p] = NoCall] /\ UNCHANGED <<submitted, told>>
    BY <1>10 DEF PerformCook, Hangup
  <2>6. TxnTypeOK' /\ TxnOrderOK' /\ TxnForward
    BY <1>10, <2>5, NoCallType, SameTxn DEF PerformCook
  <2> HIDE DEF j
  <2> QED
    BY <2>2, <2>3, <2>4, <2>5, <2>6, PaymeLocalStep
<1>11. CASE MarkCanceled(p)
  <2>1. PICK l, j : l \in {"idle", "cancel_order"} /\ Moves(p, l, j)
    BY <1>1, <1>2, <1>3, <1>11, GotoMoves DEF MarkCanceled, PaymePC
  <2>2. call' = [call EXCEPT ![p] = NoCall] /\ call' \in [Proc -> CallType]
    BY <1>1, <1>11, NoCallType DEF MarkCanceled, Hangup, TxnTypeOK
  <2>3. TxnTypeOK' /\ TxnOrderOK' /\ TxnForward
    BY <1>7, <1>11, <2>2, SameTxn, NoCallType DEF MarkCanceled, At
  <2>4. CallMatches(txn', l, j.ord, NoCall)
    BY <2>1 DEF CallMatches
  <2> QED
    BY <1>1, <1>11, <2>1, <2>2, <2>3, <2>4, PaymeLocalStep, NoStatementQuiet
    DEF MarkCanceled, repoVars
<1>12. CASE CancelOrder(p)
  <2>1. PICK j : Moves(p, "idle", j)
    BY <1>1, <1>2, <1>3, <1>12, GotoMoves DEF CancelOrder, PaymePC
  <2>2. QuietStatement /\ paidOnce' = paidOnce
    BY <1>1, <1>3, <1>4, <1>12, StatusOrIgnoreQuiet
    DEF CancelOrder, PaymePC, StatusOrIgnore, WriteStatus, StatementFails,
        repoVars
  <2>3. CallMatches(txn', "idle", j.ord, call[p])
    BY DEF CallMatches
  <2>4. call' = [call EXCEPT ![p] = call[p]] /\ UNCHANGED txn
    BY <1>1, <1>12 DEF CancelOrder, paymeVars
  <2>5. TxnTypeOK' /\ TxnOrderOK' /\ TxnForward
    BY <1>1, <2>4, SameTxn
  <2> QED
    BY <1>12, <2>1, <2>2, <2>3, <2>4, <2>5, PaymeLocalStep DEF CancelOrder
<1> QED
  BY <1>5, <1>6, <1>8, <1>9, <1>10, <1>11, <1>12 DEF PaymeStep

----------------------------------------------------------------------------
\* Steps that leave Payme's own variables alone keep its part of the
\* invariant, if no goroutine comes to one of its program points.
LEMMA PaymeUntouched ==
  ASSUME PaymeCore, FlowInv', UNCHANGED paymeVars,
         \A q \in Proc : \/ pc'[q] = pc[q] /\ job'[q] = job[q]
                         \/ pc'[q] \notin PaymePC
  PROVE  PaymeCore' /\ TxnForward
<1>1. TxnTypeOK' /\ TxnOrderOK' /\ TxnForward
  BY DEF PaymeCore, TxnTypeOK, TxnOrderOK, TxnForward, paymeVars
<1>2. CallOK'
  BY DEF PaymeCore, CallOK, CallMatches, paymeVars, Ord, PaymePC
<1> QED BY <1>1, <1>2 DEF PaymeCore

\* So does a crash, which ends every call.
LEMMA PaymeCrashKeeps ==
  ASSUME PaymeCore, Crash, call' = [p \in Proc |-> NoCall], UNCHANGED txn
  PROVE  PaymeCore' /\ FulfilStep /\ TxnForward
<1>1. FlowInv' /\ FulfilStep
  BY CrashKeeps DEF PaymeCore
<1>2. TxnTypeOK' /\ TxnOrderOK' /\ TxnForward
  BY NoCallType DEF PaymeCore, TxnTypeOK, TxnOrderOK, TxnForward
<1>3. CallOK'
  BY DEF CallOK, CallMatches, Crash
<1> QED BY <1>1, <1>2, <1>3 DEF PaymeCore

\* The shared procedures pay for nothing, and lead to none of Payme's places.
LEMMA FlowStepUntouched ==
  ASSUME PaymeCore, NEW p \in Proc, FlowStep(p), UNCHANGED paymeVars
  PROVE  PaymeCore' /\ FulfilStep /\ TxnForward /\ paidOnce' = paidOnce
<1>1. FlowInv' /\ FulfilStep
  BY FlowStepKeeps DEF PaymeCore
<1>2. \A q \in Proc : \/ pc'[q] = pc[q] /\ job'[q] = job[q]
                      \/ pc'[q] \notin PaymePC
  BY FlowStepLocal DEF PaymeCore, FlowInv, FlowTypeOK, PaymePC
<1>3. paidOnce' = paidOnce
  BY DEF FlowStep, SendRead, SendPost, SendPostLost, SendPostRefused,
         SendMeta, IikoMetaOrIgnore, WriteIikoMeta, StatementFails,
         Claim, TryMarkNotified, Push, repoVars
<1> QED BY <1>1, <1>2, <1>3, PaymeUntouched

\* Every step of the endpoint keeps the inductive invariant and implements
\* Fulfilment.
LEMMA PaymeNextKeeps ==
  ASSUME PaymeInv, [PaymeNext]_paymeAllVars
  PROVE  PaymeInv' /\ FulfilStep
<1>1. ASSUME PaymeCore' /\ MoneyForward
      PROVE  PaymeInv'
  BY <1>1 DEF PaymeInv, PaymeCore, MoneyForward, TxnForward, PaidForTxn,
              PaidOnlyByTransaction, TxnTypeOK, TxnState, Settled, Canceled
<1>2. ASSUME PaymeCore', TxnForward, paidOnce' = paidOnce
      PROVE  PaymeInv'
  BY <1>1, <1>2 DEF MoneyForward, PaidForTxn
<1>3. ASSUME NEW o \in Order, Insert(o), UNCHANGED <<flowVars, paymeVars>>
      PROVE  PaymeInv' /\ FulfilStep
  <2>1. QuietStatement
    BY <1>3 DEF PaymeInv, PaymeCore, FlowInv, RepoInv, RepoTypeOK, HistoryOK,
                Insert, QuietStatement
  <2>2. FlowInv' /\ FulfilStep
    BY <1>3, <2>1, StillStep DEF PaymeInv, PaymeCore
  <2> QED
    BY <1>2, <1>3, <2>2, PaymeUntouched DEF Insert, flowVars, PaymeInv
<1>4. ASSUME NEW p \in Proc, PaymeRequest(p) \/ PaymeStep(p)
      PROVE  PaymeInv' /\ FulfilStep
  BY <1>1, <1>4, PaymeRequestKeeps, PaymeStepKeeps DEF PaymeInv
<1>5. ASSUME NEW p \in Proc, FlowStep(p), UNCHANGED paymeVars
      PROVE  PaymeInv' /\ FulfilStep
  BY <1>2, <1>5, FlowStepUntouched DEF PaymeInv
<1>6. ASSUME Crash, call' = [p \in Proc |-> NoCall], UNCHANGED txn
      PROVE  PaymeInv' /\ FulfilStep
  BY <1>2, <1>6, PaymeCrashKeeps DEF PaymeInv, Crash, repoVars
<1>7. CASE UNCHANGED paymeAllVars
  <2>1. UNCHANGED <<repoVars, flowVars, paymeVars, paidOnce, pc, job>>
    BY <1>7 DEF paymeAllVars, repoVars, flowVars, paymeVars
  <2>2. FlowInv' /\ FulfilStep
    BY <2>1, StillStep, NoStatementQuiet DEF PaymeInv, PaymeCore, FlowInv
  <2> QED BY <1>2, <2>1, <2>2, PaymeUntouched DEF PaymeInv
<1> QED BY <1>3, <1>4, <1>5, <1>6, <1>7 DEF PaymeNext

\* The initial states satisfy the inductive invariant, and Fulfilment's.
LEMMA PaymeInitKeeps ==
  ASSUME PaymeInit
  PROVE  PaymeInv /\ Fulfil!Init
<1>1. FlowInv /\ Fulfil!Init
  BY FlowInitKeeps DEF PaymeInit
<1>2. TxnTypeOK /\ TxnOrderOK
  BY NoCallType, NoOrderAssumption DEF PaymeInit, TxnTypeOK, TxnOrderOK, TxnState
<1>3. CallOK /\ PaidOnlyByTransaction
  BY DEF PaymeInit, RepoInit, FlowInit, CallOK, CallMatches,
         PaidOnlyByTransaction
<1> QED BY <1>1, <1>2, <1>3 DEF PaymeInv, PaymeCore

\* The inductive invariant holds in every reachable state.
THEOREM PaymeInvariant == PaymeSpec => []PaymeInv
<1>1. PaymeInit => PaymeInv
  BY PaymeInitKeeps
<1>2. PaymeInv /\ [PaymeNext]_paymeAllVars => PaymeInv'
  BY PaymeNextKeeps
<1> QED BY <1>1, <1>2, PTL DEF PaymeSpec

\* Every variable of the endpoint keeps its type.
THEOREM PaymeTypeCorrect == PaymeSpec => []PaymeTypeOK
<1>1. PaymeInv => PaymeTypeOK
  BY DEF PaymeInv, PaymeCore, FlowInv, RepoInv, TxnTypeOK, CallType, PaymeTypeOK
<1> QED BY <1>1, PaymeInvariant, PTL

\* An order is marked PAID only after a transaction of its own was performed,
\* whichever calls race and whatever fails (PerformTransaction).
THEOREM PaidOnlyForOwnTransaction == PaymeSpec => []PaidOnlyByTransaction
<1>1. PaymeInv => PaidOnlyByTransaction
  BY DEF PaymeInv, PaymeCore
<1> QED BY <1>1, PaymeInvariant, PTL

\* The Payme endpoint implements Fulfilment: in particular iiko gets an order
\* only after it was PAID, for any number of calls at once.
THEOREM PaymeFulfils == PaymeSpec => ImplementsFulfilment
<1>1. PaymeInit => Fulfil!Init
  BY PaymeInitKeeps
<1>2. PaymeInv /\ [PaymeNext]_paymeAllVars => FulfilStep
  BY PaymeNextKeeps
<1> QED
  BY <1>1, <1>2, PaymeInvariant, PTL
  DEF PaymeSpec, ImplementsFulfilment, Fulfil!Spec, FulfilStep

----------------------------------------------------------------------------
(* While the database and the server do not fail                           *)

\* o has been PAID, or some goroutine is about to mark it so.
Remembered(o) ==
  o \in paidOnce \/ \E p \in Proc : At(p, "perform_pay") /\ Ord(p) = o

MoneyInv ==
  /\ \A t \in Txn : txn[t].state # "none" => Stored(txn[t].ord)
  /\ \A t \in Txn :
       txn[t].state \in {"performed", "canceled_performed"} =>
         Remembered(txn[t].ord)
  /\ \A p \in Proc :
       At(p, "mark_canceled") /\ call[p].state = "canceled_performed" =>
         Remembered(Ord(p))

\* Only PerformPay takes a goroutine away from "perform_pay".
LEMMA OthersKeepPaying ==
  ASSUME PaymeInv, NEW p \in Proc,
         PaymeRequest(p) \/ PaymeStep(p) \/ FlowStep(p), ~PerformPay(p),
         NEW q \in Proc, At(q, "perform_pay")
  PROVE  At(q, "perform_pay")' /\ Ord(q)' = Ord(q)
<1>1. pc \in [Proc -> PC] /\ job \in [Proc -> Job]
  BY DEF PaymeInv, PaymeCore, FlowInv, FlowTypeOK
<1>2. ASSUME NEW l, pc' = [pc EXCEPT ![p] = l], pc[p] # "perform_pay",
             \A r \in Proc \ {p} : job'[r] = job[r]
      PROVE  At(q, "perform_pay")' /\ Ord(q)' = Ord(q)
  BY <1>1, <1>2 DEF At, Ord
<1>3. CASE PaymeRequest(p)
  BY <1>1, <1>2, <1>3
  DEF PaymeRequest, PerformTransaction, CancelTransaction, CreateTransaction,
      Start, At
<1>4. CASE PaymeStep(p)
  BY <1>1, <1>2, <1>4
  DEF PaymeStep, CreateLookup, CreateInsert, MarkPerformed, PerformCook,
      MarkCanceled, CancelOrder, Goto, At
<1>5. CASE FlowStep(p)
  <2>1. pc[p] # "perform_pay"
    BY <1>5 DEF FlowStep, SendRead, SendPost, SendPostLost, SendPostRefused,
                SendMeta, Claim, Push, At
  <2> QED
    BY <1>2, <1>5, <2>1, FlowStepLocal DEF PaymeInv, PaymeCore, FlowInv
<1> QED BY <1>3, <1>4, <1>5

\* What has been PAID stays remembered, and rows are never deleted here.
LEMMA HistoryGrows ==
  ASSUME [PaymeNext]_paymeAllVars
  PROVE  paidOnce \subseteq paidOnce' /\ \A o \in Order : Stored(o) => Stored(o)'
<1> USE DEF Stored
<1>1. ASSUME NEW o \in Order, Insert(o)
      PROVE  paidOnce' = paidOnce /\ \A x \in Order : Stored(x) => Stored(x)'
  BY <1>1 DEF Insert
<1>2. ASSUME NEW p \in Proc, PaymeRequest(p) \/ PaymeStep(p) \/ FlowStep(p)
      PROVE  paidOnce \subseteq paidOnce' /\ table' = table
  <2>1. CASE PaymeRequest(p)
    BY <2>1 DEF PaymeRequest, PerformTransaction, CancelTransaction,
                CreateTransaction, repoVars
  <2>2. CASE PaymeStep(p)
    BY <2>2 DEF PaymeStep, CreateLookup, CreateInsert, MarkPerformed,
                PerformPay, PerformCook, MarkCanceled, CancelOrder,
                PaymentOrIgnore, StatusOrIgnore, WritePayment, WriteStatus,
                StatementFails, repoVars
  <2>3. CASE FlowStep(p)
    BY <2>3 DEF FlowStep, SendRead, SendPost, SendPostLost, SendPostRefused,
                SendMeta, IikoMetaOrIgnore, WriteIikoMeta, StatementFails,
                Claim, TryMarkNotified, Push, repoVars
  <2> QED BY <1>2, <2>1, <2>2, <2>3
<1>3. CASE Crash \/ UNCHANGED paymeAllVars
  BY <1>3 DEF Crash, repoVars, paymeAllVars
<1> QED BY <1>1, <1>2, <1>3 DEF PaymeNext

\* An order that is remembered stays so.
LEMMA RememberedStays ==
  ASSUME PaymeInv, MoneyInv, [PaymeNext]_paymeAllVars,
         Faults \cap {"db", "crash"} = {},
         NEW o \in Order, Remembered(o)
  PROVE  Remembered(o)'
<1>1. CASE o \in paidOnce
  BY <1>1, HistoryGrows DEF Remembered
<1>2. CASE o \notin paidOnce
  <2>1. PICK q \in Proc : At(q, "perform_pay") /\ Ord(q) = o
    BY <1>2 DEF Remembered
  <2>2. Stored(o)
    BY <2>1 DEF PaymeInv, PaymeCore, CallOK, CallMatches, MoneyInv, At
  <2>3. ASSUME NEW p \in Proc, PerformPay(p)
        PROVE  Remembered(o)'
    <3>1. CASE p = q
      BY <2>1, <2>2, <2>3, <3>1
      DEF PerformPay, PaymentOrIgnore, WritePayment, StatementFails,
          Remembered
    <3>2. CASE p # q
      BY <2>1, <2>3, <3>2
      DEF PerformPay, Goto, At, Ord, Remembered, PaymeInv, PaymeCore, FlowInv,
          FlowTypeOK
    <3> QED BY <3>1, <3>2
  <2>4. ASSUME NEW p \in Proc,
               PaymeRequest(p) \/ PaymeStep(p) \/ FlowStep(p),
               ~PerformPay(p)
        PROVE  Remembered(o)'
    BY <2>1, <2>4, OthersKeepPaying DEF Remembered
  <2>5. CASE \E x \in Order : Insert(x) /\ UNCHANGED <<flowVars, paymeVars>>
    BY <2>1, <2>5 DEF flowVars, Remembered, At, Ord
  <2>6. CASE UNCHANGED paymeAllVars
    BY <2>1, <2>6 DEF paymeAllVars, Remembered, At, Ord
  <2> QED
    BY <2>3, <2>4, <2>5, <2>6 DEF PaymeNext, PaymeStep, Crash
<1> QED BY <1>1, <1>2

\* A step that leaves the transactions alone keeps MoneyInv, if it forgets no
\* order and no call to cancel begins, or begins with a refund of what was not
\* taken.
LEMMA MoneyFrame ==
  ASSUME PaymeCore, MoneyInv, UNCHANGED txn,
         \A t \in Txn : txn[t].state # "none" => Stored(txn[t].ord)',
         \A o \in Order : Remembered(o) => Remembered(o)',
         \A p \in Proc : At(p, "mark_canceled")' =>
           \/ At(p, "mark_canceled") /\ job'[p] = job[p] /\ call'[p] = call[p]
           \/ call'[p].state = "canceled_performed" => Remembered(Ord(p))'
  PROVE  MoneyInv'
<1>1. \A p \in Proc : At(p, "mark_canceled") => Ord(p) \in Order
  BY DEF PaymeCore, FlowInv, FlowTypeOK, At
<1>2. \A t \in Txn : txn[t].state # "none" => txn[t].ord \in Order
  BY DEF PaymeCore, TxnOrderOK
<1> QED BY <1>1, <1>2 DEF MoneyInv, Ord

\* A step of a call of Paycom keeps MoneyInv, if it forgets no order.
LEMMA PaymeKeepsMoney ==
  ASSUME PaymeCore, MoneyInv, NEW p \in Proc, PaymeRequest(p) \/ PaymeStep(p),
         \A o \in Order : Stored(o) => Stored(o)',
         \A o \in Order : Remembered(o) => Remembered(o)',
         Faults \cap {"db", "crash"} = {}
  PROVE  MoneyInv'
<1>1. /\ TxnTypeOK /\ TxnOrderOK /\ CallOK /\ FlowTypeOK
  BY DEF PaymeCore, FlowInv
<1>2. \A o \in Order : Stored(o) => Stored(o)'
  OBVIOUS
<1>3. \A o \in Order : Remembered(o) => Remembered(o)'
  OBVIOUS
<1>4. \A t \in Txn : txn[t].state # "none" => txn[t].ord \in Order
  BY <1>1 DEF TxnOrderOK
<1>5. ASSUME UNCHANGED txn,
             \A q \in Proc : At(q, "mark_canceled")' =>
               \/ /\ At(q, "mark_canceled")
                  /\ job'[q] = job[q] /\ call'[q] = call[q]
               \/ call'[q].state = "canceled_performed" => Remembered(Ord(q))'
      PROVE  MoneyInv'
  <2>1. \A t \in Txn : txn[t].state # "none" => Stored(txn[t].ord)'
    BY <1>2, <1>4, <1>5 DEF MoneyInv
  <2> QED BY <1>3, <1>5, <2>1, MoneyFrame
<1>6. CASE MarkPerformed(p)
  <2>1. /\ SetTxnState(p) /\ Goto(p, "perform_pay") /\ UNCHANGED call
        /\ At(p, "mark_performed")
    BY <1>6 DEF MarkPerformed
  <2>2. /\ call[p].txn \in Txn
        /\ txn[call[p].txn].ord = Ord(p)
        /\ txn[call[p].txn].state # "none"
    BY <1>1, <2>1 DEF CallOK, CallMatches, At
  <2>3. Remembered(Ord(p))'
    BY <1>1, <2>1 DEF Goto, FlowTypeOK, Remembered, At, Ord
  <2>4. Ord(p)' = Ord(p)
    BY <2>1 DEF Goto, Ord
  <2>5. \A t \in Txn : /\ txn'[t].ord = txn[t].ord
                       /\ txn'[t].state # "none" => txn[t].state # "none"
                       /\ \/ txn'[t].state = txn[t].state
                          \/ txn[t].ord = Ord(p)
    BY <1>1, <2>1, <2>2 DEF SetTxnState, TxnTypeOK
  <2>6. \A q \in Proc : At(q, "mark_canceled")' =>
          /\ At(q, "mark_canceled") /\ Ord(q)' = Ord(q)
          /\ call'[q] = call[q] /\ Ord(q) \in Order
    BY <1>1, <2>1 DEF Goto, FlowTypeOK, At, Ord
  <2> QED
    BY <1>2, <1>3, <1>4, <2>3, <2>4, <2>5, <2>6 DEF MoneyInv
<1>7. CASE MarkCanceled(p)
  <2>1. /\ SetTxnState(p) /\ Hangup(p) /\ At(p, "mark_canceled")
        /\ \E l \in {"idle", "cancel_order"} : Goto(p, l)
    BY <1>7 DEF MarkCanceled
  <2>2. /\ call[p].txn \in Txn
        /\ txn[call[p].txn].ord = Ord(p)
        /\ txn[call[p].txn].state # "none"
        /\ call[p].state \in Canceled
    BY <1>1, <2>1 DEF CallOK, CallMatches, At
  <2>3. call[p].state = "canceled_performed" => Remembered(Ord(p))
    BY <2>1 DEF MoneyInv
  <2>4. \A t \in Txn : /\ txn'[t].ord = txn[t].ord
                       /\ txn'[t].state # "none" => txn[t].state # "none"
                       /\ \/ txn'[t].state = txn[t].state
                          \/ /\ txn[t].ord = Ord(p)
                             /\ txn'[t].state = call[p].state
    BY <1>1, <2>1, <2>2 DEF SetTxnState, TxnTypeOK
  <2>5. \A q \in Proc : At(q, "mark_canceled")' =>
          /\ At(q, "mark_canceled") /\ Ord(q)' = Ord(q)
          /\ call'[q] = call[q] /\ Ord(q) \in Order
    BY <1>1, <2>1 DEF Goto, Hangup, FlowTypeOK, TxnTypeOK, At, Ord
  <2> QED
    BY <1>2, <1>3, <1>4, <2>2, <2>3, <2>4, <2>5 DEF MoneyInv, Canceled
<1>8. CASE CreateInsert(p)
  <2>1. \A q \in Proc : At(q, "mark_canceled")' =>
          /\ At(q, "mark_canceled") /\ job'[q] = job[q]
          /\ call'[q] = call[q] /\ Ord(q) \in Order
    BY <1>1, <1>8 DEF CreateInsert, Goto, Hangup, FlowTypeOK, TxnTypeOK, At
  <2>2. CASE UNCHANGED txn
    BY <1>5, <2>1, <2>2
  <2>3. CASE /\ Insertable(call[p].txn, Ord(p))
             /\ txn' = [txn EXCEPT ![call[p].txn] =
                          [ord |-> Ord(p), state |-> "created"]]
    <3>1. \A t \in Txn :
            \/ txn'[t] = txn[t]
            \/ /\ txn'[t].ord = Ord(p)
               /\ txn'[t].state = "created"
      BY <1>1, <2>3 DEF TxnTypeOK
    <3>2. Stored(Ord(p)) /\ Ord(p) \in Order
      BY <1>1, <1>8, <2>3
      DEF Insertable, InsertIndexed, CreateInsert, FlowTypeOK, At
    <3> QED
      BY <1>2, <1>3, <1>4, <2>1, <3>1, <3>2 DEF MoneyInv, Ord
  <2> QED BY <1>8, <2>2, <2>3 DEF CreateInsert
<1>9. CASE PaymeRequest(p)
  <2>1. PICK t \in Txn :
          \/ PerformTransaction(p, t)
          \/ CancelTransaction(p, t)
          \/ \E o \in Order : CreateTransaction(p, t, o)
    BY <1>9 DEF PaymeRequest
  <2>2. CASE CancelTransaction(p, t)
    <3>1. PICK o \in Order : o = txn[t].ord
      BY <1>4, <2>2 DEF CancelTransaction
    <3>2. /\ UNCHANGED txn
          /\ pc' = [pc EXCEPT ![p] = "mark_canceled"]
          /\ job' = [job EXCEPT ![p] = JobFor(o)]
          /\ call' = [call EXCEPT ![p] =
                        [txn |-> t,
                         state |-> IF txn[t].state = "performed"
                                     THEN "canceled_performed"
                                     ELSE "canceled_created"]]
      BY <2>2, <3>1 DEF CancelTransaction, Start, Call
    <3>3. Ord(p)' = o
      BY <1>1, <3>2 DEF FlowTypeOK, Ord, JobFor, NoJob
    <3>4. call'[p].state = "canceled_performed" => Remembered(o)'
      BY <1>1, <1>3, <3>1, <3>2 DEF TxnTypeOK, MoneyInv
    <3>5. call'[p].state = "canceled_performed" => Remembered(Ord(p))'
      BY <3>3, <3>4 DEF Remembered
    <3>6. \A q \in Proc \ {p} : /\ At(q, "mark_canceled")' = At(q, "mark_canceled")
                               /\ job'[q] = job[q] /\ call'[q] = call[q]
      BY <1>1, <3>2 DEF FlowTypeOK, TxnTypeOK, At
    <3> QED BY <1>5, <3>2, <3>5, <3>6
  <2>3. CASE PerformTransaction(p, t) \/ \E o \in Order : CreateTransaction(p, t, o)
    BY <1>1, <1>5, <2>3
    DEF PerformTransaction, CreateTransaction, Start, Call, FlowTypeOK,
        TxnTypeOK, At
  <2> QED BY <2>1, <2>2, <2>3
<1>10. CASE CreateLookup(p) \/ PerformPay(p) \/ PerformCook(p)
               \/ CancelOrder(p)
  BY <1>1, <1>5, <1>10
  DEF CreateLookup, PerformPay, PerformCook, CancelOrder, Goto, Hangup,
      FlowTypeOK, TxnTypeOK, At, paymeVars
<1> QED
  BY <1>6, <1>7, <1>8, <1>9, <1>10 DEF PaymeStep

\* Every step keeps MoneyInv.
LEMMA MoneyStep ==
  ASSUME PaymeInv, MoneyInv, [PaymeNext]_paymeAllVars,
         Faults \cap {"db", "crash"} = {}
  PROVE  MoneyInv'
<1>1. FlowTypeOK /\ PaymeCore
  BY DEF PaymeInv, PaymeCore, FlowInv
<1>2. \A o \in Order : Stored(o) => Stored(o)'
  BY HistoryGrows
<1>3. \A o \in Order : Remembered(o) => Remembered(o)'
  BY RememberedStays
<1>4. ASSUME UNCHANGED paymeVars,
             \A p \in Proc : At(p, "mark_canceled")' =>
               At(p, "mark_canceled") /\ job'[p] = job[p]
      PROVE  MoneyInv'
  <2>1. UNCHANGED <<txn, call>>
    BY <1>4 DEF paymeVars
  <2>2. \A t \in Txn : txn[t].state # "none" => Stored(txn[t].ord)'
    BY <1>1, <1>2, <2>1 DEF PaymeCore, TxnOrderOK, MoneyInv
  <2> QED BY <1>1, <1>3, <1>4, <2>1, <2>2, MoneyFrame
<1>5. ASSUME NEW p \in Proc, PaymeRequest(p) \/ PaymeStep(p)
      PROVE  MoneyInv'
  BY <1>1, <1>2, <1>3, <1>5, PaymeKeepsMoney
<1>6. ASSUME NEW p \in Proc, FlowStep(p), UNCHANGED paymeVars
      PROVE  MoneyInv'
  BY <1>1, <1>4, <1>6, FlowStepLocal DEF FlowTypeOK, At
<1>7. CASE \E o \in Order : Insert(o) /\ UNCHANGED <<flowVars, paymeVars>>
  BY <1>4, <1>7 DEF flowVars, At
<1>8. CASE UNCHANGED paymeAllVars
  BY <1>4, <1>8 DEF paymeAllVars, paymeVars, At
<1> QED
  BY <1>5, <1>6, <1>7, <1>8 DEF PaymeNext, Crash

\* Money that Payme has taken is never lost to the order, for any number of
\* transactions and of calls at once, while no statement fails and the server
\* does not stop (PerformTransaction).
THEOREM TakenMoneyIsRemembered ==
  ASSUME Faults \cap {"db", "crash"} = {}
  PROVE  PaymeSpec => []PerformedIsPaid
<1>1. PaymeInit => MoneyInv
  BY DEF PaymeInit, FlowInit, MoneyInv, At
<1>2. PaymeInv /\ MoneyInv /\ [PaymeNext]_paymeAllVars => MoneyInv'
  BY MoneyStep
<1>3. MoneyInv => PerformedIsPaid
  BY DEF MoneyInv, PerformedIsPaid, Remembered
<1> QED BY <1>1, <1>2, <1>3, PaymeInvariant, PTL DEF PaymeSpec
=============================================================================
