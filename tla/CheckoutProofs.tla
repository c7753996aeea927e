--------------------------- MODULE CheckoutProofs ---------------------------
(***************************************************************************)
(* The order service keeps its types, sends no order to the kitchen before *)
(* it may, and implements Fulfilment, whatever fails.  The order service,  *)
(* Payme and Click on the same orders and goroutines: what each keeps      *)
(* alone it keeps while the others run, because a goroutine runs one       *)
(* handler at a time and the handlers' program points are different.  For  *)
(* any number of orders, transactions, goroutines and webhooks.            *)
(***************************************************************************)
EXTENDS Checkout, PaymeProofs

----------------------------------------------------------------------------
(* The order service alone                                                 *)

\* A webhook handler that is going to write a status holds one.
StatusHeld ==
  \A p \in Proc : pc[p] \in {"hook_set", "error_meta", "error_set"} =>
                   job[p].status \in Status

\* The inductive invariant of the order service.
ServiceInv == FlowInv /\ StatusHeld

----------------------------------------------------------------------------
\* A quiet step of a handler keeps the service's invariant, if the handler
\* holds a status where it will write one.
LEMMA ServiceQuietStep ==
  ASSUME ServiceInv, NEW p \in Proc, NEW l, NEW j, Moves(p, l, j),
         QuietStatement,
         UNCHANGED <<submitted, told>>,
         l # "post",
         l \in MetaPC => j.iiko \in 1 .. submitted[j.ord],
         l \in {"hook_set", "error_meta", "error_set"} => j.status \in Status
  PROVE  ServiceInv' /\ FulfilStep
<1>1. FlowInv' /\ FulfilStep
  BY QuietStep DEF ServiceInv, FlowInv, FlowTypeOK
<1>2. StatusHeld'
  BY DEF ServiceInv, FlowInv, FlowTypeOK, StatusHeld, Moves
<1> QED BY <1>1, <1>2 DEF ServiceInv

\* The step that stores an id from a webhook, or fails to.
LEMMA ServiceMetaStep ==
  ASSUME ServiceInv, NEW p \in Proc, pc[p] \in MetaPC,
         IikoMetaOrIgnore(Ord(p), job[p].iiko),
         UNCHANGED <<submitted, told>>,
         NEW l, NEW j, Moves(p, l, j),
         l \notin {"post"} \cup MetaPC,
         l \in {"hook_set", "error_set"} => j.status \in Status
  PROVE  ServiceInv' /\ FulfilStep
<1>1. CASE WriteIikoMeta(Ord(p), job[p].iiko)
  <2>1. FlowInv' /\ FulfilStep
    BY <1>1, RecordStep DEF ServiceInv
  <2>2. StatusHeld'
    BY DEF ServiceInv, FlowInv, FlowTypeOK, StatusHeld, Moves, MetaPC
  <2> QED BY <2>1, <2>2 DEF ServiceInv
<1>2. CASE UNCHANGED repoVars
  BY <1>2, ServiceQuietStep, NoStatementQuiet
  DEF ServiceInv, FlowInv, MetaPC
<1> QED BY <1>1, <1>2 DEF IikoMetaOrIgnore, StatementFails

\* A request that starts a handler.
LEMMA ServiceRequestKeeps ==
  ASSUME ServiceInv, NEW p \in Proc, ServiceRequest(p)
  PROVE  ServiceInv' /\ FulfilStep
<1>1. RepoInv /\ FlowTypeOK
  BY DEF ServiceInv, FlowInv
<1>2. PICK o \in Order :
        \/ \E s \in OperatorStatus : UpdateStatus(p, o, s)
        \/ \E i \in IikoId, is \in ReportedStatus : HookUpdate(p, o, i, is)
        \/ \E i \in IikoId : HookNotCreated(p, o, i) \/ HookError(p, o, i)
  BY DEF ServiceRequest
<1>3. /\ JobFor(o) \in Job
      /\ JobFor(o).ord = o
  BY NoJobType DEF JobFor, Job, NoJob
<1>4. CASE \E s \in OperatorStatus : UpdateStatus(p, o, s)
  <2>1. PICK s \in Status : UpdateStatus(p, o, s)
    BY <1>4, OperatorStatusAssumption
  <2> DEFINE j == [JobFor(o) EXCEPT !.status = s,
                                    !.afterNotify = AfterAnnouncing(s)]
  <2>2. j \in Job /\ j.ord = o
    BY <1>3 DEF Job, AfterAnnouncing
  <2>3. Moves(p, "claim", j)
    BY <2>1, <2>2, StartMoves DEF UpdateStatus, PC, NotifyPC
  <2>4. QuietStatement
    BY <1>1, <2>1, WriteStatusQuiet DEF UpdateStatus
  <2> QED
    BY <2>1, <2>3, <2>4, ServiceQuietStep DEF UpdateStatus, MetaPC
<1>5. CASE \E i \in IikoId, is \in ReportedStatus : HookUpdate(p, o, i, is)
  <2>1. PICK i \in IikoId, is \in ReportedStatus : HookUpdate(p, o, i, is)
    BY <1>5
  <2> DEFINE st == HookStatus(is, orders[o])
             j == [JobFor(o) EXCEPT !.iiko = i, !.status = st]
  <2>2. st \in Status \cup {NeverNotified}
    BY DEF HookStatus, MapIikoStatus, Status
  <2>3. j \in Job /\ j.ord = o /\ j.iiko = i
    BY <1>3, <2>2 DEF Job
  <2>4. Moves(p, "hook_meta", j)
    BY <2>1, <2>3, StartMoves DEF HookUpdate, PC, ServicePC
  <2> QED
    BY <1>1, <2>1, <2>3, <2>4, ServiceQuietStep, NoStatementQuiet
    DEF HookUpdate, IikoKnows
<1>6. CASE \E i \in IikoId : HookNotCreated(p, o, i)
  <2>1. Moves(p, "hook_reject", JobFor(o))
    BY <1>3, <1>6, StartMoves DEF HookNotCreated, PC, ServicePC
  <2> QED
    BY <1>1, <1>6, <2>1, ServiceQuietStep, NoStatementQuiet
    DEF HookNotCreated, MetaPC
<1>7. CASE \E i \in IikoId : HookError(p, o, i)
  <2>1. PICK i \in IikoId : HookError(p, o, i)
    BY <1>7
  <2> DEFINE j == [JobFor(o) EXCEPT !.iiko = i, !.status = "REJECTED"]
  <2>2. j \in Job /\ j.ord = o /\ j.iiko = i /\ j.status \in Status
    BY <1>3 DEF Job, Status
  <2>3. Moves(p, "error_meta", j)
    BY <2>1, <2>2, StartMoves DEF HookError, PC, ServicePC
  <2> QED
    BY <1>1, <2>1, <2>2, <2>3, ServiceQuietStep, NoStatementQuiet
    DEF HookError, IikoKnows
<1> QED BY <1>2, <1>4, <1>5, <1>6, <1>7

\* A later step of one of the service's handlers.
LEMMA ServiceStepKeeps ==
  ASSUME ServiceInv, NEW p \in Proc, ServiceStep(p)
  PROVE  ServiceInv' /\ FulfilStep
<1>1. RepoInv /\ FlowTypeOK /\ job[p] \in Job
  BY DEF ServiceInv, FlowInv, FlowTypeOK
<1>2. /\ {"idle", "claim", "hook_set", "hook_pay", "error_set"} \subseteq PC
      /\ {"REJECTED"} \subseteq Status
      /\ {"PAID"} \subseteq Payment
  BY DEF PC, NotifyPC, ServicePC, Status, Payment
<1>3. \A x \in ServicePC : At(p, x) => ~At(p, "idle") /\ Ord(p) \in Order
  BY <1>1 DEF ServicePC, At, FlowTypeOK
<1>4. CASE Settle(p)
  <2>1. PICK j : Moves(p, "idle", j)
    BY <1>1, <1>2, <1>3, <1>4, GotoMoves DEF Settle, ServicePC
  <2>2. QuietStatement
    BY <1>1, <1>2, <1>3, <1>4, PaymentOrIgnoreQuiet DEF Settle, ServicePC
  <2> QED BY <1>4, <2>1, <2>2, ServiceQuietStep DEF Settle, MetaPC
<1>5. CASE HookReject(p)
  <2>1. PICK j : Moves(p, "idle", j)
    BY <1>1, <1>2, <1>3, <1>5, GotoMoves DEF HookReject, ServicePC
  <2>2. QuietStatement
    BY <1>1, <1>2, <1>3, <1>5, StatusOrIgnoreQuiet DEF HookReject, ServicePC
  <2> QED BY <1>5, <2>1, <2>2, ServiceQuietStep DEF HookReject, MetaPC
<1>6. CASE HookMeta(p)
  <2>1. CASE job[p].status = NeverNotified
    <3>1. PICK j : Moves(p, "idle", j)
      BY <1>1, <1>2, <1>3, <1>6, <2>1, GotoMoves DEF HookMeta, ServicePC
    <3> QED BY <1>6, <3>1, ServiceMetaStep DEF HookMeta, MetaPC, At
  <2>2. CASE job[p].status # NeverNotified
    <3>1. Moves(p, "hook_set", job[p])
      BY <1>1, <1>2, <1>3, <1>6, <2>2, GotoMoves DEF HookMeta, ServicePC
    <3>2. job[p].status \in Status
      BY <1>1, <2>2 DEF Job
    <3> QED BY <1>6, <3>1, <3>2, ServiceMetaStep DEF HookMeta, MetaPC, At
  <2> QED BY <2>1, <2>2
<1>7. CASE HookSet(p)
  <2>1. /\ QuietStatement
        /\ \E l \in {"idle", "hook_pay", "claim"} : Goto(p, l)
    <3>1. job[p].status \in Status
      BY <1>7 DEF ServiceInv, StatusHeld, HookSet, At
    <3> QED
      BY <1>1, <1>3, <1>7, <3>1, WriteStatusQuiet, NoStatementQuiet
      DEF HookSet, StatementFails, ServicePC
  <2>2. PICK l, j : l \in {"idle", "hook_pay", "claim"} /\ Moves(p, l, j)
    BY <1>1, <1>2, <1>3, <1>7, <2>1, GotoMoves DEF HookSet, ServicePC
  <2> QED BY <1>7, <2>1, <2>2, ServiceQuietStep DEF HookSet, MetaPC
<1>8. CASE HookPay(p)
  <2>1. PICK j : Moves(p, "claim", j)
    BY <1>1, <1>2, <1>3, <1>8, GotoMoves DEF HookPay, ServicePC
  <2>2. QuietStatement
    BY <1>1, <1>2, <1>3, <1>8, PaymentOrIgnoreQuiet DEF HookPay, ServicePC
  <2> QED BY <1>8, <2>1, <2>2, ServiceQuietStep DEF HookPay, MetaPC
<1>9. CASE ErrorMeta(p)
  <2>1. Moves(p, "error_set", job[p])
    BY <1>1, <1>2, <1>3, <1>9, GotoMoves DEF ErrorMeta, ServicePC
  <2>2. job[p].status \in Status
    BY <1>9 DEF ServiceInv, StatusHeld, ErrorMeta, At
  <2> QED BY <1>9, <2>1, <2>2, ServiceMetaStep DEF ErrorMeta, MetaPC, At
<1>10. CASE ErrorSet(p)
  <2>1. PICK j : Moves(p, "claim", j)
    BY <1>1, <1>2, <1>3, <1>10, GotoMoves DEF ErrorSet, ServicePC
  <2>2. QuietStatement
    <3>1. job[p].status \in Status
      BY <1>10 DEF ServiceInv, StatusHeld, ErrorSet, At
    <3> QED
      BY <1>1, <1>3, <1>10, <3>1, StatusOrIgnoreQuiet DEF ErrorSet, ServicePC
  <2> QED BY <1>10, <2>1, <2>2, ServiceQuietStep DEF ErrorSet, MetaPC
<1> QED
  BY <1>4, <1>5, <1>6, <1>7, <1>8, <1>9, <1>10 DEF ServiceStep

----------------------------------------------------------------------------
\* Every step of the service keeps the inductive invariant and implements
\* Fulfilment.
LEMMA ServiceNextKeeps ==
  ASSUME ServiceInv, [ServiceNext]_serviceVars
  PROVE  ServiceInv' /\ FulfilStep
<1>1. CASE \E o \in Order : CreateOrder(o) \/ DeleteOrder(o)
  <2>1. QuietStatement
    BY <1>1 DEF ServiceInv, FlowInv, RepoInv, RepoTypeOK, HistoryOK,
                CreateOrder, DeleteOrder, Insert, Remove, QuietStatement
  <2>2. UNCHANGED flowVars
    BY <1>1 DEF CreateOrder, DeleteOrder
  <2>3. StatusHeld'
    BY <2>2 DEF ServiceInv, StatusHeld, flowVars
  <2> QED BY <2>1, <2>2, <2>3, StillStep DEF ServiceInv
<1>2. CASE \E p \in Proc : ServiceRequest(p) \/ ServiceStep(p)
  BY <1>2, ServiceRequestKeeps, ServiceStepKeeps
<1>3. ASSUME NEW p \in Proc, FlowStep(p)
      PROVE  ServiceInv' /\ FulfilStep
  <2>1. FlowInv' /\ FulfilStep
    BY <1>3, FlowStepKeeps DEF ServiceInv
  <2>2. StatusHeld'
    BY <1>3, FlowStepLocal DEF ServiceInv, FlowInv, FlowTypeOK, StatusHeld
  <2> QED BY <2>1, <2>2 DEF ServiceInv
<1>4. CASE Crash
  <2>1. StatusHeld'
    BY <1>4 DEF Crash, StatusHeld
  <2> QED BY <1>4, <2>1, CrashKeeps DEF ServiceInv
<1>5. CASE UNCHANGED serviceVars
  <2>1. UNCHANGED repoVars /\ UNCHANGED flowVars
    BY <1>5 DEF serviceVars, repoVars, flowVars
  <2>2. StatusHeld'
    BY <2>1 DEF ServiceInv, StatusHeld, flowVars
  <2> QED BY <2>1, <2>2, StillStep, NoStatementQuiet DEF ServiceInv, FlowInv
<1> QED BY <1>1, <1>2, <1>3, <1>4, <1>5 DEF ServiceNext

\* The inductive invariant holds in every reachable state.
THEOREM ServiceInvariant == ServiceSpec => []ServiceInv
<1>1. ServiceInit => ServiceInv
  BY FlowInitKeeps
  DEF ServiceInit, ServiceInv, StatusHeld, FlowInit
<1>2. ServiceInv /\ [ServiceNext]_serviceVars => ServiceInv'
  BY ServiceNextKeeps
<1> QED BY <1>1, <1>2, PTL DEF ServiceSpec

\* Every variable of the order service keeps its type: the status words that
\* operators and iiko's webhooks bring never leave the database's enums.
THEOREM ServiceTypeCorrect == ServiceSpec => []ServiceTypeOK
<1>1. ServiceInv => ServiceTypeOK
  BY DEF ServiceInv, FlowInv, RepoInv, ServiceTypeOK
<1> QED BY <1>1, ServiceInvariant, PTL

\* The kitchen gets an order that is paid online only if it was paid before,
\* for any number of goroutines that race and whatever fails
\* (sendToIikoIfAllowed).
THEOREM OnlinePaidBeforeKitchen ==
  ServiceSpec => []OnlineSubmittedOnlyIfPaid
<1>1. ServiceInv => OnlineSubmittedOnlyIfPaid
  BY DEF ServiceInv, FlowInv
<1> QED BY <1>1, ServiceInvariant, PTL

\* The order service implements Fulfilment: each of its steps pays for an
\* order, sends one that may be sent, records an id that iiko issued for the
\* order, or changes nothing of these.
THEOREM ServiceFulfils == ServiceSpec => ImplementsFulfilment
<1>1. ServiceInit => Fulfil!Init
  BY FlowInitKeeps DEF ServiceInit
<1>2. ServiceInv /\ [ServiceNext]_serviceVars => FulfilStep
  BY ServiceNextKeeps
<1> QED
  BY <1>1, <1>2, ServiceInvariant, PTL
  DEF ServiceSpec, ImplementsFulfilment, Fulfil!Spec, FulfilStep

----------------------------------------------------------------------------
(* The invariant of all of them                                            *)

ClickVarsOK ==
  /\ invoice \in [Order -> {"none", "waiting", "paid"}]
  /\ linked \subseteq Order
  /\ prepared \subseteq Order
  /\ outcome \in [Proc -> Outcomes \cup {NoOutcome}]
  /\ charged \subseteq Order

\* AddLink comes after CreateInvoice.
LinkAfterInvoice ==
  \A p \in Proc : At(p, "add_link") => invoice[Ord(p)] # "none"

\* The places of Complete that are not in one of the shared procedures.
CompletePC == {"shop_invoice", "shop_fail", "shop_pay", "shop_cook",
               "handler_read", "handler_pay", "handler_cook"}

\* A goroutine at l with the locals j runs Complete, or one of the shared
\* procedures on its behalf.
Completing(l, j) == l \in CompletePC \/ j.afterNotify = "handler_read"

\* Complete knows what Click reported: r is the outcome it holds, ch are the
\* orders for which Click reported success.
CompleteMatches(l, j, r, ch) ==
  /\ Completing(l, j) => r = "failure" \/ j.ord \in ch
  /\ l \in {"shop_invoice", "shop_pay"} => j.ord \in ch

CompleteOK ==
  \A p \in Proc : CompleteMatches(pc[p], job[p], outcome[p], charged)

ClickCore == ClickVarsOK /\ LinkedHasInvoice /\ LinkAfterInvoice /\ CompleteOK

\* The inductive invariant.
CheckoutInv == ServiceInv /\ PaymeCore /\ ClickCore

----------------------------------------------------------------------------
(* Goroutines do not disturb each other                                    *)

\* A step of p leads to a place in L, and it is in Complete afterwards only
\* if it was before.
Runs(p, L) ==
  \E l \in L :
    /\ pc' = [pc EXCEPT ![p] = l]
    /\ \A q \in Proc \ {p} : job'[q] = job[q]
    /\ Completing(l, job'[p]) =>
         Completing(pc[p], job[p]) /\ job'[p].ord = job[p].ord

\* Going on or returning, elsewhere than in Complete.
LEMMA GotoRuns ==
  ASSUME FlowTypeOK, NEW p \in Proc, NEW l, Goto(p, l), l \notin CompletePC
  PROVE  Runs(p, {l})
  BY DEF Goto, Runs, Completing, FlowTypeOK, NoJob, CompletePC

\* Starting, elsewhere than in Complete.
LEMMA StartRuns ==
  ASSUME FlowTypeOK, NEW p \in Proc, NEW l, NEW j, Start(p, l, j),
         l \notin CompletePC, j.afterNotify # "handler_read"
  PROVE  Runs(p, {l})
  BY DEF Start, Runs, Completing, FlowTypeOK

\* A place in L is a place in a larger set.
LEMMA RunsMore ==
  ASSUME NEW p \in Proc, NEW L, NEW M, Runs(p, L), L \subseteq M
  PROVE  Runs(p, M)
  BY DEF Runs

\* Where the order service leads.
LEMMA ServiceRuns ==
  ASSUME FlowTypeOK, NEW p \in Proc, ServiceRequest(p) \/ ServiceStep(p)
  PROVE  Runs(p, ServicePC \cup {"idle", "claim"})
<1> USE GotoRuns, StartRuns DEF CompletePC, ServicePC
<1>1. \A o \in Order : JobFor(o).afterNotify = "idle"
  BY DEF JobFor, NoJob
<1>2. CASE ServiceRequest(p)
  <2>1. ASSUME NEW o \in Order, NEW s \in OperatorStatus, UpdateStatus(p, o, s)
        PROVE  Runs(p, {"claim"})
    BY <2>1 DEF UpdateStatus, AfterAnnouncing, JobFor, NoJob
  <2>2. ASSUME NEW o \in Order, NEW i \in IikoId, NEW is \in ReportedStatus,
               HookUpdate(p, o, i, is)
        PROVE  Runs(p, {"hook_meta"})
    BY <2>2 DEF HookUpdate, JobFor, NoJob
  <2>3. ASSUME NEW o \in Order, NEW i \in IikoId, HookNotCreated(p, o, i)
        PROVE  Runs(p, {"hook_reject"})
    BY <1>1, <2>3 DEF HookNotCreated
  <2>4. ASSUME NEW o \in Order, NEW i \in IikoId, HookError(p, o, i)
        PROVE  Runs(p, {"error_meta"})
    BY <2>4 DEF HookError, JobFor, NoJob
  <2> QED
    BY <1>2, <2>1, <2>2, <2>3, <2>4, RunsMore DEF ServiceRequest
<1>3. CASE ServiceStep(p)
  <2>1. PICK l \in {"idle", "claim", "hook_set", "hook_pay", "error_set"} :
          Goto(p, l)
    BY <1>3 DEF ServiceStep, Settle, HookReject, HookMeta, HookSet, HookPay,
                ErrorMeta, ErrorSet
  <2>2. Runs(p, {l})
    BY <2>1
  <2> QED BY <2>1, <2>2, RunsMore
<1> QED BY <1>2, <1>3

\* Where Payme leads.
LEMMA PaymeRuns ==
  ASSUME FlowTypeOK, NEW p \in Proc, PaymeRequest(p) \/ PaymeStep(p)
  PROVE  Runs(p, PaymePC \cup {"idle", "send"})
<1> USE GotoRuns, StartRuns DEF CompletePC, PaymePC
<1>1. \A o : JobFor(o).afterNotify = "idle"
  BY DEF JobFor, NoJob
<1>2. CASE PaymeRequest(p)
  <2>1. ASSUME NEW t \in Txn, PerformTransaction(p, t)
        PROVE  Runs(p, {"mark_performed"})
    BY <1>1, <2>1 DEF PerformTransaction
  <2>2. ASSUME NEW t \in Txn, CancelTransaction(p, t)
        PROVE  Runs(p, {"mark_canceled"})
    BY <1>1, <2>2 DEF CancelTransaction
  <2>3. ASSUME NEW t \in Txn, NEW o \in Order, CreateTransaction(p, t, o)
        PROVE  Runs(p, {"create_lookup"})
    BY <1>1, <2>3 DEF CreateTransaction
  <2> QED BY <1>2, <2>1, <2>2, <2>3, RunsMore DEF PaymeRequest
<1>3. CASE PerformCook(p)
  BY <1>3 DEF PerformCook, Runs, Completing, FlowTypeOK, Job
<1>4. CASE PaymeStep(p) /\ ~PerformCook(p)
  <2>1. PICK l \in {"idle", "create_insert", "perform_pay", "perform_cook",
                  "cancel_order"} : Goto(p, l)
    BY <1>4 DEF PaymeStep, CreateLookup, CreateInsert, MarkPerformed,
                PerformPay, MarkCanceled, CancelOrder
  <2>2. Runs(p, {l})
    BY <2>1
  <2> QED BY <2>1, <2>2, RunsMore
<1> QED BY <1>2, <1>3, <1>4

\* Where the shared procedures lead.
LEMMA FlowRuns ==
  ASSUME FlowTypeOK, NEW p \in Proc, FlowStep(p)
  PROVE  Runs(p, {"idle", "claim", "push", "send", "post", "meta", "settle",
                  "handler_read"})
<1>1. /\ job[p].afterSend \in {"idle", "claim"}
      /\ job[p].afterNotify \in {"idle", "send", "settle", "handler_read"}
  BY DEF FlowTypeOK, Job
<1>2. CASE \E l \in {"idle", "claim", "push", "post"} : Goto(p, l)
  <2>1. PICK l \in {"idle", "claim", "push", "post"} : Goto(p, l)
    BY <1>2
  <2>2. Runs(p, {l})
    BY <2>1, GotoRuns DEF CompletePC
  <2> QED BY <2>1, <2>2, RunsMore
<1>3. CASE Goto(p, job[p].afterNotify)
  BY <1>1, <1>3 DEF Goto, Runs, Completing, CompletePC, FlowTypeOK, NoJob
<1>4. CASE SendPost(p)
  BY <1>4 DEF SendPost, Runs, Completing, CompletePC, FlowTypeOK, Job
<1> QED
  BY <1>1, <1>2, <1>3, <1>4
  DEF FlowStep, SendRead, SendPostLost, SendPostRefused, SendMeta, Claim, Push

----------------------------------------------------------------------------
(* What other components' steps leave intact                               *)

\* A webhook's handler still holds its status.
LEMMA StatusUntouched ==
  ASSUME ServiceInv, FlowInv', NEW p \in Proc, NEW L, Runs(p, L),
         L \cap {"hook_set", "error_meta", "error_set"} = {}
  PROVE  ServiceInv'
  BY DEF ServiceInv, FlowInv, FlowTypeOK, StatusHeld, Runs

\* A call of Paycom is still about its transaction.
LEMMA PaymeApart ==
  ASSUME PaymeCore, FlowInv', UNCHANGED paymeVars, NEW p \in Proc, NEW L,
         Runs(p, L), L \cap PaymePC = {}
  PROVE  PaymeCore' /\ TxnForward
<1>1. \A q \in Proc : \/ pc'[q] = pc[q] /\ job'[q] = job[q]
                      \/ pc'[q] \notin PaymePC
  BY DEF PaymeCore, FlowInv, FlowTypeOK, Runs
<1> QED BY <1>1, PaymeUntouched

\* A callback of Click still knows what Click reported.
LEMMA ClickApart ==
  ASSUME FlowTypeOK, ClickCore, UNCHANGED clickVars, NEW p \in Proc, NEW L,
         Runs(p, L),
         L \cap {"add_link", "shop_invoice", "shop_pay"} = {}
  PROVE  ClickCore'
<1>1. ClickVarsOK' /\ LinkedHasInvoice'
  BY DEF ClickCore, ClickVarsOK, LinkedHasInvoice, clickVars
<1>2. LinkAfterInvoice' /\ CompleteOK'
  <2> SUFFICES ASSUME NEW q \in Proc
               PROVE  /\ (At(q, "add_link") => invoice[Ord(q)] # "none")'
                      /\ CompleteMatches(pc'[q], job'[q], outcome[q], charged)
    BY DEF LinkAfterInvoice, CompleteOK, clickVars
  <2>1. CASE q = p
    BY <2>1 DEF ClickCore, CompleteOK, CompleteMatches, Runs, At, FlowTypeOK
  <2>2. CASE q # p
    BY <2>2 DEF ClickCore, LinkAfterInvoice, CompleteOK, Runs, At, Ord,
                FlowTypeOK, clickVars
  <2> QED BY <2>1, <2>2
<1> QED BY <1>1, <1>2 DEF ClickCore

----------------------------------------------------------------------------
(* Click                                                                   *)

\* What a step of Click about goroutine p must satisfy.
LEMMA ClickLocalStep ==
  ASSUME FlowInv, ClickCore, NEW p \in Proc, NEW l, NEW j, NEW r,
         Moves(p, l, j), l \notin {"post"} \cup MetaPC,
         QuietStatement,
         UNCHANGED <<submitted, told>>,
         outcome' = [outcome EXCEPT ![p] = r],
         ClickVarsOK', LinkedHasInvoice', charged \subseteq charged',
         \A o \in Order : invoice[o] # "none" => invoice'[o] # "none",
         l = "add_link" => invoice'[j.ord] # "none",
         CompleteMatches(l, j, r, charged')
  PROVE  FlowInv' /\ FulfilStep /\ ClickCore'
<1>1. FlowInv' /\ FulfilStep
  BY QuietStep DEF FlowInv, FlowTypeOK
<1>2. FlowTypeOK /\ ClickVarsOK
  BY DEF FlowInv, ClickCore
<1>3. LinkAfterInvoice'
  BY <1>2 DEF ClickCore, LinkAfterInvoice, Moves, FlowTypeOK, At, Ord
<1>4. CompleteOK'
  <2> SUFFICES ASSUME NEW q \in Proc
               PROVE  CompleteMatches(pc'[q], job'[q], outcome'[q], charged')
    BY DEF CompleteOK
  <2>1. CASE q = p
    BY <1>2, <2>1 DEF Moves, FlowTypeOK, ClickVarsOK
  <2>2. CASE q # p
    <3>1. /\ pc'[q] = pc[q] /\ job'[q] = job[q] /\ outcome'[q] = outcome[q]
          /\ CompleteMatches(pc[q], job[q], outcome[q], charged)
      BY <1>2, <2>2 DEF Moves, FlowTypeOK, ClickVarsOK, ClickCore, CompleteOK
    <3> QED BY <3>1 DEF CompleteMatches
  <2> QED BY <2>1, <2>2
<1> QED BY <1>1, <1>3, <1>4 DEF ClickCore

\* A goroutine that has returned is not in Complete.
LEMMA NoJobCompletes ==
  ASSUME NEW r, NEW ch
  PROVE  CompleteMatches("idle", NoJob, r, ch)
  BY DEF CompleteMatches, Completing, CompletePC, NoJob

\* Placing an order, or one of Click's calls.
LEMMA ClickRequestKeeps ==
  ASSUME FlowInv, ClickCore, NEW p \in Proc, ClickRequest(p)
  PROVE  FlowInv' /\ FulfilStep /\ ClickCore'
<1> USE DEF MetaPC
<1>1. RepoInv /\ FlowTypeOK /\ ClickVarsOK /\ LinkedHasInvoice
  BY DEF FlowInv, ClickCore
<1>2. \A o \in Order : /\ JobFor(o) \in Job /\ JobFor(o).ord = o
                       /\ JobFor(o).afterNotify = "idle"
  BY NoJobType DEF JobFor, Job, NoJob
<1>3. ClickPC \subseteq PC
  BY DEF PC
<1>4. ASSUME NEW o \in Order, PlaceOrder(p, o)
      PROVE  FlowInv' /\ FulfilStep /\ ClickCore'
  <2>1. Moves(p, "checkout_prepare", JobFor(o))
    BY <1>2, <1>3, <1>4, StartMoves DEF PlaceOrder, ClickPC
  <2>2. QuietStatement
    BY <1>1, <1>4 DEF PlaceOrder, Insert, RepoInv, RepoTypeOK, HistoryOK,
                      QuietStatement
  <2>3. /\ UNCHANGED <<invoice, linked, prepared, charged>>
        /\ outcome' = [outcome EXCEPT ![p] = outcome[p]]
    BY <1>1, <1>4 DEF PlaceOrder, clickVars, ClickVarsOK
  <2>4. ClickVarsOK' /\ LinkedHasInvoice'
    BY <1>1, <1>4 DEF PlaceOrder, clickVars, ClickVarsOK, LinkedHasInvoice
  <2>5. CompleteMatches("checkout_prepare", JobFor(o), outcome[p], charged')
    BY <1>2 DEF CompleteMatches, Completing, CompletePC
  <2> QED
    BY <1>4, <2>1, <2>2, <2>3, <2>4, <2>5, ClickLocalStep DEF PlaceOrder
<1>5. ASSUME NEW o \in Order, NEW r \in Outcomes, Complete(p, o, r)
      PROVE  FlowInv' /\ FulfilStep /\ ClickCore'
  <2> DEFINE l == IF r = "success" THEN "shop_invoice" ELSE "shop_fail"
  <2>1. Moves(p, l, JobFor(o))
    BY <1>2, <1>3, <1>5, StartMoves DEF Complete, ClickPC
  <2>2. QuietStatement
    BY <1>1, <1>5, NoStatementQuiet DEF Complete
  <2>3. ClickVarsOK' /\ LinkedHasInvoice' /\ charged \subseteq charged'
    BY <1>1, <1>5 DEF Complete, ClickVarsOK, LinkedHasInvoice
  <2>4. CompleteMatches(l, JobFor(o), r, charged')
    BY <1>2, <1>5, OutcomesAssumption
    DEF Complete, CompleteMatches, Completing, CompletePC
  <2> QED
    BY <1>5, <2>1, <2>2, <2>3, <2>4, ClickLocalStep DEF Complete
<1> QED BY <1>4, <1>5 DEF ClickRequest

\* A later step of creating an order or of one of Click's calls.
LEMMA ClickStepKeeps ==
  ASSUME FlowInv, ClickCore, NEW p \in Proc, ClickStep(p)
  PROVE  FlowInv' /\ FulfilStep /\ ClickCore'
<1> USE DEF MetaPC
<1>1. /\ RepoInv /\ FlowTypeOK /\ ClickVarsOK /\ LinkedHasInvoice
      /\ job[p] \in Job
      /\ CompleteMatches(pc[p], job[p], outcome[p], charged)
      /\ outcome = [outcome EXCEPT ![p] = outcome[p]]
  BY DEF FlowInv, FlowTypeOK, ClickCore, ClickVarsOK, CompleteOK
<1>2. {"idle", "send"} \cup ClickPC \subseteq PC
  BY DEF PC, SendPC
<1>3. \A x \in ClickPC : At(p, x) => ~At(p, "idle") /\ Ord(p) \in Order
  BY <1>1 DEF ClickPC, At, FlowTypeOK
<1>4. {"PAID", "UNPAID"} \subseteq Payment /\ "COOKING" \in Status
  BY DEF Payment, Status
<1>5. ASSUME pc[p] \in ClickPC, NEW l \in {"idle"} \cup ClickPC, Goto(p, l),
             NEW r, outcome' = [outcome EXCEPT ![p] = r],
             QuietStatement, UNCHANGED <<submitted, told>>,
             ClickVarsOK', LinkedHasInvoice', charged' = charged,
             \A o \in Order : invoice[o] # "none" => invoice'[o] # "none",
             l = "add_link" => invoice'[Ord(p)] # "none",
             l # "idle" => CompleteMatches(l, job[p], r, charged)
      PROVE  FlowInv' /\ FulfilStep /\ ClickCore'
  <2> DEFINE j == IF l = "idle" THEN NoJob ELSE job[p]
  <2>1. Moves(p, l, j)
    BY <1>1, <1>2, <1>3, <1>5, GotoMoves DEF At
  <2>2. CompleteMatches(l, j, r, charged')
    BY <1>5, NoJobCompletes
  <2>3. l \notin {"post"} \cup MetaPC
    BY <1>5 DEF ClickPC
  <2>4. l = "add_link" => invoice'[j.ord] # "none"
    BY <1>5 DEF Ord
  <2> HIDE DEF j
  <2> QED BY <1>5, <2>1, <2>2, <2>3, <2>4, ClickLocalStep
<1>6. CASE CheckoutPrepare(p)
  <2>1. PICK l \in {"invoice_insert", "idle"} : Goto(p, l)
    BY <1>6 DEF CheckoutPrepare
  <2>2. CompleteMatches(l, job[p], outcome[p], charged)
    BY <1>1, <1>6 DEF CheckoutPrepare, CompleteMatches, Completing, CompletePC, At
  <2> QED
    BY <1>1, <1>5, <1>6, <2>1, <2>2, NoStatementQuiet
    DEF CheckoutPrepare, At, ClickPC, clickVars, ClickVarsOK, LinkedHasInvoice
<1>7. CASE InvoiceInsert(p)
  <2>1. PICK l \in {"add_link", "idle"} :
          /\ Goto(p, l)
          /\ \/ l = "add_link" /\ CreateInvoice(Ord(p))
             \/ l = "idle" /\ UNCHANGED invoice
    BY <1>7 DEF InvoiceInsert
  <2>2. CompleteMatches(l, job[p], outcome[p], charged)
    BY <1>1, <1>7, <2>1
    DEF InvoiceInsert, CompleteMatches, Completing, CompletePC, At
  <2>3. Ord(p) \in Order
    BY <1>3, <1>7 DEF InvoiceInsert, ClickPC
  <2>4. /\ ClickVarsOK' /\ LinkedHasInvoice'
        /\ \A o \in Order : invoice[o] # "none" => invoice'[o] # "none"
        /\ l = "add_link" => invoice'[Ord(p)] # "none"
    BY <1>1, <1>7, <2>1, <2>3
    DEF InvoiceInsert, CreateInvoice, ClickVarsOK, LinkedHasInvoice
  <2> QED
    BY <1>1, <1>5, <1>7, <2>1, <2>2, <2>4, NoStatementQuiet
    DEF InvoiceInsert, At, ClickPC
<1>8. CASE AddLink(p)
  <2>1. Ord(p) \in Order /\ invoice[Ord(p)] # "none"
    BY <1>3, <1>8 DEF AddLink, ClickPC, ClickCore, LinkAfterInvoice
  <2>2. ClickVarsOK' /\ LinkedHasInvoice'
    BY <1>1, <1>8, <2>1 DEF AddLink, ClickVarsOK, LinkedHasInvoice
  <2> QED
    BY <1>1, <1>5, <1>8, <2>2, NoStatementQuiet DEF AddLink, At, ClickPC
<1>9. CASE ShopFail(p)
  <2>1. QuietStatement
    BY <1>1, <1>3, <1>4, <1>9, PaymentOrIgnoreQuiet DEF ShopFail, ClickPC
  <2>2. CompleteMatches("handler_read", job[p], outcome[p], charged)
    BY <1>1, <1>9 DEF ShopFail, CompleteMatches, Completing, CompletePC, At
  <2> QED
    BY <1>1, <1>5, <1>9, <2>1, <2>2
    DEF ShopFail, At, ClickPC, clickVars, ClickVarsOK, LinkedHasInvoice
<1>10. CASE ShopInvoice(p)
  <2>1. PICK l \in {"shop_pay", "idle"}, r \in {outcome[p], NoOutcome} :
          Goto(p, l) /\ outcome' = [outcome EXCEPT ![p] = r]
            /\ (l = "shop_pay" => r = outcome[p])
    BY <1>1, <1>10 DEF ShopInvoice, Return
  <2>2. l # "idle" => CompleteMatches(l, job[p], r, charged)
    BY <1>1, <1>10, <2>1
    DEF ShopInvoice, CompleteMatches, Completing, CompletePC, At
  <2>3. ClickVarsOK' /\ LinkedHasInvoice' /\ charged' = charged
    BY <1>1, <1>10, <2>1
    DEF ShopInvoice, UpdateOnComplete, ClickVarsOK, LinkedHasInvoice
  <2>4. \A o \in Order : invoice[o] # "none" => invoice'[o] # "none"
    BY <1>1, <1>10 DEF ShopInvoice, UpdateOnComplete, ClickVarsOK
  <2> QED
    BY <1>1, <1>5, <1>10, <2>1, <2>2, <2>3, <2>4, NoStatementQuiet
    DEF ShopInvoice, At, ClickPC
<1>11. CASE ShopPay(p)
  <2>1. PICK l \in {"shop_cook", "idle"}, r \in {outcome[p], NoOutcome} :
          Goto(p, l) /\ outcome' = [outcome EXCEPT ![p] = r]
            /\ (l = "shop_cook" => r = outcome[p])
    BY <1>1, <1>11 DEF ShopPay, Return
  <2>2. l # "idle" => CompleteMatches(l, job[p], r, charged)
    BY <1>1, <1>11, <2>1
    DEF ShopPay, CompleteMatches, Completing, CompletePC, At
  <2>3. ClickVarsOK' /\ LinkedHasInvoice' /\ charged' = charged
    BY <1>1, <1>11, <2>1 DEF ShopPay, ClickVarsOK, LinkedHasInvoice
  <2>4. QuietStatement
    BY <1>1, <1>3, <1>4, <1>11, WritePaymentQuiet, NoStatementQuiet
    DEF ShopPay, StatementFails, ClickPC
  <2> QED
    BY <1>1, <1>5, <1>11, <2>1, <2>2, <2>3, <2>4
    DEF ShopPay, At, ClickPC
<1>12. CASE ShopCook(p)
  <2> DEFINE j == [job[p] EXCEPT !.status = "COOKING", !.afterSend = "claim",
                                 !.afterNotify = "handler_read"]
  <2>1. j \in Job /\ j.ord = Ord(p) /\ job' = [job EXCEPT ![p] = j]
    BY <1>1, <1>4, <1>12 DEF ShopCook, Job, Ord, FlowTypeOK
  <2>2. Moves(p, "send", j)
    BY <1>2, <1>3, <1>12, <2>1 DEF ShopCook, Moves, ClickPC
  <2>3. QuietStatement
    BY <1>1, <1>3, <1>4, <1>12, StatusOrIgnoreQuiet DEF ShopCook, ClickPC
  <2>4. CompleteMatches("send", j, outcome[p], charged)
    BY <1>1, <1>12, <2>1
    DEF ShopCook, CompleteMatches, Completing, CompletePC, At, Ord
  <2>5. UNCHANGED clickVars /\ UNCHANGED <<submitted, told>>
    BY <1>12 DEF ShopCook
  <2> HIDE DEF j
  <2> QED
    BY <1>1, <2>2, <2>3, <2>4, <2>5, ClickLocalStep
    DEF clickVars, ClickVarsOK, LinkedHasInvoice
<1>13. CASE HandlerRead(p)
  <2>1. PICK l \in {"handler_pay", "idle"}, r \in {outcome[p], NoOutcome} :
          Goto(p, l) /\ outcome' = [outcome EXCEPT ![p] = r]
            /\ (l = "handler_pay" => r = outcome[p])
    BY <1>1, <1>13 DEF HandlerRead, Return
  <2>2. l # "idle" => CompleteMatches(l, job[p], r, charged)
    BY <1>1, <1>13, <2>1
    DEF HandlerRead, CompleteMatches, Completing, CompletePC, At
  <2>3. ClickVarsOK' /\ LinkedHasInvoice' /\ charged' = charged
    BY <1>1, <1>13, <2>1 DEF HandlerRead, ClickVarsOK, LinkedHasInvoice
  <2> QED
    BY <1>1, <1>5, <1>13, <2>1, <2>2, <2>3, NoStatementQuiet
    DEF HandlerRead, At, ClickPC
<1>14. CASE HandlerPay(p)
  <2>1. QuietStatement
    BY <1>1, <1>3, <1>4, <1>14, PaymentOrIgnoreQuiet DEF HandlerPay, ClickPC
  <2>2. CompleteMatches("handler_cook", job[p], outcome[p], charged)
    BY <1>1, <1>14 DEF HandlerPay, CompleteMatches, Completing, CompletePC, At
  <2> QED
    BY <1>1, <1>5, <1>14, <2>1, <2>2
    DEF HandlerPay, At, ClickPC, clickVars, ClickVarsOK, LinkedHasInvoice
<1>15. CASE HandlerCook(p)
  <2>1. QuietStatement
    BY <1>1, <1>3, <1>4, <1>15, StatusOrIgnoreQuiet DEF HandlerCook, ClickPC
  <2>2. /\ Goto(p, "idle") /\ outcome' = [outcome EXCEPT ![p] = NoOutcome]
        /\ ClickVarsOK' /\ LinkedHasInvoice'
    BY <1>1, <1>15 DEF HandlerCook, Return, ClickVarsOK, LinkedHasInvoice
  <2> QED
    BY <1>1, <1>5, <1>15, <2>1, <2>2 DEF HandlerCook, At, ClickPC
<1> QED
  BY <1>6, <1>7, <1>8, <1>9, <1>10, <1>11, <1>12, <1>13, <1>14, <1>15
  DEF ClickStep

\* Where Click leads.
LEMMA ClickGoes ==
  ASSUME FlowTypeOK, NEW p \in Proc, ClickRequest(p) \/ ClickStep(p)
  PROVE  \E l \in ClickPC \cup {"idle", "send"} :
           /\ pc' = [pc EXCEPT ![p] = l]
           /\ \A q \in Proc \ {p} : job'[q] = job[q]
  BY DEF ClickRequest, PlaceOrder, Complete, ClickStep, CheckoutPrepare,
         InvoiceInsert, AddLink, ShopFail, ShopInvoice, ShopPay, ShopCook,
         HandlerRead, HandlerPay, HandlerCook, Return, Goto, Start, FlowTypeOK,
         ClickPC

----------------------------------------------------------------------------
(* The composition                                                         *)

CheckoutTurn(p) ==
  ServiceTurn(p) \/ PaymeTurn(p) \/ ClickTurn(p) \/ SharedTurn(p)

\* A turn of a goroutine keeps the inductive invariant, implements Fulfilment
\* and takes no transaction back.
LEMMA TurnKeeps ==
  ASSUME CheckoutInv, NEW p \in Proc, CheckoutTurn(p)
  PROVE  CheckoutInv' /\ FulfilStep /\ TxnForward
<1> USE DEF PaymePC, ClickPC, ServicePC
<1>1. ServiceInv /\ FlowInv /\ FlowTypeOK /\ PaymeCore /\ ClickCore
  BY DEF CheckoutInv, ServiceInv, FlowInv
<1>2. CASE ServiceTurn(p)
  <2>1. ServiceInv' /\ FulfilStep
    BY <1>1, <1>2, ServiceRequestKeeps, ServiceStepKeeps DEF ServiceTurn
  <2>2. Runs(p, ServicePC \cup {"idle", "claim"})
    BY <1>1, <1>2, ServiceRuns DEF ServiceTurn
  <2>3. PaymeCore' /\ TxnForward
    BY <1>1, <1>2, <2>1, <2>2, PaymeApart DEF ServiceTurn, ServiceInv
  <2>4. ClickCore'
    BY <1>1, <1>2, <2>2, ClickApart DEF ServiceTurn
  <2> QED BY <2>1, <2>3, <2>4 DEF CheckoutInv
<1>3. CASE PaymeTurn(p)
  <2>1. PaymeCore' /\ FulfilStep /\ TxnForward
    BY <1>1, <1>3, PaymeRequestKeeps, PaymeStepKeeps
    DEF PaymeTurn, MoneyForward
  <2>2. Runs(p, PaymePC \cup {"idle", "send"})
    BY <1>1, <1>3, PaymeRuns DEF PaymeTurn
  <2>3. ServiceInv'
    BY <1>1, <2>1, <2>2, StatusUntouched DEF PaymeCore
  <2>4. ClickCore'
    BY <1>1, <1>3, <2>2, ClickApart DEF PaymeTurn
  <2> QED BY <2>1, <2>3, <2>4 DEF CheckoutInv
<1>4. CASE ClickTurn(p)
  <2>1. FlowInv' /\ FulfilStep /\ ClickCore'
    BY <1>1, <1>4, ClickRequestKeeps, ClickStepKeeps DEF ClickTurn
  <2>2. PICK l \in ClickPC \cup {"idle", "send"} :
          /\ pc' = [pc EXCEPT ![p] = l]
          /\ \A q \in Proc \ {p} : job'[q] = job[q]
    BY <1>1, <1>4, ClickGoes DEF ClickTurn
  <2>3. \A q \in Proc : \/ pc'[q] = pc[q] /\ job'[q] = job[q]
                        \/ pc'[q] \notin PaymePC
    BY <1>1, <2>2 DEF FlowTypeOK
  <2>4. PaymeCore' /\ TxnForward
    BY <1>1, <1>4, <2>1, <2>3, PaymeUntouched DEF ClickTurn
  <2>5. ServiceInv'
    BY <1>1, <2>1, <2>2 DEF ServiceInv, StatusHeld, FlowTypeOK
  <2> QED BY <2>1, <2>4, <2>5 DEF CheckoutInv
<1>5. CASE SharedTurn(p)
  <2>1. FlowInv' /\ FulfilStep
    BY <1>1, <1>5, FlowStepKeeps DEF SharedTurn
  <2>2. Runs(p, {"idle", "claim", "push", "send", "post", "meta", "settle",
                 "handler_read"})
    BY <1>1, <1>5, FlowRuns DEF SharedTurn
  <2>3. ServiceInv'
    BY <1>1, <2>1, <2>2, StatusUntouched
  <2>4. PaymeCore' /\ TxnForward
    BY <1>1, <1>5, <2>1, <2>2, PaymeApart DEF SharedTurn
  <2>5. ClickCore'
    BY <1>1, <1>5, <2>2, ClickApart DEF SharedTurn
  <2> QED BY <2>1, <2>3, <2>4, <2>5 DEF CheckoutInv
<1> QED BY <1>2, <1>3, <1>4, <1>5 DEF CheckoutTurn

\* What happens to the tables alone: orders come and go, an attempt to pay.
CheckoutElsewhere ==
  \E o \in Order :
    \/ /\ CreateUnlinked(o) \/ DeleteUnreferenced(o)
       /\ UNCHANGED <<paymeVars, clickVars>>
    \/ ShopPrepare(o) /\ UNCHANGED paymeVars

\* So does such a step.
LEMMA ElsewhereKeeps ==
  ASSUME CheckoutInv, CheckoutElsewhere \/ UNCHANGED checkoutVars
  PROVE  CheckoutInv' /\ FulfilStep /\ TxnForward
<1>1. ServiceInv /\ FlowInv /\ FlowTypeOK /\ PaymeCore /\ ClickCore /\ RepoInv
  BY DEF CheckoutInv, ServiceInv, FlowInv
<1>2. UNCHANGED flowVars /\ UNCHANGED paymeVars
  BY DEF CheckoutElsewhere, CreateUnlinked, CreateOrder, DeleteUnreferenced,
         DeleteOrder, ShopPrepare, checkoutVars, flowVars, paymeVars
<1>3. /\ UNCHANGED <<invoice, linked, outcome, charged>>
      /\ \/ prepared' = prepared
         \/ \E o \in Order : prepared' = prepared \cup {o}
  BY DEF CheckoutElsewhere, CreateUnlinked, CreateOrder, DeleteUnreferenced,
         DeleteOrder, ShopPrepare, UpsertPrepare, checkoutVars, clickVars
<1>4. QuietStatement
  BY <1>1, NoStatementQuiet
  DEF CheckoutElsewhere, CreateUnlinked, CreateOrder, DeleteUnreferenced,
      DeleteOrder, ShopPrepare, Insert, Remove, RepoInv, RepoTypeOK,
      HistoryOK, QuietStatement, checkoutVars, repoVars
<1>5. FlowInv' /\ FulfilStep
  BY <1>1, <1>2, <1>4, StillStep
<1>6. ServiceInv'
  BY <1>1, <1>2, <1>5 DEF ServiceInv, StatusHeld, flowVars
<1>7. PaymeCore' /\ TxnForward
  BY <1>1, <1>2, <1>5, PaymeUntouched DEF flowVars
<1>8. ClickCore'
  BY <1>1, <1>2, <1>3
  DEF ClickCore, ClickVarsOK, LinkedHasInvoice, LinkAfterInvoice, CompleteOK,
      flowVars, At, Ord
<1> QED BY <1>5, <1>6, <1>7, <1>8 DEF CheckoutInv

\* And a crash, after which every handler is gone.
LEMMA CheckoutCrashKeeps ==
  ASSUME CheckoutInv, CheckoutCrash
  PROVE  CheckoutInv' /\ FulfilStep /\ TxnForward
<1>1. PaymeCore' /\ FulfilStep /\ TxnForward
  BY PaymeCrashKeeps DEF CheckoutInv, CheckoutCrash, ClickCrash
<1>2. ServiceInv'
  BY <1>1 DEF CheckoutCrash, ClickCrash, Crash, PaymeCore, ServiceInv,
              StatusHeld
<1>3. ClickVarsOK' /\ LinkedHasInvoice' /\ LinkAfterInvoice'
  BY DEF CheckoutInv, CheckoutCrash, ClickCrash, Crash, ClickCore,
         ClickVarsOK, LinkedHasInvoice, LinkAfterInvoice, At
<1>4. CompleteOK'
  BY NoJobCompletes DEF CheckoutCrash, ClickCrash, Crash, CompleteOK
<1> QED BY <1>1, <1>2, <1>3, <1>4 DEF CheckoutInv, ClickCore

\* Every step of the composition keeps the inductive invariant and implements
\* Fulfilment.
LEMMA CheckoutNextKeeps ==
  ASSUME CheckoutInv, [CheckoutNext]_checkoutVars
  PROVE  CheckoutInv' /\ FulfilStep /\ TxnForward
  BY TurnKeeps, ElsewhereKeeps, CheckoutCrashKeeps
  DEF CheckoutNext, CheckoutElsewhere, CheckoutTurn

\* The initial states satisfy the inductive invariant, and Fulfilment's.
LEMMA CheckoutInitKeeps ==
  ASSUME CheckoutInit
  PROVE  CheckoutInv /\ Fulfil!Init
<1>1. PaymeCore /\ Fulfil!Init
  BY PaymeInitKeeps DEF CheckoutInit, PaymeInv
<1>2. ServiceInv
  BY <1>1 DEF CheckoutInit, PaymeInit, FlowInit, PaymeCore, ServiceInv,
              StatusHeld
<1>3. ClickVarsOK /\ LinkedHasInvoice /\ LinkAfterInvoice
  BY DEF CheckoutInit, ClickInit, FlowInit, ClickVarsOK, LinkedHasInvoice,
         LinkAfterInvoice, At
<1>4. CompleteOK
  BY NoJobCompletes DEF CheckoutInit, ClickInit, FlowInit, CompleteOK
<1> QED BY <1>1, <1>2, <1>3, <1>4 DEF CheckoutInv, ClickCore

\* The inductive invariant of the composition: that of each component.
THEOREM CheckoutInvariant == CheckoutSpec => []CheckoutInv
<1>1. CheckoutInit => CheckoutInv
  BY CheckoutInitKeeps
<1>2. CheckoutInv /\ [CheckoutNext]_checkoutVars => CheckoutInv'
  BY CheckoutNextKeeps
<1> QED BY <1>1, <1>2, PTL DEF CheckoutSpec

\* Every variable keeps its type while all handlers run.
THEOREM CheckoutTypeCorrect == CheckoutSpec => []CheckoutTypeOK
<1>1. CheckoutInv => CheckoutTypeOK
  BY DEF CheckoutInv, ServiceInv, FlowInv, RepoInv, PaymeCore, TxnTypeOK,
         CallType, ClickCore, ClickVarsOK, CheckoutTypeOK, ServiceTypeOK,
         PaymeTypeOK, ClickTypeOK
<1> QED BY <1>1, CheckoutInvariant, PTL

\* The kitchen gets an order that is paid online only if it was PAID at some
\* moment before, with operators, couriers, iiko's webhooks, Payme and Click
\* at work at once and whatever fails (SendToIikoIfAllowed).
THEOREM PaidBeforeKitchenAlways ==
  CheckoutSpec => []OnlineSubmittedOnlyIfPaid
<1>1. CheckoutInv => OnlineSubmittedOnlyIfPaid
  BY DEF CheckoutInv, ServiceInv, FlowInv
<1> QED BY <1>1, CheckoutInvariant, PTL

\* A client is sent to pay only for an order whose payment Click's callbacks
\* will find, whatever fails (Create, CLICK branch).
THEOREM LinkIsToAnInvoice == CheckoutSpec => []LinkedHasInvoice
<1>1. CheckoutInv => LinkedHasInvoice
  BY DEF CheckoutInv, ClickCore
<1> QED BY <1>1, CheckoutInvariant, PTL

\* All handlers together implement Fulfilment.
THEOREM CheckoutFulfils == CheckoutSpec => ImplementsFulfilment
<1>1. CheckoutInit => Fulfil!Init
  BY CheckoutInitKeeps
<1>2. CheckoutInv /\ [CheckoutNext]_checkoutVars => FulfilStep
  BY CheckoutNextKeeps
<1> QED
  BY <1>1, <1>2, CheckoutInvariant, PTL
  DEF CheckoutSpec, ImplementsFulfilment, Fulfil!Spec, FulfilStep

----------------------------------------------------------------------------
(* Who takes money for an order                                            *)

Taken(o) ==
  \/ o \in charged
  \/ \E t \in Txn : txn[t].ord = o /\ txn[t].state \in Settled

\* An order paid online is PAID only for money that a provider took: a webhook
\* collects cash only, and no operator completes an order.
MoneyTaken ==
  /\ \A o \in paidOnce : orders[o].method \in Online => Taken(o)
  /\ \A p \in Proc : At(p, "hook_pay") => orders[Ord(p)].method \notin Online
  /\ \A p \in Proc : ~At(p, "settle") /\ job[p].afterNotify # "settle"

\* A statement on payment_status makes at most its own order PAID.
LEMMA PaymentPays ==
  ASSUME NEW o, NEW ps, PaymentOrIgnore(o, ps)
  PROVE  \/ paidOnce' = paidOnce
         \/ ps = "PAID" /\ paidOnce' = paidOnce \cup {o}
  BY DEF PaymentOrIgnore, WritePayment, StatementFails, repoVars

\* The other statements make none.
LEMMA OtherStatementsPayNot ==
  /\ \A o, s : WriteStatus(o, s) \/ StatusOrIgnore(o, s) => paidOnce' = paidOnce
  /\ \A o, i : IikoMetaOrIgnore(o, i) => paidOnce' = paidOnce
  /\ \A o : StatementFails(o) => paidOnce' = paidOnce
  BY DEF StatusOrIgnore, WriteStatus, IikoMetaOrIgnore, WriteIikoMeta,
         StatementFails, repoVars

\* How a turn pays for an order.
LEMMA TurnPays ==
  ASSUME CheckoutInv, MoneyTaken, NEW p \in Proc, CheckoutTurn(p),
         NEW o \in paidOnce' \ paidOnce
  PROVE  orders[o].method \notin Online \/ Taken(o)'
<1>1. PaymeCore /\ ClickCore /\ CompleteMatches(pc[p], job[p], outcome[p], charged)
  BY DEF CheckoutInv, ClickCore, CompleteOK
<1>2. CASE ServiceTurn(p)
  <2>1. HookPay(p) \/ Settle(p)
    BY <1>2, OtherStatementsPayNot
    DEF ServiceTurn, ServiceRequest, UpdateStatus, HookUpdate, HookNotCreated,
        HookError, ServiceStep, HookReject, HookMeta, HookSet, ErrorMeta,
        ErrorSet, repoVars
  <2>2. HookPay(p)
    BY <2>1 DEF MoneyTaken, Settle
  <2> QED BY <2>2, PaymentPays DEF HookPay, MoneyTaken
<1>3. CASE PaymeTurn(p)
  <2>1. PaidForTxn
    BY <1>1, <1>3, PaymeRequestKeeps, PaymeStepKeeps
    DEF PaymeTurn, MoneyForward
  <2> QED BY <2>1 DEF PaidForTxn, Taken
<1>4. CASE ClickTurn(p)
  <2>1. ShopFail(p) \/ ShopPay(p) \/ HandlerPay(p)
    BY <1>4, OtherStatementsPayNot
    DEF ClickTurn, ClickRequest, PlaceOrder, Insert, Complete, ClickStep,
        CheckoutPrepare, InvoiceInsert, AddLink, ShopInvoice, ShopCook,
        HandlerRead, HandlerCook, repoVars
  <2>2. CASE ShopFail(p)
    BY <2>2, PaymentPays DEF ShopFail
  <2>3. CASE ShopPay(p)
    BY <1>1, <2>3, OtherStatementsPayNot
    DEF ShopPay, WritePayment, CompleteMatches, At, Ord, Taken
  <2>4. CASE HandlerPay(p)
    BY <1>1, <2>4, PaymentPays
    DEF HandlerPay, CompleteMatches, Completing, CompletePC, At, Ord, Taken,
        clickVars
  <2> QED BY <2>1, <2>2, <2>3, <2>4
<1>5. CASE SharedTurn(p)
  BY <1>1, <1>5, FlowStepUntouched DEF SharedTurn
<1> QED BY <1>2, <1>3, <1>4, <1>5 DEF CheckoutTurn

\* What Click has charged it does not forget.
LEMMA ChargedStays ==
  ASSUME [CheckoutNext]_checkoutVars
  PROVE  charged \subseteq charged'
<1>1. ASSUME NEW p \in Proc, ClickTurn(p)
      PROVE  charged \subseteq charged'
  BY <1>1 DEF ClickTurn, ClickRequest, PlaceOrder, Complete, ClickStep,
              CheckoutPrepare, InvoiceInsert, AddLink, ShopFail, ShopInvoice,
              ShopPay, ShopCook, HandlerRead, HandlerPay, HandlerCook, clickVars
<1> QED
  BY <1>1 DEF CheckoutNext, ServiceTurn, PaymeTurn, SharedTurn, ShopPrepare,
              CheckoutCrash, ClickCrash, clickVars, checkoutVars

\* Where a turn may lead when no operator completes an order: not to settle,
\* and to hook_pay only for an order that is paid in cash.
LEMMA TurnCollects ==
  ASSUME CheckoutInv, MoneyTaken, "COMPLETED" \notin OperatorStatus,
         NEW p \in Proc, CheckoutTurn(p)
  PROVE  /\ pc'[p] = "hook_pay" =>
              job'[p].ord = Ord(p) /\ orders[Ord(p)].method \notin Online
         /\ pc'[p] # "settle" /\ job'[p].afterNotify # "settle"
         /\ \A q \in Proc \ {p} : pc'[q] = pc[q] /\ job'[q] = job[q]
<1>1. /\ FlowTypeOK
      /\ job[p].afterSend \in {"idle", "claim"}
      /\ ~At(p, "settle") /\ job[p].afterNotify # "settle"
      /\ job[p].afterNotify \in {"idle", "send", "handler_read"}
  BY DEF CheckoutInv, ServiceInv, FlowInv, FlowTypeOK, Job, MoneyTaken
<1>2. \A o : /\ JobFor(o).afterNotify = "idle"
             /\ NoJob.afterNotify = "idle"
  BY DEF JobFor, NoJob
<1>3. ASSUME NEW l, Goto(p, l), l \notin {"settle", "hook_pay"}
      PROVE  /\ pc'[p] \notin {"settle", "hook_pay"}
             /\ job'[p].afterNotify # "settle"
             /\ \A q \in Proc \ {p} : pc'[q] = pc[q] /\ job'[q] = job[q]
  BY <1>1, <1>2, <1>3 DEF Goto, FlowTypeOK
<1>4. ASSUME NEW l, NEW j, Start(p, l, j), l \notin {"settle", "hook_pay"},
             j.afterNotify # "settle"
      PROVE  /\ pc'[p] \notin {"settle", "hook_pay"}
             /\ job'[p].afterNotify # "settle"
             /\ \A q \in Proc \ {p} : pc'[q] = pc[q] /\ job'[q] = job[q]
  BY <1>1, <1>4 DEF Start, FlowTypeOK
<1>5. CASE ServiceTurn(p)
  <2>1. CASE ServiceRequest(p)
    <3> DEFINE Elsewhere == /\ pc'[p] \notin {"settle", "hook_pay"}
                            /\ job'[p].afterNotify # "settle"
                            /\ \A q \in Proc \ {p} : /\ pc'[q] = pc[q]
                                                     /\ job'[q] = job[q]
    <3>1. ASSUME NEW o \in Order, NEW s \in OperatorStatus,
                 UpdateStatus(p, o, s)
          PROVE  Elsewhere
      BY <1>1, <3>1
      DEF UpdateStatus, Start, AfterAnnouncing, JobFor, NoJob, FlowTypeOK
    <3>2. ASSUME NEW o \in Order, NEW i \in IikoId, NEW is \in ReportedStatus,
                 HookUpdate(p, o, i, is)
          PROVE  Elsewhere
      BY <1>1, <3>2 DEF HookUpdate, Start, JobFor, NoJob, FlowTypeOK
    <3>3. ASSUME NEW o \in Order, NEW i \in IikoId,
                 HookNotCreated(p, o, i) \/ HookError(p, o, i)
          PROVE  Elsewhere
      BY <1>1, <3>3 DEF HookNotCreated, HookError, Start, JobFor, NoJob,
                        FlowTypeOK
    <3> QED BY <2>1, <3>1, <3>2, <3>3 DEF ServiceRequest
  <2>2. CASE HookSet(p)
    <3>1. CASE \E l \in {"claim", "idle"} : Goto(p, l)
      BY <1>3, <3>1
    <3>2. CASE /\ Goto(p, "hook_pay")
               /\ HookCollects(job[p].status, orders[Ord(p)])
      BY <1>1, <3>2 DEF Goto, FlowTypeOK, HookCollects, Online, Ord
    <3> QED BY <2>2, <3>1, <3>2 DEF HookSet
  <2>3. CASE ServiceStep(p) /\ ~HookSet(p)
    <3>1. PICK l \in {"idle", "hook_set", "claim", "error_set"} : Goto(p, l)
      BY <2>3 DEF ServiceStep, Settle, HookReject, HookMeta, HookPay,
                  ErrorMeta, ErrorSet
    <3> QED BY <1>3, <3>1
  <2> QED BY <1>5, <2>1, <2>2, <2>3 DEF ServiceTurn
<1>6. CASE PaymeTurn(p)
  <2>1. CASE PaymeRequest(p)
    <3>1. PICK l, j : /\ Start(p, l, j) /\ l \notin {"settle", "hook_pay"}
                      /\ j.afterNotify # "settle"
      BY <1>2, <2>1 DEF PaymeRequest, PerformTransaction, CancelTransaction,
                        CreateTransaction
    <3> QED BY <1>4, <3>1
  <2>2. CASE PerformCook(p)
    BY <1>1, <2>2 DEF PerformCook, FlowTypeOK, Job
  <2>3. CASE PaymeStep(p) /\ ~PerformCook(p)
    <3>1. PICK l \in {"idle"} \cup PaymePC : Goto(p, l)
      BY <2>3 DEF PaymeStep, CreateLookup, CreateInsert, MarkPerformed,
                  PerformPay, MarkCanceled, CancelOrder, PaymePC
    <3> QED BY <1>3, <3>1 DEF PaymePC
  <2> QED BY <1>6, <2>1, <2>2, <2>3 DEF PaymeTurn
<1>7. CASE ClickTurn(p)
  <2>1. CASE ClickRequest(p)
    <3>1. PICK l, j : /\ Start(p, l, j) /\ l \notin {"settle", "hook_pay"}
                      /\ j.afterNotify # "settle"
      BY <1>2, <2>1 DEF ClickRequest, PlaceOrder, Complete
    <3> QED BY <1>4, <3>1
  <2>2. CASE ShopCook(p)
    BY <1>1, <2>2 DEF ShopCook, FlowTypeOK, Job
  <2>3. CASE ClickStep(p) /\ ~ShopCook(p)
    <3>1. PICK l \in {"idle"} \cup ClickPC : Goto(p, l)
      BY <2>3 DEF ClickStep, CheckoutPrepare, InvoiceInsert, AddLink, ShopFail,
                  ShopInvoice, ShopPay, HandlerRead, HandlerPay, HandlerCook,
                  Return, ClickPC
    <3> QED BY <1>3, <3>1 DEF ClickPC
  <2> QED BY <1>7, <2>1, <2>2, <2>3 DEF ClickTurn
<1>8. CASE SharedTurn(p)
  <2>1. CASE SendPost(p)
    BY <1>1, <2>1 DEF SendPost, FlowTypeOK, Job
  <2>2. CASE FlowStep(p) /\ ~SendPost(p)
    <3>1. PICK l : Goto(p, l) /\ l \notin {"settle", "hook_pay"}
      BY <1>1, <2>2 DEF FlowStep, SendRead, SendPostLost, SendPostRefused,
                        SendMeta, Claim, Push
    <3> QED BY <1>3, <3>1
  <2> QED BY <1>8, <2>1, <2>2 DEF SharedTurn
<1> QED BY <1>5, <1>6, <1>7, <1>8 DEF CheckoutTurn

\* Every step keeps MoneyTaken.
LEMMA MoneyTakenKept ==
  ASSUME CheckoutInv, MoneyTaken, [CheckoutNext]_checkoutVars,
         "COMPLETED" \notin OperatorStatus
  PROVE  MoneyTaken'
<1>1. /\ CheckoutInv' /\ FulfilStep /\ TxnForward /\ charged \subseteq charged'
      /\ FlowTypeOK /\ paidOnce \subseteq Order
  BY CheckoutNextKeeps, ChargedStays
  DEF CheckoutInv, ServiceInv, FlowInv, RepoInv, RepoTypeOK
<1>2. \A o : Taken(o) => Taken(o)'
  BY <1>1 DEF Taken, TxnForward, Settled, Canceled
<1>3. \A o \in Order : orders'[o].method \in Online <=> orders[o].method \in Online
  BY <1>1 DEF FulfilStep, Fulfil!Next, Fulfil!Pay, Fulfil!Prepare,
              Fulfil!Record, Fulfil!fulfilmentVars
<1>4. \A p \in Proc : At(p, "hook_pay") => Ord(p) \in Order
  BY <1>1 DEF FlowTypeOK, At
<1>5. ASSUME UNCHANGED paidOnce,
             \A p \in Proc : \/ pc'[p] = pc[p] /\ job'[p] = job[p]
                             \/ pc'[p] = "idle" /\ job'[p] = NoJob
      PROVE  MoneyTaken'
  BY <1>1, <1>2, <1>3, <1>4, <1>5 DEF MoneyTaken, At, Ord, NoJob
<1>6. CASE CheckoutElsewhere \/ UNCHANGED checkoutVars
  <2>1. UNCHANGED <<paidOnce, pc, job>>
    BY <1>6
    DEF CheckoutElsewhere, CreateUnlinked, CreateOrder, DeleteUnreferenced,
        DeleteOrder, ShopPrepare, Insert, Remove, checkoutVars, flowVars,
        repoVars
  <2>2. \A p \in Proc : pc'[p] = pc[p] /\ job'[p] = job[p]
    BY <2>1
  <2> QED BY <1>5, <2>1, <2>2
<1>7. CASE CheckoutCrash
  BY <1>5, <1>7 DEF CheckoutCrash, ClickCrash, Crash, repoVars
<1>8. ASSUME NEW p \in Proc, CheckoutTurn(p)
      PROVE  MoneyTaken'
  <2>1. paidOnce' \subseteq Order
    BY <1>1 DEF CheckoutInv, ServiceInv, FlowInv, RepoInv, RepoTypeOK
  <2>2. \A o \in paidOnce' : orders'[o].method \in Online => Taken(o)'
    BY <1>2, <1>3, <1>8, <2>1, TurnPays DEF MoneyTaken
  <2>3. CASE pc'[p] = "hook_pay" => Ord(p) \in Order
    BY <1>3, <1>4, <1>8, <2>2, <2>3, TurnCollects DEF MoneyTaken, At, Ord
  <2>4. pc'[p] = "hook_pay" => Ord(p) \in Order
    BY <1>1, <1>8, TurnCollects
    DEF CheckoutInv, ServiceInv, FlowInv, FlowTypeOK, At, Ord
  <2> QED BY <2>3, <2>4
<1> QED
  BY <1>6, <1>7, <1>8 DEF CheckoutNext, CheckoutElsewhere, CheckoutTurn

\* The kitchen gets an order that is paid online only if Payme or Click took
\* the money for it, for any number of goroutines, transactions and attempts
\* and whatever fails, while no operator completes an order by hand (which
\* counts as paying it; PerformTransaction, ShopComplete).
THEOREM KitchenOnlyForMoney ==
  ASSUME "COMPLETED" \notin OperatorStatus
  PROVE  CheckoutSpec => []KitchenOnlyIfTaken
<1>1. CheckoutInit => MoneyTaken
  BY DEF CheckoutInit, PaymeInit, RepoInit, FlowInit, MoneyTaken, At, NoJob
<1>2. /\ CheckoutInv /\ MoneyTaken /\ [CheckoutNext]_checkoutVars
      => MoneyTaken'
  BY MoneyTakenKept
<1>3. CheckoutInv /\ MoneyTaken => KitchenOnlyIfTaken
  BY DEF CheckoutInv, ServiceInv, FlowInv, OnlineSubmittedOnlyIfPaid,
         MoneyTaken, Taken, Settled, Canceled, KitchenOnlyIfTaken
<1> QED BY <1>1, <1>2, <1>3, CheckoutInvariant, PTL DEF CheckoutSpec

=============================================================================
