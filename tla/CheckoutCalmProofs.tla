------------------------- MODULE CheckoutCalmProofs -------------------------
(***************************************************************************)
(* What the order service, Payme and Click keep together while the         *)
(* database answers and the server does not stop: no payment, no order of  *)
(* the kitchen and no cash is lost from sight.  And what they keep when    *)
(* requests are handled one at a time, which the model checker refutes     *)
(* when they are not.                                                      *)
(***************************************************************************)
EXTENDS CheckoutProofs

----------------------------------------------------------------------------
(* What a turn touches                                                     *)

\* A turn of p is nobody else's.
LEMMA TurnIsOwn ==
  ASSUME CheckoutInv, NEW p \in Proc, CheckoutTurn(p)
  PROVE  \A q \in Proc \ {p} : pc'[q] = pc[q] /\ job'[q] = job[q]
<1>1. FlowTypeOK
  BY DEF CheckoutInv, ServiceInv, FlowInv
<1>2. (\E L : Runs(p, L)) => \A q \in Proc \ {p} : pc'[q] = pc[q] /\ job'[q] = job[q]
  BY <1>1 DEF Runs, FlowTypeOK
<1>3. CASE ServiceTurn(p)
  BY <1>1, <1>2, <1>3, ServiceRuns DEF ServiceTurn
<1>4. CASE PaymeTurn(p)
  BY <1>1, <1>2, <1>4, PaymeRuns DEF PaymeTurn
<1>5. CASE ClickTurn(p)
  BY <1>1, <1>5, ClickGoes DEF ClickTurn, FlowTypeOK
<1>6. CASE SharedTurn(p)
  BY <1>1, <1>2, <1>6, FlowRuns DEF SharedTurn
<1> QED BY <1>3, <1>4, <1>5, <1>6 DEF CheckoutTurn

\* The row of o was inserted, be it deleted since.
Placed(o) == table[o] # "new"

\* Nothing refers to an order before it is in the table.
PlacedInv ==
  /\ \A p \in Proc : ~At(p, "idle") => Placed(Ord(p))
  /\ \A t \in Txn : txn[t].state # "none" => Placed(txn[t].ord)
  /\ \A o \in Order : ~Placed(o) =>
       /\ orders[o].status # "COMPLETED"
       /\ orders[o].notified = NeverNotified
       /\ submitted[o] = 0 /\ told[o] = NeverNotified
       /\ invoice[o] = "none"
       /\ o \notin linked \cup prepared

\* What p works on after its turn it worked on before, or it is in the table.
TakesPlaced(p) ==
  \/ pc'[p] = "idle"
  \/ ~At(p, "idle") /\ Ord(p)' = Ord(p)
  \/ Placed(Ord(p))'

\* A turn inserts a row at most, and concerns an order in the table.
Touches(p) ==
  /\ \A o \in Order : Placed(o) => table'[o] = table[o]
  /\ TakesPlaced(p)
  /\ \A o \in Order : ~Placed(o) =>
       /\ orders'[o] = orders[o]
       /\ \/ ~At(p, "idle") /\ Ord(p) = o
          \/ /\ submitted'[o] = submitted[o] /\ told'[o] = told[o]
             /\ invoice'[o] = invoice[o]
             /\ o \in linked' \cup prepared' => o \in linked \cup prepared

\* An UPDATE finds a row that is stored and changes no other.
LEMMA RepoTouches ==
  ASSUME RepoTypeOK
  PROVE  /\ \A o, s : WriteStatus(o, s) =>
              /\ Stored(o) /\ UNCHANGED table
              /\ \A x \in Order : x = o \/ orders'[x] = orders[x]
         /\ \A o, ps : WritePayment(o, ps) =>
              /\ Stored(o) /\ UNCHANGED table
              /\ \A x \in Order : x = o \/ orders'[x] = orders[x]
         /\ \A o, i : WriteIikoMeta(o, i) =>
              /\ Stored(o) /\ UNCHANGED table
              /\ \A x \in Order : x = o \/ orders'[x] = orders[x]
         /\ \A o, s : TryMarkNotified(o, s) =>
              /\ Stored(o) /\ UNCHANGED table
              /\ \A x \in Order : x = o \/ orders'[x] = orders[x]
  BY DEF RepoTypeOK, WriteStatus, WritePayment, WriteIikoMeta,
         TryMarkNotified, Markable

\* So does a statement whose error the handler ignores.
LEMMA IgnoredTouches ==
  ASSUME RepoTypeOK
  PROVE  /\ \A o, s : StatusOrIgnore(o, s) =>
              /\ UNCHANGED table
              /\ \A x \in Order : (x = o /\ Stored(o)) \/ orders'[x] = orders[x]
         /\ \A o, ps : PaymentOrIgnore(o, ps) =>
              /\ UNCHANGED table
              /\ \A x \in Order : (x = o /\ Stored(o)) \/ orders'[x] = orders[x]
         /\ \A o, i : IikoMetaOrIgnore(o, i) =>
              /\ UNCHANGED table
              /\ \A x \in Order : (x = o /\ Stored(o)) \/ orders'[x] = orders[x]
  BY RepoTouches DEF StatusOrIgnore, PaymentOrIgnore, IikoMetaOrIgnore,
                     StatementFails, repoVars

\* Every turn does.
LEMMA TurnTouches ==
  ASSUME CheckoutInv, PlacedInv, NEW p \in Proc, CheckoutTurn(p)
  PROVE  Touches(p)
<1> USE DEF Touches, TakesPlaced, Placed, Stored
<1>1. /\ RepoTypeOK /\ FlowTypeOK /\ ClickVarsOK /\ TxnTypeOK
      /\ ~At(p, "idle") => Ord(p) \in Order
      /\ \A o : JobFor(o).ord = o
  BY DEF CheckoutInv, ServiceInv, FlowInv, RepoInv, ClickCore, PaymeCore,
         FlowTypeOK, JobFor, NoJob
<1>2. ASSUME NEW l, Goto(p, l)
      PROVE  l = "idle" \/ Ord(p)' = Ord(p)
  BY <1>2 DEF Goto, Ord
<1>3. ASSUME NEW l, Goto(p, l), ~At(p, "idle")
      PROVE  TakesPlaced(p)
  BY <1>1, <1>2, <1>3 DEF Goto, FlowTypeOK
<1>4. ASSUME NEW l, NEW j, Start(p, l, j), j.ord \in Order, Placed(j.ord)'
      PROVE  TakesPlaced(p)
  BY <1>1, <1>4 DEF Start, FlowTypeOK, Ord
<1>5. CASE ServiceTurn(p)
  <2>1. CASE ServiceRequest(p)
    <3>1. ASSUME NEW o \in Order, NEW s \in OperatorStatus, UpdateStatus(p, o, s)
          PROVE  Touches(p)
      <4>1. TakesPlaced(p)
        BY <1>1, <1>4, <3>1, RepoTouches DEF UpdateStatus, JobFor, NoJob
      <4> QED
        BY <1>1, <1>5, <3>1, <4>1, RepoTouches
        DEF UpdateStatus, ServiceTurn, clickVars
    <3>2. ASSUME NEW o \in Order, NEW i \in IikoId, NEW is \in ReportedStatus,
                 HookUpdate(p, o, i, is)
          PROVE  Touches(p)
      BY <1>1, <1>4, <1>5, <3>2
      DEF HookUpdate, ServiceTurn, clickVars, repoVars, JobFor, NoJob
    <3>3. ASSUME NEW o \in Order, NEW i \in IikoId,
                 HookNotCreated(p, o, i) \/ HookError(p, o, i)
          PROVE  Touches(p)
      BY <1>1, <1>4, <1>5, <3>3
      DEF HookNotCreated, HookError, ServiceTurn, clickVars, repoVars, JobFor,
          NoJob
    <3> QED BY <2>1, <3>1, <3>2, <3>3 DEF ServiceRequest
  <2>2. CASE ServiceStep(p)
    <3>1. TakesPlaced(p)
      BY <1>3, <2>2
      DEF ServiceStep, Settle, HookReject, HookMeta, HookSet, HookPay,
          ErrorMeta, ErrorSet, At
    <3>2. /\ UNCHANGED table
          /\ \A x \in Order : Stored(x) \/ orders'[x] = orders[x]
      BY <1>1, <2>2, RepoTouches, IgnoredTouches
      DEF ServiceStep, Settle, HookReject, HookMeta, HookSet, HookPay,
          ErrorMeta, ErrorSet, StatementFails, repoVars
    <3>3. UNCHANGED <<submitted, told, clickVars>>
      BY <1>5, <2>2
      DEF ServiceTurn, ServiceStep, Settle, HookReject, HookMeta, HookSet,
          HookPay, ErrorMeta, ErrorSet
    <3> QED BY <3>1, <3>2, <3>3 DEF clickVars
  <2> QED BY <1>5, <2>1, <2>2 DEF ServiceTurn
<1>6. CASE PaymeTurn(p)
  <2>1. CASE PaymeRequest(p)
    <3>1. PICK t \in Txn :
            \/ PerformTransaction(p, t)
            \/ CancelTransaction(p, t)
            \/ \E o \in Order : CreateTransaction(p, t, o)
      BY <2>1 DEF PaymeRequest
    <3>2. UNCHANGED <<repoVars, submitted, told, clickVars>>
      BY <1>6, <3>1 DEF PaymeTurn, PerformTransaction, CancelTransaction,
                        CreateTransaction
    <3>3. CASE \E o \in Order : CreateTransaction(p, t, o)
      BY <1>1, <1>4, <3>2, <3>3
      DEF CreateTransaction, AcceptsPayment, repoVars, clickVars
    <3>4. CASE PerformTransaction(p, t) \/ CancelTransaction(p, t)
      <4>1. txn[t].ord \in Order /\ Placed(txn[t].ord)
        BY <3>4 DEF PlacedInv, CheckoutInv, PaymeCore, TxnOrderOK,
                    PerformTransaction, Performable, CancelTransaction
      <4> QED
        BY <1>1, <1>4, <3>2, <3>4, <4>1
        DEF PerformTransaction, CancelTransaction, repoVars, clickVars
    <3> QED BY <3>1, <3>3, <3>4
  <2>2. CASE PaymeStep(p)
    <3>1. TakesPlaced(p)
      <4>1. CASE PerformCook(p)
        BY <1>1, <4>1 DEF PerformCook, At, FlowTypeOK, Job, Ord
      <4>2. CASE PaymeStep(p) /\ ~PerformCook(p)
        BY <1>3, <4>2
        DEF PaymeStep, CreateLookup, CreateInsert, MarkPerformed, PerformPay,
            MarkCanceled, CancelOrder, At
      <4> QED BY <2>2, <4>1, <4>2
    <3>2. /\ UNCHANGED table
          /\ \A x \in Order : Stored(x) \/ orders'[x] = orders[x]
      BY <1>1, <2>2, IgnoredTouches
      DEF PaymeStep, CreateLookup, CreateInsert, MarkPerformed, PerformPay,
          PerformCook, MarkCanceled, CancelOrder, repoVars
    <3>3. UNCHANGED <<submitted, told, clickVars>>
      BY <1>6, <2>2
      DEF PaymeTurn, PaymeStep, CreateLookup, CreateInsert, MarkPerformed,
          PerformPay, PerformCook, MarkCanceled, CancelOrder
    <3> QED BY <3>1, <3>2, <3>3 DEF clickVars
  <2> QED BY <1>6, <2>1, <2>2 DEF PaymeTurn
<1>7. CASE ClickTurn(p)
  <2>1. CASE ClickRequest(p)
    <3>1. ASSUME NEW o \in Order, PlaceOrder(p, o)
          PROVE  Touches(p)
      BY <1>1, <1>4, <3>1 DEF PlaceOrder, Insert, RepoTypeOK, clickVars
    <3>2. ASSUME NEW o \in Order, NEW r \in Outcomes, Complete(p, o, r)
          PROVE  Touches(p)
      <4>1. Placed(o)
        BY <3>2 DEF Complete, PlacedInv
      <4> QED
        BY <1>1, <1>4, <3>2, <4>1 DEF Complete, repoVars
    <3> QED BY <2>1, <3>1, <3>2 DEF ClickRequest
  <2>2. CASE ClickStep(p)
    <3>1. TakesPlaced(p)
      <4>1. CASE ShopCook(p)
        BY <1>1, <4>1 DEF ShopCook, At, FlowTypeOK, Job, Ord
      <4>2. CASE ClickStep(p) /\ ~ShopCook(p)
        BY <1>3, <4>2
        DEF ClickStep, CheckoutPrepare, InvoiceInsert, AddLink, ShopFail,
            ShopInvoice, ShopPay, HandlerRead, HandlerPay, HandlerCook,
            Return, At
      <4> QED BY <2>2, <4>1, <4>2
    <3>2. /\ UNCHANGED table
          /\ \A x \in Order : Stored(x) \/ orders'[x] = orders[x]
      BY <1>1, <2>2, RepoTouches, IgnoredTouches
      DEF ClickStep, CheckoutPrepare, InvoiceInsert, AddLink, ShopFail,
          ShopInvoice, ShopPay, ShopCook, HandlerRead, HandlerPay, HandlerCook,
          StatementFails, repoVars
    <3>3. UNCHANGED <<submitted, told>>
      BY <2>2
      DEF ClickStep, CheckoutPrepare, InvoiceInsert, AddLink, ShopFail,
          ShopInvoice, ShopPay, ShopCook, HandlerRead, HandlerPay, HandlerCook
    <3>4. ~At(p, "idle")
      BY <2>2
      DEF ClickStep, CheckoutPrepare, InvoiceInsert, AddLink, ShopFail,
          ShopInvoice, ShopPay, ShopCook, HandlerRead, HandlerPay, HandlerCook,
          At
    <3>5. \A x \in Order : Ord(p) = x \/
             /\ invoice'[x] = invoice[x]
             /\ x \in linked' \cup prepared' => x \in linked \cup prepared
      BY <1>1, <2>2
      DEF ClickStep, CheckoutPrepare, InvoiceInsert, AddLink, ShopFail,
          ShopInvoice, ShopPay, ShopCook, HandlerRead, HandlerPay, HandlerCook,
          CreateInvoice, UpdateOnComplete, clickVars, ClickVarsOK
    <3> QED BY <3>1, <3>2, <3>3, <3>4, <3>5
  <2> QED BY <1>7, <2>1, <2>2 DEF ClickTurn
<1>8. CASE SharedTurn(p)
  <2>1. TakesPlaced(p)
    <3>1. CASE SendPost(p)
      BY <1>1, <3>1 DEF SendPost, At, FlowTypeOK, Job, Ord
    <3>2. CASE FlowStep(p) /\ ~SendPost(p)
      BY <1>3, <3>2
      DEF FlowStep, SendRead, SendPostLost, SendPostRefused, SendMeta, Claim,
          Push, At
    <3> QED BY <1>8, <3>1, <3>2 DEF SharedTurn
  <2>2. /\ UNCHANGED table
        /\ \A x \in Order : Stored(x) \/ orders'[x] = orders[x]
    BY <1>1, <1>8, RepoTouches, IgnoredTouches
    DEF SharedTurn, FlowStep, SendRead, SendPost, SendPostLost,
        SendPostRefused, SendMeta, Claim, Push, repoVars
  <2>3. UNCHANGED clickVars /\ ~At(p, "idle")
    BY <1>8
    DEF SharedTurn, FlowStep, SendRead, SendPost, SendPostLost,
        SendPostRefused, SendMeta, Claim, Push, At
  <2>4. \A x \in Order : \/ Ord(p) = x
                         \/ submitted'[x] = submitted[x] /\ told'[x] = told[x]
    BY <1>1, <1>8
    DEF SharedTurn, FlowStep, SendRead, SendPost, SendPostLost,
        SendPostRefused, SendMeta, Claim, Push, FlowTypeOK
  <2> QED BY <2>1, <2>2, <2>3, <2>4 DEF clickVars
<1> QED BY <1>5, <1>6, <1>7, <1>8 DEF CheckoutTurn

\* A step that no goroutine takes inserts or deletes a row, and deletes none
\* that a transaction refers to.
LEMMA ElsewhereTouches ==
  ASSUME CheckoutInv, CheckoutElsewhere \/ UNCHANGED checkoutVars
  PROVE  /\ UNCHANGED <<orders, paidOnce, pc, job, submitted, told, txn, call,
                        invoice, linked, outcome, charged>>
         /\ \A o \in Order : /\ Placed(o) => Placed(o)'
                             /\ Stored(o)' => Stored(o) \/ ~Placed(o)
                             /\ o \in prepared' =>
                                  o \in prepared \/ invoice[o] # "none"
         /\ \A t \in Txn : txn[t].state # "none" /\ Stored(txn[t].ord) =>
                             Stored(txn[t].ord)'
<1>1. RepoTypeOK /\ TxnOrderOK
  BY DEF CheckoutInv, ServiceInv, FlowInv, RepoInv, PaymeCore
<1> QED
  BY <1>1 DEF CheckoutElsewhere, CreateUnlinked, CreateOrder, Insert,
              DeleteUnreferenced, DeleteOrder, Remove, ShopPrepare,
              UpsertPrepare, checkoutVars, repoVars, flowVars, paymeVars,
              clickVars, RepoTypeOK, TxnOrderOK, Placed, Stored

\* A transaction is opened for an order that is in the table.
LEMMA TurnOpens ==
  ASSUME CheckoutInv, NEW p \in Proc, CheckoutTurn(p), NEW t \in Txn,
         txn[t].state = "none", txn'[t].state # "none"
  PROVE  /\ CreateInsert(p) /\ txn'[t].ord = Ord(p)
         /\ Stored(Ord(p)) /\ UNCHANGED table
<1>1. TxnTypeOK
  BY DEF CheckoutInv, PaymeCore
<1>2. PaymeStep(p)
  BY DEF CheckoutTurn, ServiceTurn, SharedTurn, ClickTurn, PaymeTurn,
         PaymeRequest, PerformTransaction, CancelTransaction,
         CreateTransaction, paymeVars
<1>3. CreateInsert(p) \/ MarkPerformed(p) \/ MarkCanceled(p)
  BY <1>2 DEF PaymeStep, CreateLookup, PerformPay, PerformCook, CancelOrder,
              paymeVars
<1>4. CallMatches(txn, pc[p], Ord(p), call[p])
  BY DEF CheckoutInv, PaymeCore, CallOK
<1>5. CreateInsert(p)
  BY <1>1, <1>3, <1>4 DEF MarkPerformed, MarkCanceled, SetTxnState, At,
                          CallMatches, TxnTypeOK
<1>6. /\ txn' = [txn EXCEPT ![call[p].txn] = [ord |-> Ord(p), state |-> "created"]]
      /\ Stored(Ord(p)) /\ UNCHANGED table
  BY <1>5 DEF CreateInsert, Insertable, InsertIndexed, repoVars
<1>7. txn'[t].ord = Ord(p)
  BY <1>1, <1>6 DEF TxnTypeOK
<1> QED BY <1>5, <1>6, <1>7

\* Every step keeps PlacedInv.
LEMMA PlacedKept ==
  ASSUME CheckoutInv, PlacedInv, [CheckoutNext]_checkoutVars
  PROVE  PlacedInv'
<1>1. /\ FlowTypeOK /\ TxnTypeOK /\ TxnOrderOK /\ CheckoutInv' /\ TxnForward
      /\ RepoTypeOK
  BY CheckoutNextKeeps
  DEF CheckoutInv, ServiceInv, FlowInv, RepoInv, PaymeCore
<1>2. \A p \in Proc : ~At(p, "idle") => Ord(p) \in Order
  BY <1>1 DEF FlowTypeOK
<1>3. CASE CheckoutElsewhere \/ UNCHANGED checkoutVars
  <2>1. \A p \in Proc : Ord(p)' = Ord(p) /\ At(p, "idle")' = At(p, "idle")
    BY <1>3, ElsewhereTouches DEF Ord, At
  <2>2. \A t \in Txn : txn'[t] = txn[t] /\ (txn[t].state # "none" => txn[t].ord \in Order)
    BY <1>1, <1>3, ElsewhereTouches DEF TxnOrderOK
  <2> QED BY <1>2, <1>3, <2>1, <2>2, ElsewhereTouches DEF PlacedInv
<1>4. CASE CheckoutCrash
  BY <1>4 DEF CheckoutCrash, ClickCrash, Crash, repoVars, PlacedInv, At, Placed
<1>5. ASSUME NEW p \in Proc, CheckoutTurn(p)
      PROVE  PlacedInv'
  <2>1. Touches(p)
    BY <1>5, TurnTouches
  <2>2. \A q \in Proc : ~At(q, "idle")' => Placed(Ord(q))'
    BY <1>2, <1>5, <2>1, TurnIsOwn
    DEF Touches, TakesPlaced, PlacedInv, Placed, At, Ord
  <2>3. \A t \in Txn : txn'[t].state # "none" => Placed(txn[t].ord)'
    <3> SUFFICES ASSUME NEW t \in Txn, txn'[t].state # "none"
                 PROVE  Placed(txn[t].ord)'
      OBVIOUS
    <3>1. CASE txn[t].state # "none"
      <4>1. txn[t].ord \in Order /\ txn'[t].ord = txn[t].ord
        BY <1>1, <3>1 DEF TxnOrderOK, TxnForward
      <4> QED BY <2>1, <3>1, <4>1 DEF PlacedInv, Touches, Placed
    <3>2. CASE txn[t].state = "none"
      BY <1>5, <3>2, TurnOpens DEF Stored, Placed
    <3> QED BY <3>1, <3>2
  <2>4. \A o \in Order : ~Placed(o)' =>
          /\ ~Placed(o) /\ (At(p, "idle") \/ Ord(p) # o)
          /\ orders'[o] = orders[o]
          /\ submitted'[o] = submitted[o] /\ told'[o] = told[o]
          /\ invoice'[o] = invoice[o]
          /\ o \in linked' \cup prepared' => o \in linked \cup prepared
    BY <2>1 DEF PlacedInv, Touches, Placed
  <2> QED BY <2>2, <2>3, <2>4 DEF PlacedInv
<1> QED
  BY <1>3, <1>4, <1>5 DEF CheckoutNext, CheckoutElsewhere, CheckoutTurn

\* Before an order is in the table no handler, transaction, invoice, link or
\* iiko order refers to it, whatever fails.
THEOREM NothingBeforeItsRow == CheckoutSpec => []PlacedInv
<1>1. CheckoutInit => PlacedInv
  <2> SUFFICES ASSUME CheckoutInit PROVE PlacedInv
    OBVIOUS
  <2>1. \A o \in Order : /\ orders[o].status # "COMPLETED"
                         /\ orders[o].notified = NeverNotified
    <3> TAKE o \in Order
    <3>1. orders[o] \in {NewRow(m, d) : m \in Methods, d \in Deliveries}
      BY DEF CheckoutInit, ServiceInit, RepoInit
    <3>2. PICK m \in Methods, d \in Deliveries : orders[o] = NewRow(m, d)
      BY <3>1
    <3> QED BY <3>2 DEF NewRow
  <2> QED
    BY <2>1 DEF CheckoutInit, PaymeInit, ClickInit, FlowInit, PlacedInv, At
<1>2. CheckoutInv /\ PlacedInv /\ [CheckoutNext]_checkoutVars => PlacedInv'
  BY PlacedKept
<1> QED BY <1>1, <1>2, CheckoutInvariant, PTL DEF CheckoutSpec

----------------------------------------------------------------------------
(* The orders that iiko has                                                *)

\* An order's iiko id is replaced, never taken back.
LEMMA KnownStays ==
  ASSUME CheckoutInv, FulfilStep, NEW o \in Order, AlreadySent(orders[o])
  PROVE  AlreadySent(orders'[o])
<1> DEFINE known == [x \in Order |-> orders[x].iiko]
           next  == [x \in Order |-> orders'[x].iiko]
<1>1. \/ next = known
      \/ \E x \in Order : \E i \in 1 .. submitted[x] :
           next = [known EXCEPT ![x] = i]
  BY DEF FulfilStep, Fulfil!Next, Fulfil!Pay, Fulfil!Prepare, Fulfil!Record,
         Fulfil!fulfilmentVars
<1>2. known[o] = orders[o].iiko /\ next[o] = orders'[o].iiko
  OBVIOUS
<1>3. known[o] # 0
  BY <1>2 DEF AlreadySent, NoIikoId
<1>4. submitted \in [Order -> Nat] /\ known \in [Order -> Nat]
  BY MaxSubmissionsAssumption
  DEF CheckoutInv, ServiceInv, FlowInv, FlowTypeOK, RepoInv, RepoTypeOK, Row,
      IikoId
<1> HIDE DEF known, next
<1>5. ASSUME NEW x \in Order, NEW i \in 1 .. submitted[x],
             next = [known EXCEPT ![x] = i]
      PROVE  next[o] # 0
  <2>1. i # 0
    BY <1>4
  <2> QED BY <1>3, <1>4, <1>5, <2>1
<1>6. next[o] # 0
  BY <1>1, <1>3, <1>5
<1> QED BY <1>2, <1>6 DEF AlreadySent, NoIikoId

\* Only the POST of an order makes iiko create one.
LEMMA TurnSubmits ==
  ASSUME NEW p \in Proc, CheckoutTurn(p), submitted' # submitted
  PROVE  SendPost(p) \/ SendPostLost(p)
<1>1. CASE ServiceTurn(p)
  BY <1>1 DEF ServiceTurn, ServiceRequest, UpdateStatus, HookUpdate,
              HookNotCreated, HookError, ServiceStep, Settle, HookReject,
              HookMeta, HookSet, HookPay, ErrorMeta, ErrorSet
<1>2. CASE PaymeTurn(p)
  BY <1>2 DEF PaymeTurn, PaymeRequest, PerformTransaction, CancelTransaction,
              CreateTransaction, PaymeStep, CreateLookup, CreateInsert,
              MarkPerformed, PerformPay, PerformCook, MarkCanceled, CancelOrder
<1>3. CASE ClickTurn(p)
  BY <1>3 DEF ClickTurn, ClickRequest, PlaceOrder, Complete, ClickStep,
              CheckoutPrepare, InvoiceInsert, AddLink, ShopFail, ShopInvoice,
              ShopPay, ShopCook, HandlerRead, HandlerPay, HandlerCook
<1>4. CASE SharedTurn(p)
  BY <1>4 DEF SharedTurn, FlowStep, SendRead, SendPostRefused, SendMeta, Claim,
              Push
<1> QED BY <1>1, <1>2, <1>3, <1>4 DEF CheckoutTurn

\* A goroutine that holds the id of a new iiko order stores it next.
LEMMA MetaIsStored ==
  ASSUME NEW p \in Proc, CheckoutTurn(p), At(p, "meta")
  PROVE  SendMeta(p)
<1>1. ~ServiceTurn(p)
  BY DEF ServiceTurn, ServiceRequest, UpdateStatus, HookUpdate, Start,
         HookNotCreated, HookError, ServiceStep, Settle, HookReject,
         HookMeta, HookSet, HookPay, ErrorMeta, ErrorSet, At
<1>2. ~PaymeTurn(p)
  BY DEF PaymeTurn, PaymeRequest, PerformTransaction, CancelTransaction, Start,
         CreateTransaction, PaymeStep, CreateLookup, CreateInsert,
         MarkPerformed, PerformPay, PerformCook, MarkCanceled, CancelOrder, At
<1>3. ~ClickTurn(p)
  BY DEF ClickTurn, ClickRequest, PlaceOrder, Complete, ClickStep, Start,
         CheckoutPrepare, InvoiceInsert, AddLink, ShopFail, ShopInvoice,
         ShopPay, ShopCook, HandlerRead, HandlerPay, HandlerCook, At
<1> QED
  BY <1>1, <1>2, <1>3 DEF CheckoutTurn, SharedTurn, FlowStep, SendRead,
     SendPost, SendPostLost, SendPostRefused, Claim, Push, At

\* While nothing fails, every step keeps SubmissionRecorded.
LEMMA RecordKept ==
  ASSUME CheckoutInv, PlacedInv, SubmissionRecorded,
         [CheckoutNext]_checkoutVars, Faults = {}
  PROVE  SubmissionRecorded'
<1>1. /\ FlowTypeOK /\ RepoTypeOK /\ IdHeld /\ FulfilStep
  BY CheckoutNextKeeps DEF CheckoutInv, ServiceInv, FlowInv, RepoInv
<1>2. CASE CheckoutElsewhere \/ UNCHANGED checkoutVars
  BY <1>2, ElsewhereTouches DEF SubmissionRecorded, PlacedInv, Ord, At
<1>3. ASSUME NEW p \in Proc, CheckoutTurn(p)
      PROVE  SubmissionRecorded'
  <2>1. Touches(p) /\ \A q \in Proc \ {p} : pc'[q] = pc[q] /\ job'[q] = job[q]
    BY <1>3, TurnTouches, TurnIsOwn
  <2> SUFFICES ASSUME NEW o \in Order, Stored(o)', submitted'[o] > 0,
                      ~AlreadySent(orders[o])'
               PROVE  \E q \in Proc : Ord(q)' = o /\ At(q, "meta")'
    BY DEF SubmissionRecorded
  <2>2. ~AlreadySent(orders[o])
    BY <1>1, KnownStays
  <2>3. CASE submitted'[o] # submitted[o]
    <3>1. SendPost(p)
      BY <1>3, <2>3, TurnSubmits DEF SendPostLost
    <3>2. Ord(p) = o /\ Ord(p)' = o /\ At(p, "meta")'
      BY <1>1, <2>3, <3>1 DEF SendPost, FlowTypeOK, Job, Ord, At
    <3> QED BY <3>2
  <2>4. CASE submitted'[o] = submitted[o]
    <3>1. Placed(o)
      BY <2>4 DEF PlacedInv
    <3>2. Stored(o)
      BY <2>1, <3>1 DEF Touches, Placed, Stored
    <3>3. PICK q \in Proc : Ord(q) = o /\ At(q, "meta")
      BY <2>2, <2>4, <3>2 DEF SubmissionRecorded
    <3>4. q # p
      <4> SUFFICES ASSUME q = p PROVE FALSE
        OBVIOUS
      <4>1. SendMeta(p)
        BY <1>3, <3>3, MetaIsStored
      <4>2. orders'[o].iiko = job[p].iiko /\ job[p].iiko \in 1 .. submitted[o]
        BY <1>1, <3>2, <3>3, <4>1
        DEF SendMeta, IikoMetaOrIgnore, WriteIikoMeta, StatementFails,
            RepoTypeOK, Row, IdHeld, MetaPC, At
      <4> QED BY <4>2 DEF AlreadySent, NoIikoId
    <3> QED BY <2>1, <3>3, <3>4 DEF Ord, At
  <2> QED BY <2>3, <2>4
<1> QED
  BY <1>2, <1>3
  DEF CheckoutNext, CheckoutElsewhere, CheckoutTurn, CheckoutCrash, ClickCrash,
      Crash

\* While nothing fails, the shop knows the iiko id of every order that iiko
\* has, or a handler is about to store it: for any number of goroutines, of
\* handlers that send the same order and of webhooks (UpdateIikoMeta).
THEOREM KitchenOrdersAreKnown ==
  ASSUME Faults = {}
  PROVE  CheckoutSpec => []SubmissionRecorded
<1>1. CheckoutInit => SubmissionRecorded
  BY DEF CheckoutInit, ServiceInit, FlowInit, SubmissionRecorded
<1>2. /\ CheckoutInv /\ PlacedInv /\ SubmissionRecorded
      /\ [CheckoutNext]_checkoutVars
      => SubmissionRecorded'
  BY RecordKept
<1> QED
  BY <1>1, <1>2, CheckoutInvariant, NothingBeforeItsRow, PTL DEF CheckoutSpec

----------------------------------------------------------------------------
(* What Click was paid                                                     *)

\* What has been PAID stays so in the history.
LEMMA PaidStays ==
  ASSUME FulfilStep
  PROVE  paidOnce \subseteq paidOnce'
  BY DEF FulfilStep, Fulfil!Next, Fulfil!Pay, Fulfil!Prepare, Fulfil!Record,
         Fulfil!fulfilmentVars

\* An invoice is marked paid by ShopInvoice only, which goes on to pay the
\* order.
LEMMA TurnPaysInvoice ==
  ASSUME CheckoutInv, NEW p \in Proc, CheckoutTurn(p), NEW o \in Order,
         invoice[o] # "paid", invoice'[o] = "paid"
  PROVE  At(p, "shop_pay")' /\ Ord(p)' = o
<1>1. FlowTypeOK /\ ClickVarsOK
  BY DEF CheckoutInv, ServiceInv, FlowInv, ClickCore
<1>2. ShopInvoice(p)
  BY <1>1 DEF CheckoutTurn, ServiceTurn, PaymeTurn, SharedTurn, ClickTurn,
              ClickRequest, PlaceOrder, Complete, ClickStep, CheckoutPrepare,
              InvoiceInsert, CreateInvoice, AddLink, ShopFail, ShopPay,
              ShopCook, HandlerRead, HandlerPay, HandlerCook, clickVars,
              ClickVarsOK
<1> QED
  BY <1>1, <1>2 DEF ShopInvoice, UpdateOnComplete, Goto, At, Ord, FlowTypeOK,
                    ClickVarsOK

\* A goroutine that has marked the invoice pays the order next.
LEMMA ShopPayIsNext ==
  ASSUME NEW p \in Proc, CheckoutTurn(p), At(p, "shop_pay")
  PROVE  ShopPay(p)
<1>1. ~ServiceTurn(p)
  BY DEF ServiceTurn, ServiceRequest, UpdateStatus, HookUpdate, Start,
         HookNotCreated, HookError, ServiceStep, Settle, HookReject,
         HookMeta, HookSet, HookPay, ErrorMeta, ErrorSet, At
<1>2. ~PaymeTurn(p)
  BY DEF PaymeTurn, PaymeRequest, PerformTransaction, CancelTransaction, Start,
         CreateTransaction, PaymeStep, CreateLookup, CreateInsert,
         MarkPerformed, PerformPay, PerformCook, MarkCanceled, CancelOrder, At
<1>3. ~SharedTurn(p)
  BY DEF SharedTurn, FlowStep, SendRead, SendPost, SendPostLost,
         SendPostRefused, SendMeta, Claim, Push, At
<1> QED
  BY <1>1, <1>2, <1>3
  DEF CheckoutTurn, ClickTurn, ClickRequest, PlaceOrder, Complete, ClickStep,
      Start, CheckoutPrepare, InvoiceInsert, AddLink, ShopFail, ShopInvoice,
      ShopCook, HandlerRead, HandlerPay, HandlerCook, At

\* Every step keeps PaidInvoiceIsPaidOrder while the database and the server
\* do not fail.
LEMMA PaidInvoiceKept ==
  ASSUME CheckoutInv, PlacedInv, PaidInvoiceIsPaidOrder,
         [CheckoutNext]_checkoutVars, Faults \cap {"db", "crash"} = {}
  PROVE  PaidInvoiceIsPaidOrder'
<1>1. FlowTypeOK /\ FulfilStep
  BY CheckoutNextKeeps DEF CheckoutInv, ServiceInv, FlowInv
<1>2. CASE CheckoutElsewhere \/ UNCHANGED checkoutVars
  BY <1>2, ElsewhereTouches DEF PaidInvoiceIsPaidOrder, PlacedInv, Ord, At
<1>3. ASSUME NEW p \in Proc, CheckoutTurn(p)
      PROVE  PaidInvoiceIsPaidOrder'
  <2>1. Touches(p) /\ \A q \in Proc \ {p} : pc'[q] = pc[q] /\ job'[q] = job[q]
    BY <1>3, TurnTouches, TurnIsOwn
  <2> SUFFICES ASSUME NEW o \in Order, Stored(o)', invoice'[o] = "paid",
                      o \notin paidOnce'
               PROVE  \E q \in Proc : At(q, "shop_pay")' /\ Ord(q)' = o
    BY DEF PaidInvoiceIsPaidOrder
  <2>2. o \notin paidOnce
    BY <1>1, PaidStays
  <2>3. CASE invoice[o] # "paid"
    BY <1>3, <2>3, TurnPaysInvoice
  <2>4. CASE invoice[o] = "paid"
    <3>1. Stored(o)
      BY <2>1, <2>4 DEF PlacedInv, Touches, Placed, Stored
    <3>2. PICK q \in Proc : At(q, "shop_pay") /\ Ord(q) = o
      BY <2>2, <2>4, <3>1 DEF PaidInvoiceIsPaidOrder
    <3>3. q # p
      BY <1>3, <3>1, <3>2, ShopPayIsNext
      DEF ShopPay, WritePayment, StatementFails
    <3> QED BY <2>1, <3>2, <3>3 DEF At, Ord
  <2> QED BY <2>3, <2>4
<1> QED
  BY <1>2, <1>3
  DEF CheckoutNext, CheckoutElsewhere, CheckoutTurn, CheckoutCrash, ClickCrash,
      Crash

\* A PAID invoice never leaves its order behind while the database and the
\* server do not fail, with all handlers at work and whatever iiko does
\* (UpdateOnComplete and then UpdatePaymentStatus).
THEOREM InvoicePaysItsOrder ==
  ASSUME Faults \cap {"db", "crash"} = {}
  PROVE  CheckoutSpec => []PaidInvoiceIsPaidOrder
<1>1. CheckoutInit => PaidInvoiceIsPaidOrder
  BY DEF CheckoutInit, ClickInit, PaidInvoiceIsPaidOrder
<1>2. /\ CheckoutInv /\ PlacedInv /\ PaidInvoiceIsPaidOrder
      /\ [CheckoutNext]_checkoutVars
      => PaidInvoiceIsPaidOrder'
  BY PaidInvoiceKept
<1> QED
  BY <1>1, <1>2, CheckoutInvariant, NothingBeforeItsRow, PTL DEF CheckoutSpec

----------------------------------------------------------------------------
(* The money of a COMPLETED order                                          *)

\* Without attempts that fail, an order that was PAID is; a webhook that is
\* going to write its status is about an order iiko has, and the one that
\* reports an error rejects.
CashInv ==
  /\ CompletedIsPaid
  /\ \A o \in paidOnce : orders[o].pay = "PAID"
  /\ \A p \in Proc : /\ At(p, "hook_set") => submitted[Ord(p)] > 0
                     /\ pc[p] \in {"error_meta", "error_set"} =>
                          job[p].status = "REJECTED"
                     /\ ~At(p, "shop_fail")

\* Nobody makes an order UNPAID then.
LEMMA TurnUnpaysNot ==
  ASSUME CheckoutInv, CashInv, NEW p \in Proc, CheckoutTurn(p),
         "failure" \notin Outcomes, NEW o \in Order
  PROVE  /\ orders[o].pay = "PAID" => orders'[o].pay = "PAID"
         /\ o \in paidOnce' \ paidOnce => orders'[o].pay = "PAID"
<1> DEFINE Stays == /\ orders[o].pay = "PAID" => orders'[o].pay = "PAID"
                    /\ o \in paidOnce' \ paidOnce => orders'[o].pay = "PAID"
<1>1. RepoTypeOK /\ ClickVarsOK
  BY DEF CheckoutInv, ServiceInv, FlowInv, RepoInv, ClickCore
<1>2. /\ UNCHANGED repoVars => Stays
      /\ \A x \in Order : Insert(x) => Stays
      /\ \A x \in Order : WritePayment(x, "PAID") => Stays
      /\ \A x, s : WriteStatus(x, s) => Stays
      /\ \A x, i : WriteIikoMeta(x, i) => Stays
      /\ \A x, s : TryMarkNotified(x, s) => Stays
  BY <1>1 DEF repoVars, WritePayment, WriteStatus, WriteIikoMeta,
              TryMarkNotified, Insert, RepoTypeOK, Row
<1>3. ~At(p, "idle") => Ord(p) \in Order
  BY DEF CheckoutInv, ServiceInv, FlowInv, FlowTypeOK
<1> SUFFICES Stays
  OBVIOUS
<1> HIDE DEF Stays
<1>4. CASE ServiceTurn(p)
  <2>1. CASE ServiceRequest(p)
    BY <1>2, <2>1 DEF ServiceRequest, UpdateStatus, HookUpdate,
                      HookNotCreated, HookError
  <2>2. CASE ServiceStep(p)
    BY <1>2, <1>3, <2>2
    DEF ServiceStep, Settle, HookReject, HookMeta, HookSet, HookPay, ErrorMeta,
        ErrorSet, At, PaymentOrIgnore, StatusOrIgnore, IikoMetaOrIgnore,
        StatementFails
  <2> QED BY <1>4, <2>1, <2>2 DEF ServiceTurn
<1>5. CASE PaymeTurn(p)
  <2>1. CASE PaymeRequest(p)
    BY <1>2, <2>1 DEF PaymeRequest, PerformTransaction, CancelTransaction,
                      CreateTransaction
  <2>2. CASE PaymeStep(p)
    BY <1>2, <1>3, <2>2
    DEF PaymeStep, CreateLookup, CreateInsert, MarkPerformed, PerformPay,
        PerformCook, MarkCanceled, CancelOrder, At, PaymentOrIgnore,
        StatusOrIgnore, StatementFails
  <2> QED BY <1>5, <2>1, <2>2 DEF PaymeTurn
<1>6. CASE ClickTurn(p)
  <2>1. CASE ClickRequest(p)
    BY <1>2, <2>1 DEF ClickRequest, PlaceOrder, Complete
  <2>2. CASE HandlerPay(p)
    <3>1. outcome[p] # "failure"
      BY <1>1 DEF ClickVarsOK, NoOutcome
    <3> QED
      BY <1>2, <1>3, <2>2, <3>1
      DEF HandlerPay, At, PaymentOrIgnore, StatementFails
  <2>3. CASE ClickStep(p) /\ ~HandlerPay(p)
    <3>1. ~ShopFail(p)
      BY DEF CashInv, ShopFail
    <3> QED
      BY <1>2, <1>3, <2>3, <3>1
      DEF ClickStep, CheckoutPrepare, InvoiceInsert, AddLink, ShopInvoice,
          ShopPay, ShopCook, HandlerRead, HandlerCook, At, StatusOrIgnore,
          StatementFails
  <2> QED BY <1>6, <2>1, <2>2, <2>3 DEF ClickTurn
<1>7. CASE SharedTurn(p)
  BY <1>2, <1>3, <1>7
  DEF SharedTurn, FlowStep, SendRead, SendPost, SendPostLost, SendPostRefused,
      SendMeta, Claim, Push, IikoMetaOrIgnore, StatementFails
<1> QED BY <1>4, <1>5, <1>6, <1>7 DEF CheckoutTurn

\* Who is going to settle an order does, or still is.
LEMMA SettlingGoesOn ==
  ASSUME CheckoutInv, NEW p \in Proc, CheckoutTurn(p), NEW o \in Order,
         SettlesLater(p, o), Stored(o), Faults \cap {"db", "crash"} = {}
  PROVE  SettlesLater(p, o)' \/ orders'[o].pay = "PAID"
<1>1. /\ RepoTypeOK /\ FlowTypeOK /\ Ord(p) = o
      /\ pc[p] \in {"settle", "hook_pay"} \cup NotifyPC
  BY DEF CheckoutInv, ServiceInv, FlowInv, RepoInv, SettlesLater, NotifyPC
<1>2. ~PaymeTurn(p)
  BY <1>1
  DEF PaymeTurn, PaymeRequest, PerformTransaction, CancelTransaction, Start,
      CreateTransaction, PaymeStep, CreateLookup, CreateInsert, NotifyPC,
      MarkPerformed, PerformPay, PerformCook, MarkCanceled, CancelOrder, At
<1>3. ~ClickTurn(p)
  BY <1>1
  DEF ClickTurn, ClickRequest, PlaceOrder, Complete, ClickStep, Start,
      CheckoutPrepare, InvoiceInsert, AddLink, ShopFail, ShopInvoice, ShopPay,
      ShopCook, HandlerRead, HandlerPay, HandlerCook, At, NotifyPC
<1>4. CASE ServiceTurn(p)
  <2>1. Settle(p) \/ HookPay(p)
    BY <1>1, <1>4
    DEF ServiceTurn, ServiceRequest, UpdateStatus, HookUpdate, Start,
        HookNotCreated, HookError, ServiceStep, HookReject, HookMeta, HookSet,
        ErrorMeta, ErrorSet, At, NotifyPC
  <2> QED
    BY <1>1, <2>1 DEF Settle, HookPay, PaymentOrIgnore, WritePayment,
                      StatementFails, RepoTypeOK, Row
<1>5. CASE SharedTurn(p)
  <2>1. Claim(p) \/ Push(p)
    BY <1>1, <1>5
    DEF SharedTurn, FlowStep, SendRead, SendPost, SendPostLost,
        SendPostRefused, SendMeta, At, NotifyPC
  <2>2. job[p].afterNotify = "settle"
    BY <2>1 DEF SettlesLater, Claim, Push, At
  <2> QED
    BY <1>1, <2>1, <2>2
    DEF Claim, Push, Goto, FlowTypeOK, SettlesLater, NotifyPC, Ord
<1> QED BY <1>2, <1>3, <1>4, <1>5 DEF CheckoutTurn

\* Who completes an order is going to settle it, or it is PAID: iiko reports
\* only on orders it has, and one paid online it has only once PAID.
LEMMA TurnCompletes ==
  ASSUME CheckoutInv, CashInv, NEW p \in Proc, CheckoutTurn(p),
         NEW o \in Order, orders[o].status # "COMPLETED",
         orders'[o].status = "COMPLETED"
  PROVE  SettlesLater(p, o)' \/ orders[o].pay = "PAID"
<1>1. /\ RepoTypeOK /\ FlowTypeOK /\ OnlineSubmittedOnlyIfPaid
      /\ ~At(p, "idle") => Ord(p) \in Order
  BY DEF CheckoutInv, ServiceInv, FlowInv, RepoInv, FlowTypeOK
<1>2. /\ ~UNCHANGED repoVars
      /\ \A x : ~Insert(x)
      /\ \A x, ps : ~WritePayment(x, ps)
      /\ \A x, i : ~WriteIikoMeta(x, i)
      /\ \A x, s : ~TryMarkNotified(x, s)
      /\ \A x, s : WriteStatus(x, s) => x = o /\ s = "COMPLETED"
  BY <1>1 DEF repoVars, WritePayment, WriteStatus, WriteIikoMeta,
              TryMarkNotified, Insert, RepoTypeOK, Row
<1>3. CASE ServiceTurn(p)
  <2>1. CASE ServiceRequest(p)
    <3>1. PICK x \in Order, s \in OperatorStatus : UpdateStatus(p, x, s)
      BY <1>2, <2>1 DEF ServiceRequest, HookUpdate, HookNotCreated, HookError
    <3>2. UpdateStatus(p, o, "COMPLETED")
      <4>1. x = o /\ s = "COMPLETED"
        BY <1>2, <3>1 DEF UpdateStatus
      <4> QED BY <3>1, <4>1
    <3> QED
      BY <1>1, <3>2
      DEF UpdateStatus, Start, AfterAnnouncing, SettlesLater, NotifyPC, Ord,
          JobFor, NoJob, FlowTypeOK
  <2>2. CASE ServiceStep(p)
    <3>1. HookSet(p) /\ Ord(p) = o /\ job[p].status = "COMPLETED"
      BY <1>2, <2>2
      DEF ServiceStep, Settle, HookReject, HookMeta, HookSet, HookPay,
          ErrorMeta, ErrorSet, At, PaymentOrIgnore, StatusOrIgnore,
          IikoMetaOrIgnore, StatementFails, CashInv
    <3>2. CASE orders[o].method = "CASH"
      <4>1. Goto(p, "hook_pay")
        BY <1>2, <3>1, <3>2 DEF HookSet, HookCollects, StatementFails
      <4> QED
        BY <1>1, <3>1, <4>1 DEF Goto, SettlesLater, Ord, FlowTypeOK
    <3>3. CASE orders[o].method # "CASH"
      <4>1. orders[o].method \in Online /\ submitted[o] > 0
        BY <1>1, <3>1, <3>3
        DEF RepoTypeOK, Row, Method, Online, CashInv, HookSet
      <4> QED
        BY <1>1, <4>1 DEF OnlineSubmittedOnlyIfPaid, CashInv
    <3> QED BY <3>2, <3>3
  <2> QED BY <1>3, <2>1, <2>2 DEF ServiceTurn
<1>4. ~PaymeTurn(p)
  <2>1. ~PaymeRequest(p)
    BY <1>2 DEF PaymeRequest, PerformTransaction, CancelTransaction,
                CreateTransaction
  <2>2. ~PaymeStep(p)
    BY <1>2 DEF PaymeStep, CreateLookup, CreateInsert, MarkPerformed,
                PerformPay, PerformCook, MarkCanceled, CancelOrder,
                PaymentOrIgnore, StatusOrIgnore, StatementFails
  <2> QED BY <2>1, <2>2 DEF PaymeTurn
<1>5. ~ClickTurn(p)
  <2>1. ~ClickRequest(p)
    BY <1>2 DEF ClickRequest, PlaceOrder, Complete
  <2>2. ~ClickStep(p)
    BY <1>2
    DEF ClickStep, CheckoutPrepare, InvoiceInsert, AddLink, ShopFail,
        ShopInvoice, ShopPay, ShopCook, HandlerRead, HandlerPay, HandlerCook,
        PaymentOrIgnore, StatusOrIgnore, StatementFails
  <2> QED BY <2>1, <2>2 DEF ClickTurn
<1>6. ~SharedTurn(p)
  BY <1>2 DEF SharedTurn, FlowStep, SendRead, SendPost, SendPostLost,
              SendPostRefused, SendMeta, Claim, Push, IikoMetaOrIgnore,
              StatementFails
<1> QED BY <1>3, <1>4, <1>5, <1>6 DEF CheckoutTurn

\* A webhook keeps what CashInv says of its handler.
LEMMA TurnHolds ==
  ASSUME CheckoutInv, CashInv, NEW p \in Proc, CheckoutTurn(p),
         "failure" \notin Outcomes
  PROVE  /\ At(p, "hook_set")' => submitted[Ord(p)]' > 0
         /\ pc'[p] \in {"error_meta", "error_set"} => job'[p].status = "REJECTED"
         /\ ~At(p, "shop_fail")'
<1>1. FlowTypeOK /\ IdHeld
  BY DEF CheckoutInv, ServiceInv, FlowInv
<1>2. CASE ServiceTurn(p)
  <2>1. CASE ServiceRequest(p)
    BY <1>1, <2>1
    DEF ServiceRequest, UpdateStatus, HookUpdate, HookNotCreated, HookError,
        Start, At, FlowTypeOK, JobFor, NoJob
  <2>2. CASE HookMeta(p)
    <3>1. Ord(p) \in Order /\ submitted[Ord(p)] \in Nat /\ submitted[Ord(p)] > 0
      BY <1>1, <2>2, MaxSubmissionsAssumption
      DEF HookMeta, FlowTypeOK, IdHeld, MetaPC, At
    <3> QED BY <1>1, <2>2, <3>1 DEF HookMeta, Goto, At, Ord, FlowTypeOK
  <2>3. CASE ServiceStep(p) /\ ~HookMeta(p)
    BY <1>1, <2>3
    DEF ServiceStep, Settle, HookReject, HookSet, HookPay, ErrorMeta, ErrorSet,
        Goto, At, FlowTypeOK, CashInv
  <2> QED BY <1>2, <2>1, <2>2, <2>3 DEF ServiceTurn
<1>3. CASE PaymeTurn(p)
  <2>1. pc'[p] \in PaymePC \cup {"idle", "send"}
    BY <1>1, <1>3, PaymeRuns DEF PaymeTurn, Runs, FlowTypeOK
  <2> QED BY <2>1 DEF PaymePC, At
<1>4. CASE ClickTurn(p)
  <2>1. pc'[p] \in ClickPC \cup {"idle", "send"}
    BY <1>1, <1>4, ClickGoes DEF ClickTurn, FlowTypeOK
  <2>2. ~At(p, "shop_fail")'
    BY <1>1, <1>4, OutcomesAssumption
    DEF ClickTurn, ClickRequest, PlaceOrder, Complete, ClickStep,
        CheckoutPrepare, InvoiceInsert, AddLink, ShopFail, ShopInvoice,
        ShopPay, ShopCook, HandlerRead, HandlerPay, HandlerCook, Return, Goto,
        Start, At, FlowTypeOK
  <2> QED BY <2>1, <2>2 DEF ClickPC, At
<1>5. CASE SharedTurn(p)
  <2>1. pc'[p] \in {"idle", "claim", "push", "send", "post", "meta", "settle",
                    "handler_read"}
    BY <1>1, <1>5, FlowRuns DEF SharedTurn, Runs, FlowTypeOK
  <2> QED BY <2>1 DEF At
<1> QED BY <1>2, <1>3, <1>4, <1>5 DEF CheckoutTurn

\* Every step keeps CashInv while the database and the server do not fail and
\* no attempt to pay does.
LEMMA CashKept ==
  ASSUME CheckoutInv, PlacedInv, CashInv, [CheckoutNext]_checkoutVars,
         Faults \cap {"db", "crash"} = {}, "failure" \notin Outcomes
  PROVE  CashInv'
<1>1. /\ FlowTypeOK /\ RepoTypeOK /\ FulfilStep
      /\ \A q \in Proc : ~At(q, "idle") => Ord(q) \in Order
  BY CheckoutNextKeeps DEF CheckoutInv, ServiceInv, FlowInv, RepoInv, FlowTypeOK
<1>2. CASE CheckoutElsewhere \/ UNCHANGED checkoutVars
  <2>1. \A o \in Order, q \in Proc : SettlesLater(q, o)' = SettlesLater(q, o)
    BY <1>2, ElsewhereTouches DEF SettlesLater, Ord
  <2>2. CompletedIsPaid'
    BY <1>2, <2>1, ElsewhereTouches DEF CashInv, CompletedIsPaid, PlacedInv
  <2> QED BY <1>2, <2>2, ElsewhereTouches DEF CashInv, At, Ord
<1>3. ASSUME NEW p \in Proc, CheckoutTurn(p)
      PROVE  CashInv'
  <2>1. Touches(p) /\ \A q \in Proc \ {p} : pc'[q] = pc[q] /\ job'[q] = job[q]
    BY <1>3, TurnTouches, TurnIsOwn
  <2>2. CompletedIsPaid'
    <3> SUFFICES ASSUME NEW o \in Order, Stored(o)',
                        orders'[o].status = "COMPLETED",
                        orders'[o].pay # "PAID"
                 PROVE  \E q \in Proc : SettlesLater(q, o)'
      BY DEF CompletedIsPaid
    <3>1. orders[o].pay # "PAID"
      BY <1>3, TurnUnpaysNot
    <3>2. CASE orders[o].status # "COMPLETED"
      BY <1>3, <3>1, <3>2, TurnCompletes
    <3>3. CASE orders[o].status = "COMPLETED"
      <4>1. Stored(o)
        BY <2>1, <3>3 DEF PlacedInv, Touches, Placed, Stored
      <4>2. PICK q \in Proc : SettlesLater(q, o)
        BY <3>1, <3>3, <4>1 DEF CashInv, CompletedIsPaid
      <4>3. CASE q = p
        BY <1>3, <4>1, <4>2, <4>3, SettlingGoesOn
      <4>4. CASE q # p
        BY <2>1, <4>2, <4>4 DEF SettlesLater, Ord
      <4> QED BY <4>3, <4>4
    <3> QED BY <3>2, <3>3
  <2>3. \A o \in paidOnce' : orders'[o].pay = "PAID"
    <3>1. paidOnce' \subseteq Order
      BY CheckoutNextKeeps DEF CheckoutInv, ServiceInv, FlowInv, RepoInv, RepoTypeOK
    <3> QED BY <1>3, <3>1, TurnUnpaysNot DEF CashInv
  <2>4. \A q \in Proc \ {p} : At(q, "hook_set") => submitted'[Ord(q)] > 0
    <3>1. \A o \in Order : submitted[o] > 0 => submitted'[o] > 0
      BY <1>1, <1>3, TurnSubmits, MaxSubmissionsAssumption
      DEF SendPost, SendPostLost, FlowTypeOK
    <3> QED BY <1>1, <3>1 DEF CashInv, At
  <2> QED
    BY <1>3, <2>1, <2>2, <2>3, <2>4, TurnHolds DEF CashInv, At, Ord
<1> QED
  BY <1>2, <1>3
  DEF CheckoutNext, CheckoutElsewhere, CheckoutTurn, CheckoutCrash, ClickCrash,
      Crash

\* An order is COMPLETED only together with its money, whether an operator or
\* iiko completes it, with all handlers at work on it, while the database and
\* the server do not fail and no attempt to pay does (a late report of one
\* makes a paid order UNPAID): UpdateStatus and
\* HandleIikoDeliveryOrderUpdate.
THEOREM CompletedForItsMoney ==
  ASSUME Faults \cap {"db", "crash"} = {}, "failure" \notin Outcomes
  PROVE  CheckoutSpec => []CompletedIsPaid
<1>1. CheckoutInit => CashInv
  <2> SUFFICES ASSUME CheckoutInit PROVE CashInv
    OBVIOUS
  <2>1. CompletedIsPaid /\ paidOnce = {}
    BY DEF CheckoutInit, ServiceInit, RepoInit, CompletedIsPaid, Stored
  <2> QED BY <2>1 DEF CheckoutInit, ServiceInit, FlowInit, CashInv, At
<1>2. CheckoutInv /\ PlacedInv /\ CashInv /\ [CheckoutNext]_checkoutVars => CashInv'
  BY CashKept
<1>3. CashInv => CompletedIsPaid
  BY DEF CashInv
<1> QED
  BY <1>1, <1>2, <1>3, CheckoutInvariant, NothingBeforeItsRow, PTL
  DEF CheckoutSpec

----------------------------------------------------------------------------
(* What Payme was paid                                                     *)

\* A goroutine that has marked the transaction pays the order next.
LEMMA PerformPayIsNext ==
  ASSUME NEW p \in Proc, CheckoutTurn(p), At(p, "perform_pay")
  PROVE  PerformPay(p)
<1>1. ~ServiceTurn(p)
  BY DEF ServiceTurn, ServiceRequest, UpdateStatus, HookUpdate, Start,
         HookNotCreated, HookError, ServiceStep, Settle, HookReject,
         HookMeta, HookSet, HookPay, ErrorMeta, ErrorSet, At
<1>2. ~ClickTurn(p)
  BY DEF ClickTurn, ClickRequest, PlaceOrder, Complete, ClickStep, Start,
         CheckoutPrepare, InvoiceInsert, AddLink, ShopFail, ShopInvoice,
         ShopPay, ShopCook, HandlerRead, HandlerPay, HandlerCook, At
<1>3. ~SharedTurn(p)
  BY DEF SharedTurn, FlowStep, SendRead, SendPost, SendPostLost,
         SendPostRefused, SendMeta, Claim, Push, At
<1> QED
  BY <1>1, <1>2, <1>3
  DEF CheckoutTurn, PaymeTurn, PaymeRequest, PerformTransaction,
      CancelTransaction, CreateTransaction, Start, PaymeStep, CreateLookup,
      CreateInsert, MarkPerformed, PerformCook, MarkCanceled, CancelOrder, At

\* A turn forgets no order that Payme was paid for.
LEMMA TurnRemembers ==
  ASSUME CheckoutInv, MoneyInv, NEW p \in Proc, CheckoutTurn(p),
         Faults \cap {"db", "crash"} = {},
         NEW o \in Order, Remembered(o)
  PROVE  Remembered(o)'
<1>1. CASE o \in paidOnce
  BY <1>1, TurnKeeps, PaidStays DEF Remembered
<1>2. ASSUME NEW q \in Proc, At(q, "perform_pay"), Ord(q) = o
      PROVE  Remembered(o)'
  <2>1. CASE q = p
    <3>1. Stored(o)
      BY <1>2 DEF CheckoutInv, PaymeCore, CallOK, CallMatches, MoneyInv, At
    <3> QED
      BY <1>2, <2>1, <3>1, PerformPayIsNext
      DEF PerformPay, PaymentOrIgnore, WritePayment, StatementFails, Remembered
  <2>2. CASE q # p
    BY <1>2, <2>2, TurnIsOwn DEF Remembered, At, Ord
  <2> QED BY <2>1, <2>2
<1> QED BY <1>1, <1>2 DEF Remembered

\* Only Payme's turns lead to mark_canceled.
LEMMA OthersCancelNot ==
  ASSUME CheckoutInv, NEW p \in Proc,
         ServiceTurn(p) \/ ClickTurn(p) \/ SharedTurn(p)
  PROVE  ~At(p, "mark_canceled")'
<1>1. FlowTypeOK
  BY DEF CheckoutInv, ServiceInv, FlowInv
<1>2. \/ pc'[p] \in ServicePC \cup {"idle", "claim"}
      \/ pc'[p] \in ClickPC \cup {"idle", "send"}
      \/ pc'[p] \in {"idle", "claim", "push", "send", "post", "meta", "settle",
                     "handler_read"}
  BY <1>1, ServiceRuns, ClickGoes, FlowRuns
  DEF ServiceTurn, ClickTurn, SharedTurn, Runs, FlowTypeOK
<1> QED BY <1>2 DEF ServicePC, ClickPC, At

\* Every step keeps MoneyInv while the database and the server do not fail.
LEMMA CheckoutMoneyKept ==
  ASSUME CheckoutInv, PlacedInv, MoneyInv, [CheckoutNext]_checkoutVars,
         Faults \cap {"db", "crash"} = {}
  PROVE  MoneyInv'
<1>1. PaymeCore /\ TxnOrderOK
  BY DEF CheckoutInv, PaymeCore
<1>2. CASE CheckoutElsewhere \/ UNCHANGED checkoutVars
  <2>1. UNCHANGED <<pc, job, txn, call, paidOnce>>
    BY <1>2, ElsewhereTouches
  <2>2. \A t \in Txn : txn[t].state # "none" => Stored(txn[t].ord)'
    BY <1>2, ElsewhereTouches DEF MoneyInv
  <2> QED BY <1>1, <2>1, <2>2, MoneyFrame DEF Remembered, At, Ord
<1>3. ASSUME NEW p \in Proc, CheckoutTurn(p)
      PROVE  MoneyInv'
  <2>1. \A o \in Order : Remembered(o) => Remembered(o)'
    BY <1>3, TurnRemembers
  <2>2. \A o \in Order : Stored(o) => Stored(o)'
    BY <1>3, TurnTouches DEF Touches, Placed, Stored
  <2>3. CASE PaymeTurn(p)
    BY <1>1, <2>1, <2>2, <2>3, PaymeKeepsMoney DEF PaymeTurn
  <2>4. CASE ServiceTurn(p) \/ ClickTurn(p) \/ SharedTurn(p)
    <3>1. UNCHANGED <<txn, call>>
      BY <2>4 DEF ServiceTurn, ClickTurn, SharedTurn, paymeVars
    <3>2. \A t \in Txn : txn[t].state # "none" => Stored(txn[t].ord)'
      BY <1>1, <2>2, <3>1 DEF TxnOrderOK, MoneyInv
    <3>3. \A q \in Proc : At(q, "mark_canceled")' =>
            At(q, "mark_canceled") /\ job'[q] = job[q] /\ call'[q] = call[q]
      BY <1>3, <2>4, <3>1, OthersCancelNot, TurnIsOwn DEF At
    <3> QED BY <1>1, <2>1, <3>1, <3>2, <3>3, MoneyFrame
  <2> QED BY <1>3, <2>3, <2>4 DEF CheckoutTurn
<1> QED
  BY <1>2, <1>3
  DEF CheckoutNext, CheckoutElsewhere, CheckoutTurn, CheckoutCrash, ClickCrash,
      Crash

\* Money that Payme has taken is never lost to the order, with operators,
\* webhooks and Click at work on the same orders, for any number of calls at
\* once, while the database and the server do not fail (PerformTransaction).
THEOREM PaymeMoneyIsRemembered ==
  ASSUME Faults \cap {"db", "crash"} = {}
  PROVE  CheckoutSpec => []PerformedIsPaid
<1>1. CheckoutInit => MoneyInv
  BY DEF CheckoutInit, PaymeInit, FlowInit, MoneyInv, At
<1>2. CheckoutInv /\ PlacedInv /\ MoneyInv /\ [CheckoutNext]_checkoutVars => MoneyInv'
  BY CheckoutMoneyKept
<1>3. MoneyInv => PerformedIsPaid
  BY DEF MoneyInv, PerformedIsPaid, Remembered
<1> QED
  BY <1>1, <1>2, <1>3, CheckoutInvariant, NothingBeforeItsRow, PTL
  DEF CheckoutSpec

----------------------------------------------------------------------------
(* One request at a time                                                   *)

\* The server has one goroutine: no two handlers overlap.
OneAtATime == \A p, q \in Proc : p = q

\* What is about to be sent iiko does not have.
SentOnce ==
  /\ AtMostOneSubmission
  /\ \A p \in Proc : At(p, "post") => submitted[Ord(p)] = 0

\* Only SendRead leads to the POST.
LEMMA OnlySendReadPosts ==
  ASSUME CheckoutInv, NEW p \in Proc, CheckoutTurn(p), At(p, "post")'
  PROVE  SendRead(p) /\ MaySend(Ord(p)) /\ Ord(p)' = Ord(p)
<1>1. FlowTypeOK
  BY DEF CheckoutInv, ServiceInv, FlowInv
<1>2. ~ServiceTurn(p) /\ ~PaymeTurn(p) /\ ~ClickTurn(p)
  <2>1. ~\/ pc'[p] \in ServicePC \cup {"idle", "claim"}
         \/ pc'[p] \in PaymePC \cup {"idle", "send"}
         \/ pc'[p] \in ClickPC \cup {"idle", "send"}
    BY DEF ServicePC, PaymePC, ClickPC, At
  <2> QED
    BY <1>1, <2>1, ServiceRuns, PaymeRuns, ClickGoes
    DEF ServiceTurn, PaymeTurn, ClickTurn, Runs, FlowTypeOK
<1>3. SharedTurn(p)
  BY <1>2 DEF CheckoutTurn
<1>4. /\ job[p].afterSend \in {"idle", "claim"}
      /\ job[p].afterNotify \in {"idle", "send", "settle", "handler_read"}
  BY <1>1 DEF FlowTypeOK, Job
<1> QED
  BY <1>1, <1>3, <1>4
  DEF SharedTurn, FlowStep, SendRead, SendPost, SendPostLost, SendPostRefused,
      SendMeta, Claim, Push, Goto, At, Ord, FlowTypeOK

\* One handler at a time keeps SentOnce while nothing fails.
LEMMA SentOnceKept ==
  ASSUME CheckoutInv, PlacedInv, SubmissionRecorded, SentOnce,
         [CheckoutNext]_checkoutVars, Faults = {}, OneAtATime
  PROVE  SentOnce'
<1>1. /\ FlowTypeOK /\ submitted \in [Order -> 0 .. MaxSubmissions]
      /\ \A q \in Proc : ~At(q, "idle") => Ord(q) \in Order
  BY DEF CheckoutInv, ServiceInv, FlowInv, FlowTypeOK
<1>2. CASE CheckoutElsewhere \/ UNCHANGED checkoutVars
  BY <1>2, ElsewhereTouches DEF SentOnce, AtMostOneSubmission, At, Ord
<1>3. ASSUME NEW p \in Proc, CheckoutTurn(p)
      PROVE  SentOnce'
  <2>1. CASE submitted' # submitted
    <3>1. SendPost(p)
      BY <1>3, <2>1, TurnSubmits DEF SendPostLost
    <3>2. ~At(p, "post")'
      BY <1>1, <3>1 DEF SendPost, At, FlowTypeOK
    <3>3. \A o \in Order : submitted'[o] <= 1
      BY <1>1, <3>1 DEF SendPost, SentOnce, AtMostOneSubmission
    <3> QED BY <3>2, <3>3 DEF SentOnce, AtMostOneSubmission, OneAtATime
  <2>2. CASE submitted' = submitted
    <3> SUFFICES ASSUME At(p, "post")'
                 PROVE  submitted[Ord(p)'] = 0
      BY <2>2 DEF SentOnce, AtMostOneSubmission, OneAtATime
    <3>1. /\ Ord(p)' = Ord(p) /\ Ord(p) \in Order /\ ~At(p, "meta")
          /\ Stored(Ord(p)) /\ ~AlreadySent(orders[Ord(p)])
      BY <1>1, <1>3, OnlySendReadPosts DEF SendRead, MaySend, At
    <3> QED BY <1>1, <3>1 DEF SubmissionRecorded, OneAtATime
  <2> QED BY <2>1, <2>2
<1> QED
  BY <1>2, <1>3
  DEF CheckoutNext, CheckoutElsewhere, CheckoutTurn, CheckoutCrash, ClickCrash,
      Crash

\* iiko never has an order twice when nothing fails and no two handlers
\* overlap, whatever is requested and in any order ("already sent, skip").
THEOREM SentOnceAlone ==
  ASSUME Faults = {}, OneAtATime
  PROVE  CheckoutSpec => []AtMostOneSubmission
<1>1. CheckoutInit => SentOnce
  BY DEF CheckoutInit, ServiceInit, FlowInit, SentOnce, AtMostOneSubmission, At
<1>2. /\ CheckoutInv /\ PlacedInv /\ SubmissionRecorded /\ SentOnce
      /\ [CheckoutNext]_checkoutVars
      => SentOnce'
  BY SentOnceKept
<1>3. SentOnce => AtMostOneSubmission
  BY DEF SentOnce
<1> QED
  BY <1>1, <1>2, <1>3, CheckoutInvariant, NothingBeforeItsRow,
     KitchenOrdersAreKnown, PTL
  DEF CheckoutSpec

----------------------------------------------------------------------------
(* Transactions, one request at a time                                     *)

Open == {"created", "performed"}

\* p writes, or will write, what iiko reported.
Reporting == {"hook_meta", "hook_set", "error_meta", "error_set"}

\* o is about to be marked COOKING for a transaction that was performed.
Cooks(p, o) == pc[p] \in {"perform_pay", "perform_cook"} /\ Ord(p) = o

\* The transaction that p is about to mark is as p read it.
AsRead ==
  \A p \in Proc :
    /\ At(p, "mark_performed") => txn[call[p].txn].state = "created"
    /\ At(p, "mark_canceled") => txn[call[p].txn].state \in Open

\* Payme's handlers find the transaction and the order as they read them, and
\* no order that was paid for waits for payment again.
OneOpen ==
  /\ AsRead
  /\ OnePaymentPerOrder
  /\ \A t \in Txn : txn[t].state = "performed" =>
       \/ orders[txn[t].ord].status # "WAITING_PAYMENT"
       \/ \E p \in Proc : Cooks(p, txn[t].ord)
  /\ \A p \in Proc :
       /\ pc[p] \in {"create_lookup", "create_insert"} =>
            ~Stored(Ord(p)) \/ orders[Ord(p)].status = "WAITING_PAYMENT"
       /\ pc[p] \in Reporting => job[p].status # "WAITING_PAYMENT"

\* Nobody makes an order wait for payment again.
LEMMA TurnReopensNot ==
  ASSUME CheckoutInv, OneOpen, NEW p \in Proc, CheckoutTurn(p),
         "WAITING_PAYMENT" \notin OperatorStatus,
         NEW o \in Order, orders[o].status # "WAITING_PAYMENT"
  PROVE  orders'[o].status # "WAITING_PAYMENT"
<1> DEFINE Stays == orders'[o].status # "WAITING_PAYMENT"
<1>1. RepoTypeOK
  BY DEF CheckoutInv, ServiceInv, FlowInv, RepoInv
<1>2. /\ UNCHANGED repoVars => Stays
      /\ \A x : Insert(x) => Stays
      /\ \A x, ps : WritePayment(x, ps) => Stays
      /\ \A x, i : WriteIikoMeta(x, i) => Stays
      /\ \A x, s : TryMarkNotified(x, s) => Stays
      /\ \A x, s : WriteStatus(x, s) /\ s # "WAITING_PAYMENT" => Stays
  BY <1>1 DEF repoVars, WritePayment, WriteIikoMeta, TryMarkNotified, Insert,
              WriteStatus, RepoTypeOK, Row
<1> SUFFICES Stays
  OBVIOUS
<1> HIDE DEF Stays
<1>3. CASE ServiceTurn(p)
  <2>1. CASE ServiceRequest(p)
    BY <1>2, <2>1 DEF ServiceRequest, UpdateStatus, HookUpdate,
                      HookNotCreated, HookError
  <2>2. CASE HookSet(p) \/ ErrorSet(p)
    BY <1>2, <2>2 DEF HookSet, ErrorSet, StatusOrIgnore, StatementFails,
                      OneOpen, At, Reporting
  <2>3. CASE ServiceStep(p) /\ ~HookSet(p) /\ ~ErrorSet(p)
    BY <1>2, <2>3 DEF ServiceStep, Settle, HookReject, HookMeta, HookPay,
                      ErrorMeta, PaymentOrIgnore, StatusOrIgnore,
                      IikoMetaOrIgnore, StatementFails
  <2> QED BY <1>3, <2>1, <2>2, <2>3 DEF ServiceTurn
<1>4. CASE PaymeTurn(p)
  <2>1. CASE PaymeRequest(p)
    BY <1>2, <2>1 DEF PaymeRequest, PerformTransaction, CancelTransaction,
                      CreateTransaction
  <2>2. CASE PaymeStep(p)
    BY <1>2, <2>2 DEF PaymeStep, CreateLookup, CreateInsert, MarkPerformed,
                      PerformPay, PerformCook, MarkCanceled, CancelOrder,
                      PaymentOrIgnore, StatusOrIgnore, StatementFails
  <2> QED BY <1>4, <2>1, <2>2 DEF PaymeTurn
<1>5. CASE ClickTurn(p)
  <2>1. CASE ClickRequest(p)
    BY <1>2, <2>1 DEF ClickRequest, PlaceOrder, Complete
  <2>2. CASE ClickStep(p)
    BY <1>2, <2>2
    DEF ClickStep, CheckoutPrepare, InvoiceInsert, AddLink, ShopFail,
        ShopInvoice, ShopPay, ShopCook, HandlerRead, HandlerPay, HandlerCook,
        PaymentOrIgnore, StatusOrIgnore, StatementFails
  <2> QED BY <1>5, <2>1, <2>2 DEF ClickTurn
<1>6. CASE SharedTurn(p)
  BY <1>2, <1>6
  DEF SharedTurn, FlowStep, SendRead, SendPost, SendPostLost, SendPostRefused,
      SendMeta, Claim, Push, IikoMetaOrIgnore, StatementFails
<1> QED BY <1>3, <1>4, <1>5, <1>6 DEF CheckoutTurn

\* Where a turn of another component leads p, Payme has nothing to say.
LEMMA OthersLeavePayme ==
  ASSUME CheckoutInv, NEW p \in Proc, CheckoutTurn(p), ~PaymeTurn(p)
  PROVE  /\ UNCHANGED <<txn, call>>
         /\ pc[p] \notin PaymePC /\ pc'[p] \notin PaymePC
<1>1. FlowTypeOK
  BY DEF CheckoutInv, ServiceInv, FlowInv
<1>2. CASE ServiceTurn(p)
  <2>1. pc'[p] \in ServicePC \cup {"idle", "claim"}
    BY <1>1, <1>2, ServiceRuns DEF ServiceTurn, Runs, FlowTypeOK
  <2>2. pc[p] \in ServicePC \cup {"idle"}
    BY <1>2 DEF ServiceTurn, ServiceRequest, UpdateStatus, HookUpdate,
                HookNotCreated, HookError, Start, ServiceStep, Settle,
                HookReject, HookMeta, HookSet, HookPay, ErrorMeta, ErrorSet,
                At, ServicePC
  <2> QED
    BY <1>2, <2>1, <2>2 DEF ServiceTurn, paymeVars, ServicePC, PaymePC
<1>3. CASE ClickTurn(p)
  <2>1. pc[p] \in ClickPC \cup {"idle"}
    BY <1>3 DEF ClickTurn, ClickRequest, PlaceOrder, Complete, ClickStep,
                Start, CheckoutPrepare, InvoiceInsert, AddLink, ShopFail,
                ShopInvoice, ShopPay, ShopCook, HandlerRead, HandlerPay,
                HandlerCook, At, ClickPC
  <2>2. pc'[p] \in ClickPC \cup {"idle", "send"}
    BY <1>1, <1>3, ClickGoes DEF ClickTurn, FlowTypeOK
  <2> QED
    BY <1>3, <2>1, <2>2 DEF ClickTurn, paymeVars, ClickPC, PaymePC
<1>4. CASE SharedTurn(p)
  <2>1. pc[p] \in SendPC \cup NotifyPC
    BY <1>4 DEF SharedTurn, FlowStep, SendRead, SendPost, SendPostLost,
                SendPostRefused, SendMeta, Claim, Push, At, SendPC, NotifyPC
  <2>2. pc'[p] \in {"idle", "claim", "push", "send", "post", "meta", "settle",
                    "handler_read"}
    BY <1>1, <1>4, FlowRuns DEF SharedTurn, Runs, FlowTypeOK
  <2> QED
    BY <1>4, <2>1, <2>2 DEF SharedTurn, paymeVars, SendPC, NotifyPC, PaymePC
<1> QED BY <1>2, <1>3, <1>4 DEF CheckoutTurn

\* iiko's reports never make an order wait for payment.
LEMMA ReportsOpenNot ==
  ASSUME CheckoutInv, OneOpen, NEW p \in Proc, CheckoutTurn(p),
         pc'[p] \in Reporting
  PROVE  job'[p].status # "WAITING_PAYMENT"
<1>1. FlowTypeOK
  BY DEF CheckoutInv, ServiceInv, FlowInv
<1>2. ServiceTurn(p)
  <2>1. ~\/ pc'[p] \in PaymePC \cup {"idle", "send"}
         \/ pc'[p] \in ClickPC \cup {"idle", "send"}
         \/ pc'[p] \in {"idle", "claim", "push", "send", "post", "meta",
                        "settle", "handler_read"}
    BY DEF Reporting, PaymePC, ClickPC
  <2> QED
    BY <1>1, <2>1, PaymeRuns, ClickGoes, FlowRuns
    DEF CheckoutTurn, PaymeTurn, ClickTurn, SharedTurn, Runs, FlowTypeOK
<1>3. CASE ServiceRequest(p)
  <2>1. \A is, r : HookStatus(is, r) # "WAITING_PAYMENT"
    BY DEF HookStatus, MapIikoStatus, NeverNotified
  <2>2. CASE \E o \in Order, s \in OperatorStatus : UpdateStatus(p, o, s)
    BY <1>1, <2>2 DEF UpdateStatus, Start, FlowTypeOK, Reporting
  <2>3. CASE \E o \in Order, i \in IikoId : HookNotCreated(p, o, i)
    BY <1>1, <2>3 DEF HookNotCreated, Start, FlowTypeOK, Reporting
  <2>4. CASE \E o \in Order, i \in IikoId : HookError(p, o, i)
    BY <1>1, <2>4 DEF HookError, Start, FlowTypeOK, JobFor, NoJob
  <2>5. CASE \E o \in Order, i \in IikoId, is \in ReportedStatus :
               HookUpdate(p, o, i, is)
    BY <1>1, <2>1, <2>5 DEF HookUpdate, Start, FlowTypeOK, JobFor, NoJob
  <2> QED BY <1>3, <2>2, <2>3, <2>4, <2>5 DEF ServiceRequest
<1>4. CASE ServiceStep(p)
  <2>1. CASE HookMeta(p) \/ ErrorMeta(p)
    <3>1. pc[p] \in Reporting
      BY <2>1 DEF HookMeta, ErrorMeta, At, Reporting
    <3>2. pc'[p] # "idle" => job'[p] = job[p]
      BY <1>1, <2>1 DEF HookMeta, ErrorMeta, Goto, FlowTypeOK
    <3> QED BY <3>1, <3>2 DEF OneOpen, Reporting
  <2>2. CASE \/ Settle(p) \/ HookReject(p) \/ HookSet(p) \/ HookPay(p)
             \/ ErrorSet(p)
    <3>1. pc'[p] \in {"idle", "hook_pay", "claim"}
      BY <1>1, <2>2 DEF Settle, HookReject, HookSet, HookPay, ErrorSet,
                        Goto, FlowTypeOK
    <3> QED BY <3>1 DEF Reporting
  <2> QED BY <1>4, <2>1, <2>2 DEF ServiceStep
<1> QED BY <1>2, <1>3, <1>4 DEF ServiceTurn

\* The transaction that p works on, and its order.
LEMMA CallsTransaction ==
  ASSUME CheckoutInv, NEW p \in Proc,
         pc[p] \in {"create_lookup", "create_insert", "mark_performed",
                    "mark_canceled", "perform_pay"}
  PROVE  /\ call[p].txn \in Txn
         /\ pc[p] \in {"mark_performed", "mark_canceled"} =>
              txn[call[p].txn].ord = Ord(p)
         /\ At(p, "mark_performed") => call[p].state = "performed"
         /\ At(p, "mark_canceled") => call[p].state \in Canceled
  BY DEF CheckoutInv, PaymeCore, CallOK, CallMatches, At

\* A call of Payme keeps OneOpen when it is the only handler that runs.
LEMMA PaymeKeepsOneOpen ==
  ASSUME CheckoutInv, MoneyInv, OneOpen, AsRead', OneAtATime,
         NEW p \in Proc, PaymeTurn(p), Faults \cap {"db", "crash"} = {}
  PROVE  OneOpen'
<1>1. /\ FlowTypeOK /\ RepoTypeOK /\ TxnTypeOK /\ TxnOrderOK
      /\ \A q \in Proc : q = p
      /\ "db" \notin Faults
  BY DEF CheckoutInv, ServiceInv, FlowInv, RepoInv, PaymeCore, OneAtATime
<1>2. CASE \E t \in Txn, o \in Order : CreateTransaction(p, t, o)
  BY <1>1, <1>2
  DEF CreateTransaction, AcceptsPayment, Start, JobFor, NoJob, At, Ord, OneOpen,
      OnePaymentPerOrder, Cooks, Reporting, repoVars, FlowTypeOK
<1>3. CASE \E t \in Txn : PerformTransaction(p, t)
  BY <1>1, <1>3
  DEF PerformTransaction, Performable, Start, Call, At, Ord, OneOpen,
      OnePaymentPerOrder, Cooks, Reporting, repoVars, FlowTypeOK, TxnTypeOK
<1>4. CASE \E t \in Txn : CancelTransaction(p, t)
  BY <1>1, <1>4
  DEF CancelTransaction, Start, Call, At, Ord, OneOpen, Open,
      OnePaymentPerOrder, Cooks, Reporting, repoVars, FlowTypeOK, TxnTypeOK
<1>5. CASE CreateLookup(p)
  BY <1>1, <1>5
  DEF CreateLookup, Goto, At, Ord, OneOpen, OnePaymentPerOrder, Cooks,
      Reporting, repoVars, FlowTypeOK, Stored
<1>6. CASE CreateInsert(p)
  <2>1. /\ \A t \in Txn : \/ txn'[t] = txn[t]
                          \/ /\ txn'[t].state = "created"
                             /\ txn'[t].ord = Ord(p)
                             /\ t = call[p].txn
                             /\ Stored(Ord(p)) /\ ~ActiveFor(Ord(p))
        /\ pc'[p] = "idle" /\ UNCHANGED orders
    BY <1>1, <1>6, CallsTransaction
    DEF CreateInsert, Insertable, InsertIndexed, Goto, At, TxnTypeOK,
        FlowTypeOK, repoVars
  <2>2. Stored(Ord(p)) => orders[Ord(p)].status = "WAITING_PAYMENT"
    BY <1>6 DEF CreateInsert, OneOpen, At
  <2>3. \A t \in Txn : txn[t].state = "performed" =>
          orders[txn[t].ord].status # "WAITING_PAYMENT"
    BY <1>1, <1>6 DEF CreateInsert, OneOpen, At, Cooks
  <2>4. OnePaymentPerOrder'
    BY <2>1, <2>2, <2>3 DEF OneOpen, OnePaymentPerOrder, ActiveFor
  <2> QED BY <1>1, <2>1, <2>3, <2>4 DEF OneOpen, At, Cooks, Reporting
<1>7. CASE MarkPerformed(p)
  <2>1. /\ call[p].txn \in Txn /\ txn[call[p].txn].state = "created"
        /\ txn[call[p].txn].ord = Ord(p)
    BY <1>7, CallsTransaction DEF MarkPerformed, At, OneOpen, AsRead
  <2>2. /\ \A t \in Txn : t # call[p].txn => txn'[t] = txn[t]
        /\ txn'[call[p].txn].state = "performed"
        /\ txn'[call[p].txn].ord = Ord(p)
        /\ pc'[p] = "perform_pay" /\ Ord(p)' = Ord(p) /\ UNCHANGED orders
    BY <1>1, <1>7, <2>1, CallsTransaction
    DEF MarkPerformed, SetTxnState, Goto, At, Ord, TxnTypeOK, FlowTypeOK,
        repoVars
  <2>3. \A t \in Txn : txn[t].state = "performed" =>
          orders[txn[t].ord].status # "WAITING_PAYMENT"
    BY <1>1, <1>7 DEF MarkPerformed, OneOpen, At, Cooks
  <2>4. OnePaymentPerOrder'
    BY <2>1, <2>2 DEF OneOpen, OnePaymentPerOrder
  <2>5. \A t \in Txn : txn'[t].state = "performed" =>
          \/ orders'[txn'[t].ord].status # "WAITING_PAYMENT"
          \/ pc'[p] = "perform_pay" /\ Ord(p)' = txn'[t].ord
    BY <2>2, <2>3
  <2> QED BY <1>1, <2>2, <2>4, <2>5 DEF OneOpen, At, Cooks, Reporting
<1>8. CASE PerformPay(p)
  <2>1. /\ \A o \in Order : orders'[o].status = orders[o].status
        /\ UNCHANGED txn
        /\ pc'[p] = "perform_cook" /\ Ord(p)' = Ord(p)
    BY <1>1, <1>8
    DEF PerformPay, PaymentOrIgnore, WritePayment, StatementFails, repoVars,
        paymeVars, Goto, Ord, FlowTypeOK, RepoTypeOK, Row
  <2>2. \A t \in Txn : txn[t].state = "performed" =>
          \/ orders'[txn[t].ord].status # "WAITING_PAYMENT"
          \/ Cooks(p, txn[t].ord)'
    BY <1>1, <1>8, <2>1 DEF OneOpen, Cooks, TxnOrderOK
  <2> QED BY <1>1, <2>1, <2>2 DEF OneOpen, OnePaymentPerOrder, At, Reporting
<1>9. CASE PerformCook(p)
  <2>1. /\ Stored(Ord(p)) => orders'[Ord(p)].status = "COOKING"
        /\ \A o \in Order : o # Ord(p) => orders'[o] = orders[o]
        /\ UNCHANGED txn /\ pc'[p] = "send"
    BY <1>1, <1>9
    DEF PerformCook, StatusOrIgnore, WriteStatus, StatementFails, FlowTypeOK,
        RepoTypeOK, Row, repoVars, paymeVars, At
  <2>2. \A t \in Txn : txn[t].state = "performed" =>
          orders'[txn[t].ord].status # "WAITING_PAYMENT"
    BY <1>1, <2>1 DEF OneOpen, Cooks, TxnOrderOK, MoneyInv
  <2> QED BY <1>1, <2>1, <2>2 DEF OneOpen, OnePaymentPerOrder, At, Reporting
<1>10. CASE MarkCanceled(p)
  <2>1. /\ \A t \in Txn : \/ txn'[t] = txn[t]
                          \/ txn'[t].state \in Canceled
        /\ pc'[p] \in {"idle", "cancel_order"} /\ UNCHANGED orders
    BY <1>1, <1>10, CallsTransaction
    DEF MarkCanceled, SetTxnState, Goto, At, TxnTypeOK, FlowTypeOK, repoVars
  <2>2. \A t \in Txn : txn[t].state = "performed" =>
          orders[txn[t].ord].status # "WAITING_PAYMENT"
    BY <1>1, <1>10 DEF MarkCanceled, OneOpen, At, Cooks
  <2>3. OnePaymentPerOrder'
    BY <2>1 DEF OneOpen, OnePaymentPerOrder, Canceled
  <2> QED BY <1>1, <2>1, <2>2, <2>3 DEF OneOpen, At, Reporting, Canceled
<1>11. CASE CancelOrder(p)
  <2>1. /\ \A o \in Order : \/ orders'[o].status = "CANCELLED"
                            \/ orders'[o] = orders[o]
        /\ UNCHANGED txn /\ pc'[p] = "idle"
    BY <1>1, <1>11
    DEF CancelOrder, StatusOrIgnore, WriteStatus, StatementFails, Goto,
        FlowTypeOK, RepoTypeOK, Row, repoVars, paymeVars
  <2>2. \A t \in Txn : txn[t].state = "performed" =>
          orders'[txn[t].ord].status # "WAITING_PAYMENT"
    BY <1>1, <1>11, <2>1 DEF CancelOrder, OneOpen, At, Cooks, TxnOrderOK
  <2> QED BY <1>1, <2>1, <2>2 DEF OneOpen, OnePaymentPerOrder, At, Reporting
<1> QED
  BY <1>2, <1>3, <1>4, <1>5, <1>6, <1>7, <1>8, <1>9, <1>10, <1>11
  DEF PaymeTurn, PaymeRequest, PaymeStep

\* One handler at a time keeps OneOpen.
LEMMA OneOpenKept ==
  ASSUME CheckoutInv, PlacedInv, MoneyInv, OneOpen, AsRead', OneAtATime,
         [CheckoutNext]_checkoutVars, Faults \cap {"db", "crash"} = {},
         "WAITING_PAYMENT" \notin OperatorStatus
  PROVE  OneOpen'
<1>1. TxnOrderOK
  BY DEF CheckoutInv, PaymeCore
<1>2. CASE CheckoutElsewhere \/ UNCHANGED checkoutVars
  <2>1. UNCHANGED <<orders, pc, job, txn, call>>
    BY <1>2, ElsewhereTouches
  <2>2. \A p \in Proc : ~At(p, "idle") /\ Stored(Ord(p))' => Stored(Ord(p))
    <3>1. \A p \in Proc : ~At(p, "idle") => Ord(p) \in Order
      BY DEF CheckoutInv, ServiceInv, FlowInv, FlowTypeOK
    <3> QED BY <1>2, <2>1, <3>1, ElsewhereTouches DEF PlacedInv, Ord
  <2> QED
    BY <2>1, <2>2 DEF OneOpen, OnePaymentPerOrder, Cooks, At, Ord
<1>3. ASSUME NEW p \in Proc, CheckoutTurn(p)
      PROVE  OneOpen'
  <2>1. CASE PaymeTurn(p)
    BY <2>1, PaymeKeepsOneOpen
  <2>2. CASE ~PaymeTurn(p)
    <3>1. /\ UNCHANGED <<txn, call>>
          /\ pc[p] \notin PaymePC /\ pc'[p] \notin PaymePC
          /\ pc'[p] \in Reporting => job'[p].status # "WAITING_PAYMENT"
      BY <1>3, <2>2, OthersLeavePayme, ReportsOpenNot
    <3>2. \A q \in Proc : q = p
      BY DEF OneAtATime
    <3>3. \A t \in Txn : txn[t].state = "performed" =>
            orders'[txn[t].ord].status # "WAITING_PAYMENT"
      <4> SUFFICES ASSUME NEW t \in Txn, txn[t].state = "performed"
                   PROVE  orders'[txn[t].ord].status # "WAITING_PAYMENT"
        OBVIOUS
      <4>1. txn[t].ord \in Order /\ orders[txn[t].ord].status # "WAITING_PAYMENT"
        BY <1>1, <3>1, <3>2 DEF OneOpen, Cooks, PaymePC, TxnOrderOK
      <4> QED BY <1>3, <4>1, TurnReopensNot
    <3>4. OnePaymentPerOrder'
      BY <3>1 DEF OneOpen, OnePaymentPerOrder
    <3> QED BY <3>1, <3>2, <3>3, <3>4 DEF OneOpen, At, PaymePC
  <2> QED BY <2>1, <2>2
<1> QED
  BY <1>2, <1>3
  DEF CheckoutNext, CheckoutElsewhere, CheckoutTurn, CheckoutCrash, ClickCrash,
      Crash

\* What is initially true of transactions.
LEMMA NothingOpenAtFirst == CheckoutInit => OneOpen /\ MoneyInv
  BY DEF CheckoutInit, PaymeInit, FlowInit, MoneyInv, OneOpen, AsRead,
         OnePaymentPerOrder, Reporting, At

\* One handler at a time leaves canceled transactions as they are.
LEMMA CanceledKept ==
  ASSUME CheckoutInv, AsRead, [CheckoutNext]_checkoutVars
  PROVE  [\A t \in Txn : txn[t].state \in Canceled => txn'[t] = txn[t]]_txn
<1>1. TxnTypeOK
  BY DEF CheckoutInv, PaymeCore
<1>2. SUFFICES ASSUME NEW p \in Proc, CreateInsert(p) \/ MarkPerformed(p) \/ MarkCanceled(p),
                      NEW t \in Txn, txn[t].state \in Canceled
               PROVE  txn'[t] = txn[t]
  BY DEF CheckoutNext, CheckoutCrash, CreateUnlinked, CreateOrder,
         DeleteUnreferenced, DeleteOrder, ShopPrepare, ServiceTurn, PaymeTurn,
         ClickTurn, SharedTurn, PaymeRequest, PerformTransaction,
         CancelTransaction, CreateTransaction, PaymeStep, CreateLookup,
         PerformPay, PerformCook, CancelOrder, paymeVars, checkoutVars
<1>3. t # call[p].txn \/ UNCHANGED txn
  BY <1>2 DEF CreateInsert, Insertable, InsertIndexed, MarkPerformed,
              MarkCanceled, AsRead, Open, Canceled, At
<1> QED
  BY <1>1, <1>2, <1>3 DEF CreateInsert, MarkPerformed, MarkCanceled,
                          SetTxnState, TxnTypeOK

\* One handler at a time keeps AsRead, whatever fails.
LEMMA AsReadKept ==
  ASSUME CheckoutInv, AsRead, OneAtATime, [CheckoutNext]_checkoutVars
  PROVE  AsRead'
<1>1. CASE CheckoutElsewhere \/ UNCHANGED checkoutVars
  BY <1>1, ElsewhereTouches DEF AsRead, At
<1>2. CASE CheckoutCrash
  BY <1>2 DEF CheckoutCrash, ClickCrash, Crash, AsRead, At
<1>3. ASSUME NEW p \in Proc, CheckoutTurn(p)
      PROVE  AsRead'
  <2>1. \A q \in Proc : q = p
    BY DEF OneAtATime
  <2>2. CASE ~PaymeTurn(p)
    BY <1>3, <2>1, <2>2, OthersLeavePayme DEF AsRead, At, PaymePC
  <2>3. FlowTypeOK /\ TxnTypeOK
    BY DEF CheckoutInv, PaymeCore, ServiceInv, FlowInv
  <2>4. CASE PaymeRequest(p)
    BY <2>1, <2>3, <2>4
    DEF PaymeRequest, CreateTransaction, PerformTransaction, CancelTransaction,
        Performable, Open, Start, Call, AsRead, At, FlowTypeOK, TxnTypeOK
  <2>5. CASE PaymeStep(p)
    <3>1. pc'[p] \in {"idle", "create_insert", "perform_pay", "perform_cook",
                      "send", "cancel_order"}
      BY <2>3, <2>5 DEF PaymeStep, CreateLookup, CreateInsert, MarkPerformed,
                        PerformPay, PerformCook, MarkCanceled, CancelOrder,
                        Goto, FlowTypeOK
    <3> QED BY <2>1, <3>1 DEF AsRead, At
  <2> QED BY <2>2, <2>4, <2>5 DEF PaymeTurn
<1> QED
  BY <1>1, <1>2, <1>3 DEF CheckoutNext, CheckoutElsewhere, CheckoutTurn

\* A canceled transaction stays canceled, as it was, when no two handlers
\* overlap, whatever fails: the updates that overwrite the state without
\* looking at it do harm only when a handler comes between the read and the
\* write (CancelTransaction, PerformTransaction).
THEOREM CanceledForGood ==
  ASSUME OneAtATime
  PROVE  CheckoutSpec => CanceledStaysCanceled
<1>1. CheckoutInit => AsRead
  BY NothingOpenAtFirst DEF OneOpen
<1>2. CheckoutInv /\ AsRead /\ [CheckoutNext]_checkoutVars => AsRead'
  BY AsReadKept
<1>3. CheckoutInv /\ AsRead /\ [CheckoutNext]_checkoutVars
      => [\A t \in Txn : txn[t].state \in Canceled => txn'[t] = txn[t]]_txn
  BY CanceledKept
<1> QED
  BY <1>1, <1>2, <1>3, CheckoutInvariant, PTL
  DEF CheckoutSpec, CanceledStaysCanceled

\* An order never has two transactions that are open or paid when no two
\* handlers overlap, while the database and the server do not fail and no
\* operator makes an order wait for payment again (CreateTransaction,
\* payme_one_active_per_order_uq).
THEOREM OnePaymentAlone ==
  ASSUME Faults \cap {"db", "crash"} = {}, OneAtATime,
         "WAITING_PAYMENT" \notin OperatorStatus
  PROVE  CheckoutSpec => []OnePaymentPerOrder
<1>1. CheckoutInv /\ PlacedInv /\ MoneyInv /\ [CheckoutNext]_checkoutVars => MoneyInv'
  BY CheckoutMoneyKept
<1>2. CheckoutInv /\ PlacedInv /\ MoneyInv /\ OneOpen /\ [CheckoutNext]_checkoutVars
      => OneOpen'
  BY OneOpenKept, AsReadKept DEF OneOpen
<1>3. OneOpen => OnePaymentPerOrder
  BY DEF OneOpen
<1> QED
  BY <1>1, <1>2, <1>3, NothingOpenAtFirst, CheckoutInvariant,
     NothingBeforeItsRow, PTL
  DEF CheckoutSpec

----------------------------------------------------------------------------
(* What clients are told, one request at a time                            *)

\* What the client of o was last told is true, or an exception to it.
Said(o) ==
  \/ orders[o].notified \in {NeverNotified, orders[o].status}
  \/ orders[o].status = "REJECTED"
  \/ Refunded(o)

\* p has written the status that it holds, and will tell the client.
WillSay(p) ==
  \/ pc[p] \in {"claim", "push", "hook_pay"}
  \/ pc[p] \in SendPC /\ job[p].afterSend = "claim"

\* Back in the handler of Complete.
HandlerPC == {"handler_read", "handler_pay", "handler_cook"}

\* What is true of o while p works on it: the client knows its status, or p
\* has still to tell.
SaidOn(p, o) ==
  Stored(o) =>
    /\ Said(o) \/ WillSay(p)
    /\ told[o] = orders[o].notified \/ At(p, "push")
    /\ WillSay(p) \/ pc[p] \in HandlerPC => job[p].status = orders[o].status
    /\ At(p, "push") \/ pc[p] \in HandlerPC =>
         job[p].status = orders[o].notified

\* Complete announces COOKING before its handler writes it again, and only a
\* refund ends in CancelOrder.
SaysTrue(p) ==
  /\ job[p].afterNotify = "handler_read" \/ pc[p] \in HandlerPC =>
       /\ pc[p] \in SendPC \cup NotifyPC \cup HandlerPC
       /\ job[p].status = "COOKING"
  /\ At(p, "cancel_order") => Refunded(Ord(p))
  /\ ~At(p, "shop_fail")

\* The client of o knows its status, and nothing is left to tell.
Quiet(o) == Stored(o) => Said(o) /\ told[o] = orders[o].notified

\* The inductive invariant.
SaidInv ==
  /\ \A o \in Order : Quiet(o) \/ \E p \in Proc : ~At(p, "idle") /\ Ord(p) = o
  /\ \A p \in Proc : SaysTrue(p) /\ (~At(p, "idle") => SaidOn(p, Ord(p)))

\* A refund is never taken back when no two handlers overlap.
LEMMA RefundStays ==
  ASSUME CheckoutInv, AsRead, [CheckoutNext]_checkoutVars, NEW o, Refunded(o)
  PROVE  Refunded(o)'
<1>1. PICK t \in Txn : txn[t].ord = o /\ txn[t].state = "canceled_performed"
  BY DEF Refunded
<1>2. txn'[t] = txn[t]
  BY <1>1, CanceledKept DEF Canceled
<1> QED BY <1>1, <1>2 DEF Refunded

\* An order that p does not work on stays as it was said to be.
LEMMA SaidFrame ==
  ASSUME SaidInv, OneAtATime, NEW p \in Proc, NEW o \in Order,
         At(p, "idle") \/ Ord(p) = o,
         At(p, "idle")' \/ Ord(p)' = o,
         \A x \in Order : x # o =>
           /\ Stored(x)' => Stored(x)
           /\ orders'[x] = orders[x] /\ told'[x] = told[x],
         \A x : Refunded(x) => Refunded(x)',
         SaidOn(p, o)', SaysTrue(p)'
  PROVE  SaidInv'
<1>1. \A q \in Proc : q = p
  BY DEF OneAtATime
<1>2. ASSUME NEW x \in Order, x # o
      PROVE  Quiet(x)'
  <2>1. Quiet(x)
    BY <1>1, <1>2 DEF SaidInv
  <2> QED BY <1>2, <2>1 DEF Quiet, Said
<1>3. At(p, "idle")' => Quiet(o)'
  BY DEF SaidOn, Quiet, WillSay, At, SendPC
<1>4. ~At(p, "idle")' => SaidOn(p, Ord(p))'
  <2> DEFINE c == Ord(p)'
  <2>1. ~At(p, "idle")' => c = o
    OBVIOUS
  <2>2. SaidOn(p, o)' => (c = o => SaidOn(p, Ord(p))')
    BY DEF SaidOn, Said, Refunded, Stored
  <2> QED BY <2>1, <2>2
<1> QED
  BY <1>1, <1>2, <1>3, <1>4 DEF SaidInv

\* What an idle goroutine knows of every order, and a busy one of its own.
LEMMA SaidBefore ==
  ASSUME CheckoutInv, SaidInv, OneAtATime, NEW p \in Proc
  PROVE  /\ SaysTrue(p)
         /\ At(p, "idle") => \A o \in Order : Quiet(o)
         /\ ~At(p, "idle") => Ord(p) \in Order /\ SaidOn(p, Ord(p))
  BY DEF CheckoutInv, ServiceInv, FlowInv, FlowTypeOK, SaidInv, OneAtATime

\* The order service announces what it writes, or REJECTED.
LEMMA ServiceSays ==
  ASSUME CheckoutInv, SaidInv, OneAtATime, NEW p \in Proc, ServiceTurn(p),
         \A x : Refunded(x) => Refunded(x)', "db" \notin Faults
  PROVE  SaidInv'
<1>1. /\ RepoTypeOK /\ FlowTypeOK /\ SaysTrue(p)
      /\ At(p, "idle") => \A o \in Order : Quiet(o)
      /\ ~At(p, "idle") => Ord(p) \in Order /\ SaidOn(p, Ord(p))
  BY SaidBefore DEF CheckoutInv, ServiceInv, FlowInv, RepoInv
<1> USE DEF At, Ord
<1>2. CASE ServiceRequest(p)
  <2>1. ASSUME NEW o \in Order, NEW s \in OperatorStatus, UpdateStatus(p, o, s)
        PROVE  SaidInv'
    <3>1. /\ pc'[p] = "claim" /\ Ord(p)' = o /\ job'[p].status = s
          /\ job'[p].afterNotify # "handler_read"
      BY <1>1, <2>1 DEF UpdateStatus, Start, JobFor, NoJob, AfterAnnouncing,
                        FlowTypeOK
    <3>2. /\ Stored(o) /\ UNCHANGED <<table, told>>
          /\ orders'[o] = [orders[o] EXCEPT !.status = s]
          /\ \A x \in Order : x # o => orders'[x] = orders[x]
      BY <1>1, <2>1 DEF UpdateStatus, WriteStatus, RepoTypeOK
    <3>3. SaidOn(p, o)'
      BY <1>1, <2>1, <3>1, <3>2 DEF SaidOn, WillSay, Quiet, UpdateStatus, Start,
                                    HandlerPC, RepoTypeOK, Row
    <3>4. SaysTrue(p)'
      BY <3>1 DEF SaysTrue, HandlerPC
    <3> QED
      BY <2>1, <3>1, <3>2, <3>3, <3>4, SaidFrame DEF UpdateStatus, Start, Stored
  <2>2. ASSUME NEW o \in Order, NEW i \in IikoId,
               \/ HookNotCreated(p, o, i) \/ HookError(p, o, i)
               \/ \E is \in ReportedStatus : HookUpdate(p, o, i, is)
        PROVE  SaidInv'
    <3>1. /\ pc'[p] \in {"hook_meta", "hook_reject", "error_meta"}
          /\ Ord(p)' = o /\ job'[p].afterNotify # "handler_read"
          /\ pc[p] = "idle" /\ UNCHANGED <<table, orders, told>>
      BY <1>1, <2>2 DEF HookNotCreated, HookError, HookUpdate, Start, JobFor,
                        NoJob, FlowTypeOK, repoVars
    <3>2. SaidOn(p, o)'
      BY <1>1, <2>2, <3>1 DEF SaidOn, WillSay, Quiet, HandlerPC, SendPC, Said,
                              Stored
    <3>3. SaysTrue(p)'
      BY <3>1 DEF SaysTrue, HandlerPC
    <3> QED
      BY <3>1, <3>2, <3>3, SaidFrame DEF Stored
  <2> QED BY <1>2, <2>1, <2>2 DEF ServiceRequest
<1>3. CASE ServiceStep(p)
  <2>0. PICK o \in Order : o = Ord(p)
    BY <1>1, <1>3
    DEF ServiceStep, Settle, HookReject, HookMeta, HookSet, HookPay, ErrorMeta,
        ErrorSet
  <2>1. /\ pc[p] \in ServicePC /\ o = Ord(p) /\ SaidOn(p, o)
        /\ job[p].afterNotify # "handler_read" /\ UNCHANGED told
    BY <1>1, <1>3, <2>0
    DEF ServiceStep, Settle, HookReject, HookMeta, HookSet, HookPay, ErrorMeta,
        ErrorSet, ServicePC, SaysTrue, SendPC, NotifyPC, HandlerPC
  <2>2. /\ pc'[p] = "idle" \/ Ord(p)' = o
        /\ pc'[p] # "idle" => job'[p] = job[p]
        /\ pc'[p] \in {"idle", "hook_set", "hook_pay", "error_set", "claim"}
        /\ job'[p].afterNotify # "handler_read"
    BY <1>1, <1>3, <2>1
    DEF ServiceStep, Settle, HookReject, HookMeta, HookSet, HookPay, ErrorMeta,
        ErrorSet, Goto, FlowTypeOK, NoJob
  <2>3. /\ UNCHANGED table
        /\ \A x \in Order : x # o => orders'[x] = orders[x]
    BY <1>1, <1>3, <2>1, RepoTouches, IgnoredTouches
    DEF ServiceStep, Settle, HookReject, HookMeta, HookSet, HookPay, ErrorMeta,
        ErrorSet, StatementFails, repoVars
  <2>4. SaysTrue(p)'
    BY <2>2 DEF SaysTrue, HandlerPC
  <2>5. SaidOn(p, o)'
    <3>1. CASE Settle(p) \/ HookMeta(p) \/ ErrorMeta(p)
      <4>1. /\ orders'[o].status = orders[o].status
            /\ orders'[o].notified = orders[o].notified
        BY <1>1, <2>1, <3>1
        DEF Settle, HookMeta, ErrorMeta, PaymentOrIgnore, IikoMetaOrIgnore,
            WritePayment, WriteIikoMeta, StatementFails, repoVars, RepoTypeOK,
            Row
      <4>2. /\ pc[p] \in {"settle", "hook_meta", "error_meta"}
            /\ pc'[p] \in {"idle", "hook_set", "error_set"}
        BY <1>1, <3>1 DEF Settle, HookMeta, ErrorMeta, Goto, FlowTypeOK
      <4> QED
        BY <2>1, <2>3, <4>1, <4>2 DEF SaidOn, WillSay, HandlerPC, SendPC, Said,
                                      Stored
    <3>2. CASE HookPay(p)
      <4>1. /\ orders'[o].status = orders[o].status
            /\ orders'[o].notified = orders[o].notified
        BY <1>1, <2>1, <3>2
        DEF HookPay, PaymentOrIgnore, WritePayment, StatementFails, repoVars,
            RepoTypeOK, Row
      <4>2. pc[p] = "hook_pay" /\ pc'[p] = "claim" /\ job'[p] = job[p]
        BY <1>1, <3>2 DEF HookPay, Goto, FlowTypeOK
      <4> QED
        BY <2>1, <2>3, <4>1, <4>2 DEF SaidOn, WillSay, HandlerPC, Stored
    <3>3. CASE HookSet(p) \/ ErrorSet(p)
      <4>1. /\ Stored(o) => orders'[o] = [orders[o] EXCEPT !.status = job[p].status]
            /\ Stored(o) => pc'[p] \in {"hook_pay", "claim"} /\ job'[p] = job[p]
        BY <1>1, <2>1, <3>3
        DEF HookSet, ErrorSet, StatusOrIgnore, WriteStatus, StatementFails,
            RepoTypeOK, Goto, FlowTypeOK
      <4>2. pc[p] \in {"hook_set", "error_set"}
        BY <3>3 DEF HookSet, ErrorSet
      <4>3. Stored(o) => /\ orders'[o].status = job[p].status
                         /\ orders'[o].notified = orders[o].notified
        BY <1>1, <2>1, <4>1 DEF RepoTypeOK, Row
      <4> QED
        BY <2>1, <2>3, <4>1, <4>2, <4>3 DEF SaidOn, WillSay, HandlerPC, Stored
    <3>4. CASE HookReject(p)
      <4>1. Stored(o) => /\ orders'[o].status = "REJECTED"
                         /\ orders'[o].notified = orders[o].notified
        BY <1>1, <2>1, <3>4
        DEF HookReject, StatusOrIgnore, WriteStatus, StatementFails, RepoTypeOK,
            Row
      <4>2. pc[p] = "hook_reject" /\ pc'[p] = "idle"
        BY <1>1, <3>4 DEF HookReject, Goto, FlowTypeOK
      <4> QED
        BY <2>1, <2>3, <4>1, <4>2 DEF SaidOn, WillSay, HandlerPC, SendPC, Said,
                                      Stored
    <3> QED BY <1>3, <3>1, <3>2, <3>3, <3>4 DEF ServiceStep
  <2> QED
    BY <2>1, <2>2, <2>3, <2>4, <2>5, SaidFrame DEF Stored
<1> QED BY <1>2, <1>3 DEF ServiceTurn

\* Payme announces COOKING; a refund it does not announce.
LEMMA PaymeSays ==
  ASSUME CheckoutInv, PlacedInv, SaidInv, OneAtATime, NEW p \in Proc,
         PaymeTurn(p), \A x : Refunded(x) => Refunded(x)', "db" \notin Faults
  PROVE  SaidInv'
<1>1. /\ RepoTypeOK /\ FlowTypeOK /\ TxnTypeOK /\ SaysTrue(p)
      /\ At(p, "idle") => \A o \in Order : Quiet(o)
      /\ ~At(p, "idle") => Ord(p) \in Order /\ SaidOn(p, Ord(p))
  BY SaidBefore DEF CheckoutInv, ServiceInv, FlowInv, RepoInv, PaymeCore
<1> USE DEF At, Ord
<1>2. CASE PaymeRequest(p)
  <2>1. PICK o \in Order : Ord(p)' = o
    <3>1. \A t \in Txn : txn[t].state # "none" => txn[t].ord \in Order
      BY DEF CheckoutInv, PaymeCore, TxnOrderOK
    <3> QED
      BY <1>1, <1>2, <3>1
      DEF PaymeRequest, PerformTransaction, Performable, CancelTransaction,
          CreateTransaction, Start, JobFor, NoJob, FlowTypeOK
  <2>2. /\ pc[p] = "idle"
        /\ pc'[p] \in {"create_lookup", "mark_performed", "mark_canceled"}
        /\ job'[p].afterNotify # "handler_read"
        /\ UNCHANGED <<table, orders, told>>
    BY <1>1, <1>2
    DEF PaymeRequest, PerformTransaction, CancelTransaction, CreateTransaction,
        Start, JobFor, NoJob, FlowTypeOK, repoVars
  <2>3. SaidOn(p, o)'
    BY <1>1, <2>2 DEF SaidOn, WillSay, Quiet, HandlerPC, SendPC, Said, Stored
  <2>4. SaysTrue(p)'
    BY <2>2 DEF SaysTrue, HandlerPC
  <2> QED BY <2>1, <2>2, <2>3, <2>4, SaidFrame DEF Stored
<1>3. CASE PaymeStep(p)
  <2>0. PICK o \in Order : o = Ord(p)
    BY <1>1, <1>3
    DEF PaymeStep, CreateLookup, CreateInsert, MarkPerformed, PerformPay,
        PerformCook, MarkCanceled, CancelOrder
  <2>1. /\ pc[p] \in PaymePC /\ o = Ord(p) /\ SaidOn(p, o)
        /\ job[p].afterNotify # "handler_read" /\ UNCHANGED told
    BY <1>1, <1>3, <2>0
    DEF PaymeStep, CreateLookup, CreateInsert, MarkPerformed, PerformPay,
        PerformCook, MarkCanceled, CancelOrder, PaymePC, SaysTrue, SendPC,
        NotifyPC, HandlerPC
  <2>2. /\ pc'[p] = "idle" \/ Ord(p)' = o
        /\ job'[p].afterNotify # "handler_read"
    BY <1>1, <1>3, <2>1
    DEF PaymeStep, CreateLookup, CreateInsert, MarkPerformed, PerformPay,
        PerformCook, MarkCanceled, CancelOrder, Goto, FlowTypeOK, NoJob, Job
  <2>3. /\ UNCHANGED table
        /\ \A x \in Order : x # o => orders'[x] = orders[x]
    BY <1>1, <1>3, <2>1, IgnoredTouches
    DEF PaymeStep, CreateLookup, CreateInsert, MarkPerformed, PerformPay,
        PerformCook, MarkCanceled, CancelOrder, repoVars
  <2>4. CASE PerformCook(p)
    <3>1. /\ pc'[p] = "send" /\ job'[p].afterSend = "claim"
          /\ job'[p].status = "COOKING" /\ pc[p] = "perform_cook"
      BY <1>1, <2>4 DEF PerformCook, FlowTypeOK, Job
    <3>2. Stored(o) => /\ orders'[o].status = "COOKING"
                       /\ orders'[o].notified = orders[o].notified
      BY <1>1, <2>1, <2>4 DEF PerformCook, StatusOrIgnore, WriteStatus,
                              StatementFails, RepoTypeOK, Row
    <3>3. SaidOn(p, o)'
      BY <2>1, <2>3, <3>1, <3>2 DEF SaidOn, WillSay, HandlerPC, SendPC, Stored
    <3>4. SaysTrue(p)'
      BY <2>2, <3>1 DEF SaysTrue, HandlerPC
    <3> QED BY <2>1, <2>2, <2>3, <3>3, <3>4, SaidFrame DEF Stored
  <2>5. CASE MarkCanceled(p)
    <3>1. /\ pc'[p] \in {"idle", "cancel_order"} /\ UNCHANGED orders
          /\ pc[p] = "mark_canceled"
      BY <1>1, <2>5 DEF MarkCanceled, Goto, FlowTypeOK, repoVars
    <3>2. pc'[p] = "cancel_order" => Refunded(o)'
      <4>1. call[p].txn \in Txn /\ txn[call[p].txn].ord = o
        BY <2>1, <3>1, CallsTransaction
      <4>2. pc'[p] = "cancel_order" =>
              /\ txn'[call[p].txn].ord = o
              /\ txn'[call[p].txn].state = "canceled_performed"
        BY <1>1, <2>5, <4>1 DEF MarkCanceled, SetTxnState, Goto, FlowTypeOK,
                                TxnTypeOK
      <4> QED BY <4>1, <4>2 DEF Refunded
    <3>3. SaidOn(p, o)'
      BY <2>1, <2>3, <3>1 DEF SaidOn, WillSay, HandlerPC, SendPC, Said, Stored
    <3>4. SaysTrue(p)'
      <4>1. pc'[p] = "cancel_order" => Refunded(Ord(p))'
        BY <2>2, <3>2 DEF Refunded
      <4> QED BY <2>2, <3>1, <4>1 DEF SaysTrue, HandlerPC
    <3> QED BY <2>1, <2>2, <2>3, <3>1, <3>3, <3>4, SaidFrame DEF Stored
  <2>6. CASE CancelOrder(p)
    <3>1. pc'[p] = "idle" /\ pc[p] = "cancel_order" /\ Refunded(o)
      BY <1>1, <2>1, <2>6 DEF CancelOrder, Goto, FlowTypeOK, SaysTrue
    <3>2. orders'[o].notified = orders[o].notified
      BY <1>1, <2>1, <2>6 DEF CancelOrder, StatusOrIgnore, WriteStatus,
                              StatementFails, RepoTypeOK, Row, repoVars
    <3>3. SaidOn(p, o)'
      BY <2>1, <2>3, <3>1, <3>2 DEF SaidOn, WillSay, HandlerPC, SendPC, Said,
                                    Stored
    <3>4. SaysTrue(p)'
      BY <2>2, <3>1 DEF SaysTrue, HandlerPC
    <3> QED BY <2>1, <2>2, <2>3, <3>1, <3>3, <3>4, SaidFrame DEF Stored
  <2>7. CASE \/ CreateLookup(p) \/ CreateInsert(p) \/ MarkPerformed(p)
             \/ PerformPay(p)
    <3>1. /\ pc'[p] \in {"idle", "create_insert", "perform_pay", "perform_cook"}
          /\ pc[p] \in {"create_lookup", "create_insert", "mark_performed",
                        "perform_pay"}
      BY <1>1, <2>7 DEF CreateLookup, CreateInsert, MarkPerformed, PerformPay,
                        Goto, FlowTypeOK
    <3>2. /\ orders'[o].notified = orders[o].notified
          /\ orders'[o].status = orders[o].status
      BY <1>1, <2>1, <2>7
      DEF CreateLookup, CreateInsert, MarkPerformed, PerformPay, repoVars,
          PaymentOrIgnore, WritePayment, StatementFails, RepoTypeOK, Row
    <3>3. SaidOn(p, o)'
      BY <2>1, <2>3, <3>1, <3>2 DEF SaidOn, WillSay, HandlerPC, SendPC, Said,
                                    Stored
    <3>4. SaysTrue(p)'
      BY <2>2, <3>1 DEF SaysTrue, HandlerPC
    <3> QED BY <2>1, <2>2, <2>3, <3>1, <3>3, <3>4, SaidFrame DEF Stored
  <2> QED BY <1>3, <2>4, <2>5, <2>6, <2>7 DEF PaymeStep
<1> QED BY <1>2, <1>3 DEF PaymeTurn

\* Sending to iiko changes nothing that was said, and who is told is told
\* the order's status.
LEMMA SharedSays ==
  ASSUME CheckoutInv, SaidInv, OneAtATime, NEW p \in Proc, SharedTurn(p),
         \A x : Refunded(x) => Refunded(x)', "db" \notin Faults
  PROVE  SaidInv'
<1>1. /\ RepoTypeOK /\ FlowTypeOK /\ SaysTrue(p)
      /\ At(p, "idle") => \A o \in Order : Quiet(o)
      /\ ~At(p, "idle") => Ord(p) \in Order /\ SaidOn(p, Ord(p))
  BY SaidBefore DEF CheckoutInv, ServiceInv, FlowInv, RepoInv
<1> USE DEF At, Ord
<1>2. PICK o \in Order : o = Ord(p)
  BY <1>1 DEF SharedTurn, FlowStep, SendRead, SendPost, SendPostLost,
              SendPostRefused, SendMeta, Claim, Push
<1>3. /\ pc[p] \in SendPC \cup NotifyPC /\ SaidOn(p, o)
      /\ UNCHANGED table
      /\ \A x \in Order : x # o => orders'[x] = orders[x] /\ told'[x] = told[x]
  BY <1>1, <1>2, RepoTouches, IgnoredTouches
  DEF SharedTurn, FlowStep, SendRead, SendPost, SendPostLost, SendPostRefused,
      SendMeta, Claim, Push, SendPC, NotifyPC, repoVars, FlowTypeOK
<1>4. /\ pc'[p] = "idle" \/ Ord(p)' = o
      /\ pc'[p] # "idle" =>
           /\ job'[p].afterNotify = job[p].afterNotify
           /\ job'[p].afterSend = job[p].afterSend
           /\ job'[p].status = job[p].status
      /\ pc'[p] = "idle" => job'[p].afterNotify # "handler_read"
  BY <1>1, <1>2
  DEF SharedTurn, FlowStep, SendRead, SendPost, SendPostLost, SendPostRefused,
      SendMeta, Claim, Push, Goto, FlowTypeOK, Job, NoJob
<1>5. SaysTrue(p)'
  <2>1. /\ pc'[p] \in {"idle", "claim", "push", "send", "post", "meta",
                       "settle", "handler_read"}
        /\ pc[p] \in NotifyPC => pc'[p] \in {"push", job[p].afterNotify}
        /\ pc[p] \in SendPC => pc'[p] \in SendPC \cup {job[p].afterSend}
        /\ job[p].afterNotify \in {"idle", "send", "settle", "handler_read"}
        /\ job[p].afterSend \in {"idle", "claim"}
    BY <1>1
    DEF SharedTurn, FlowStep, SendRead, SendPost, SendPostLost, SendMeta,
        SendPostRefused, Claim, Push, Goto, FlowTypeOK, Job, SendPC, NotifyPC
  <2>2. pc'[p] # "idle" /\ job[p].afterNotify = "handler_read" =>
          pc'[p] \in SendPC \cup NotifyPC \cup HandlerPC
    BY <1>3, <2>1 DEF HandlerPC, NotifyPC, SendPC
  <2>3. pc'[p] \in HandlerPC => job[p].afterNotify = "handler_read"
    BY <1>3, <2>1 DEF HandlerPC, NotifyPC, SendPC
  <2> QED BY <1>1, <1>4, <2>1, <2>2, <2>3 DEF SaysTrue, HandlerPC
<1>6. SaidOn(p, o)'
  <2>1. CASE Claim(p)
    <3>1. /\ Stored(o) => orders'[o].notified = job[p].status
          /\ orders'[o].status = orders[o].status
      BY <1>1, <1>2, <2>1 DEF Claim, TryMarkNotified, Markable, RepoTypeOK, Row,
                              repoVars
    <3>2. /\ pc[p] = "claim" /\ UNCHANGED told
          /\ \/ pc'[p] = "push" /\ job'[p] = job[p]
             \/ /\ pc'[p] = job[p].afterNotify /\ UNCHANGED orders
                /\ pc'[p] # "idle" => job'[p] = job[p]
      BY <1>1, <2>1 DEF Claim, Goto, FlowTypeOK, repoVars
    <3>3. job[p].afterNotify \in {"idle", "send", "settle", "handler_read"}
      BY <1>1 DEF FlowTypeOK, Job
    <3>4. Stored(o) => /\ job[p].status = orders[o].status
                       /\ told[o] = orders[o].notified
      BY <1>3, <3>2 DEF SaidOn, WillSay
    <3> QED
      BY <1>3, <3>1, <3>2, <3>3, <3>4 DEF SaidOn, WillSay, Said, Stored, SendPC,
                                          HandlerPC
  <2>2. CASE Push(p)
    <3>1. pc[p] = "push" /\ UNCHANGED orders /\ told'[o] = job[p].status
      BY <1>1, <1>2, <2>2 DEF Push, repoVars, FlowTypeOK
    <3>2. /\ pc'[p] \in {"idle", "send", "settle", "handler_read"}
          /\ pc'[p] # "idle" => job'[p] = job[p]
      BY <1>1, <2>2 DEF Push, Goto, FlowTypeOK, Job
    <3>3. Stored(o) => /\ job[p].status = orders[o].status
                       /\ job[p].status = orders[o].notified
      BY <1>3, <3>1 DEF SaidOn, WillSay
    <3> QED
      BY <1>3, <3>1, <3>2, <3>3 DEF SaidOn, WillSay, Said, Stored, SendPC,
                                    HandlerPC
  <2>3. CASE FlowStep(p) /\ ~Claim(p) /\ ~Push(p)
    <3>1. /\ pc[p] \in SendPC /\ UNCHANGED told
          /\ \/ pc'[p] \in SendPC
             \/ pc'[p] = job[p].afterSend /\ job[p].afterSend \in {"idle", "claim"}
      BY <1>1, <2>3
      DEF FlowStep, SendRead, SendPost, SendPostLost, SendMeta,
          SendPostRefused, Goto, FlowTypeOK, Job, SendPC
    <3>2. /\ orders'[o].notified = orders[o].notified
          /\ orders'[o].status = orders[o].status
      BY <1>1, <1>2, <2>3
      DEF FlowStep, SendRead, SendPost, SendPostLost, SendPostRefused, SendMeta,
          IikoMetaOrIgnore, WriteIikoMeta, StatementFails, repoVars, RepoTypeOK,
          Row
    <3> QED
      BY <1>3, <1>4, <3>1, <3>2 DEF SaidOn, WillSay, Said, Stored, SendPC,
                                    HandlerPC
  <2> QED BY <2>1, <2>2, <2>3 DEF SharedTurn
<1> QED BY <1>2, <1>3, <1>4, <1>5, <1>6, SaidFrame DEF Stored

\* Complete announces COOKING, and writes the status it announced again.
LEMMA ClickSays ==
  ASSUME CheckoutInv, PlacedInv, SaidInv, OneAtATime, NEW p \in Proc,
         ClickTurn(p), \A x : Refunded(x) => Refunded(x)',
         "db" \notin Faults, "failure" \notin Outcomes
  PROVE  SaidInv'
<1>1. /\ RepoTypeOK /\ FlowTypeOK /\ ClickVarsOK /\ SaysTrue(p)
      /\ At(p, "idle") => \A o \in Order : Quiet(o)
      /\ ~At(p, "idle") => Ord(p) \in Order /\ SaidOn(p, Ord(p))
  BY SaidBefore DEF CheckoutInv, ServiceInv, FlowInv, RepoInv, ClickCore
<1> USE DEF At, Ord
<1>2. CASE ClickRequest(p)
  <2>1. ASSUME NEW o \in Order, PlaceOrder(p, o)
        PROVE  SaidInv'
    <3>1. /\ pc'[p] = "checkout_prepare" /\ Ord(p)' = o /\ pc[p] = "idle"
          /\ job'[p].afterNotify # "handler_read"
          /\ ~Placed(o) /\ UNCHANGED <<orders, told>>
          /\ \A x \in Order : x # o => table'[x] = table[x]
      BY <1>1, <2>1 DEF PlaceOrder, Insert, Start, JobFor, NoJob, FlowTypeOK,
                        RepoTypeOK, Placed
    <3>2. SaidOn(p, o)'
      BY <3>1 DEF PlacedInv, SaidOn, Said, WillSay, HandlerPC, SendPC
    <3>3. SaysTrue(p)'
      BY <3>1 DEF SaysTrue, HandlerPC
    <3> QED BY <3>1, <3>2, <3>3, SaidFrame DEF Stored
  <2>2. ASSUME NEW o \in Order, NEW r \in Outcomes, Complete(p, o, r)
        PROVE  SaidInv'
    <3>1. /\ pc'[p] = "shop_invoice" /\ Ord(p)' = o /\ pc[p] = "idle"
          /\ job'[p].afterNotify # "handler_read"
          /\ UNCHANGED <<table, orders, told>>
      BY <1>1, <2>2, OutcomesAssumption
      DEF Complete, Start, JobFor, NoJob, FlowTypeOK, repoVars
    <3>2. SaidOn(p, o)'
      BY <1>1, <3>1 DEF SaidOn, WillSay, Quiet, HandlerPC, SendPC, Said, Stored
    <3>3. SaysTrue(p)'
      BY <3>1 DEF SaysTrue, HandlerPC
    <3> QED BY <3>1, <3>2, <3>3, SaidFrame DEF Stored
  <2> QED BY <1>2, <2>1, <2>2 DEF ClickRequest
<1>3. CASE ClickStep(p)
  <2>0. PICK o \in Order : o = Ord(p)
    BY <1>1, <1>3
    DEF ClickStep, CheckoutPrepare, InvoiceInsert, AddLink, ShopFail,
        ShopInvoice, ShopPay, ShopCook, HandlerRead, HandlerPay, HandlerCook
  <2>1. /\ pc[p] \in ClickPC /\ o = Ord(p) /\ SaidOn(p, o) /\ UNCHANGED told
        /\ pc[p] \notin HandlerPC => job[p].afterNotify # "handler_read"
    BY <1>1, <1>3, <2>0
    DEF ClickStep, CheckoutPrepare, InvoiceInsert, AddLink, ShopFail,
        ShopInvoice, ShopPay, ShopCook, HandlerRead, HandlerPay, HandlerCook,
        ClickPC, SaysTrue, SendPC, NotifyPC, HandlerPC
  <2>2. /\ UNCHANGED table
        /\ \A x \in Order : x # o => orders'[x] = orders[x]
    BY <1>1, <1>3, <2>1, RepoTouches, IgnoredTouches
    DEF ClickStep, CheckoutPrepare, InvoiceInsert, AddLink, ShopFail,
        ShopInvoice, ShopPay, ShopCook, HandlerRead, HandlerPay, HandlerCook,
        StatementFails, repoVars
  <2>3. CASE \/ CheckoutPrepare(p) \/ InvoiceInsert(p) \/ AddLink(p)
             \/ ShopInvoice(p) \/ ShopPay(p)
    <3>1. /\ pc[p] \notin HandlerPC
          /\ ~WillSay(p) /\ pc[p] # "push"
          /\ pc'[p] \in {"idle", "invoice_insert", "add_link", "shop_pay",
                         "shop_cook"}
          /\ pc'[p] = "idle" \/ Ord(p)' = o
          /\ job'[p].afterNotify # "handler_read"
      BY <1>1, <2>1, <2>3
      DEF CheckoutPrepare, InvoiceInsert, AddLink, ShopInvoice, ShopPay, Return,
          Goto, FlowTypeOK, NoJob, HandlerPC, WillSay, SendPC
    <3>2. /\ orders'[o].notified = orders[o].notified
          /\ orders'[o].status = orders[o].status
      BY <1>1, <2>1, <2>3
      DEF CheckoutPrepare, InvoiceInsert, AddLink, ShopInvoice, ShopPay,
          WritePayment, StatementFails, RepoTypeOK, Row, repoVars
    <3>3. SaidOn(p, o)'
      BY <2>1, <2>2, <3>1, <3>2 DEF SaidOn, WillSay, HandlerPC, SendPC, Said,
                                    Stored
    <3>4. SaysTrue(p)'
      BY <3>1 DEF SaysTrue, HandlerPC
    <3> QED BY <2>1, <2>2, <3>1, <3>3, <3>4, SaidFrame DEF Stored
  <2>4. CASE ShopCook(p)
    <3>1. /\ pc'[p] = "send" /\ job'[p].afterSend = "claim" /\ Ord(p)' = o
          /\ job'[p].status = "COOKING" /\ pc[p] = "shop_cook"
      BY <1>1, <2>1, <2>4 DEF ShopCook, FlowTypeOK, Job
    <3>2. Stored(o) => /\ orders'[o].status = "COOKING"
                       /\ orders'[o].notified = orders[o].notified
      BY <1>1, <2>1, <2>4 DEF ShopCook, StatusOrIgnore, WriteStatus,
                              StatementFails, RepoTypeOK, Row
    <3>3. SaidOn(p, o)'
      BY <2>1, <2>2, <3>1, <3>2 DEF SaidOn, WillSay, HandlerPC, SendPC, Stored
    <3>4. SaysTrue(p)'
      BY <3>1 DEF SaysTrue, HandlerPC, SendPC
    <3> QED BY <2>1, <2>2, <3>1, <3>3, <3>4, SaidFrame DEF Stored
  <2>5. CASE HandlerRead(p) \/ HandlerPay(p)
    <3>1. /\ pc[p] \in HandlerPC /\ pc'[p] \in {"handler_pay", "handler_cook"}
          /\ job'[p] = job[p]
      BY <1>1, <2>5 DEF HandlerRead, HandlerPay, Goto, FlowTypeOK, HandlerPC
    <3>2. /\ orders'[o].notified = orders[o].notified
          /\ orders'[o].status = orders[o].status
      BY <1>1, <2>1, <2>5
      DEF HandlerRead, HandlerPay, PaymentOrIgnore, WritePayment,
          StatementFails, RepoTypeOK, Row, repoVars
    <3>3. SaidOn(p, o)'
      BY <2>1, <2>2, <3>1, <3>2 DEF SaidOn, WillSay, HandlerPC, SendPC, Said,
                                    Stored
    <3>4. SaysTrue(p)'
      BY <1>1, <3>1 DEF SaysTrue, HandlerPC
    <3> QED BY <2>1, <2>2, <3>1, <3>3, <3>4, SaidFrame DEF Stored
  <2>6. CASE HandlerCook(p)
    <3>1. /\ pc[p] = "handler_cook" /\ pc'[p] = "idle"
          /\ job'[p].afterNotify # "handler_read"
      BY <1>1, <2>6 DEF HandlerCook, Return, Goto, FlowTypeOK, NoJob
    <3>2. Stored(o) => /\ orders'[o].status = "COOKING"
                       /\ orders'[o].notified = orders[o].notified
      BY <1>1, <2>1, <2>6 DEF HandlerCook, StatusOrIgnore, WriteStatus,
                              StatementFails, RepoTypeOK, Row
    <3>3. Stored(o) => /\ orders[o].notified = "COOKING"
                       /\ told[o] = orders[o].notified
      BY <1>1, <2>1, <3>1 DEF SaidOn, SaysTrue, HandlerPC
    <3>4. SaidOn(p, o)'
      BY <2>1, <2>2, <3>1, <3>2, <3>3 DEF SaidOn, WillSay, HandlerPC, SendPC,
                                          Said, Stored
    <3>5. SaysTrue(p)'
      BY <3>1 DEF SaysTrue, HandlerPC
    <3> QED BY <2>1, <2>2, <3>1, <3>4, <3>5, SaidFrame DEF Stored
  <2>7. ~ShopFail(p)
    BY <1>1 DEF ShopFail, SaysTrue
  <2> QED BY <1>3, <2>3, <2>4, <2>5, <2>6, <2>7 DEF ClickStep
<1> QED BY <1>2, <1>3 DEF ClickTurn

\* One handler at a time keeps SaidInv.
LEMMA SaidKept ==
  ASSUME CheckoutInv, PlacedInv, AsRead, SaidInv, OneAtATime,
         [CheckoutNext]_checkoutVars, Faults \cap {"db", "crash"} = {},
         "failure" \notin Outcomes
  PROVE  SaidInv'
<1>1. \A x : Refunded(x) => Refunded(x)'
  BY RefundStays
<1>2. CASE CheckoutElsewhere \/ UNCHANGED checkoutVars
  <2>1. /\ UNCHANGED <<orders, pc, job, told, txn>>
        /\ \A o \in Order : /\ Placed(o) => Placed(o)'
                            /\ Stored(o)' => Stored(o) \/ ~Placed(o)
    BY <1>2, ElsewhereTouches
  <2>2. ASSUME NEW o \in Order, Quiet(o)
        PROVE  Quiet(o)'
    BY <1>1, <2>1, <2>2 DEF Quiet, Said, PlacedInv
  <2>3. ASSUME NEW p \in Proc, ~At(p, "idle")
        PROVE  SaidOn(p, Ord(p))'
    <3>1. PICK o \in Order : o = Ord(p)
      BY <2>3 DEF CheckoutInv, ServiceInv, FlowInv, FlowTypeOK
    <3>2. SaidOn(p, o) /\ Placed(o) /\ Ord(p)' = o
      BY <2>1, <2>3, <3>1 DEF SaidInv, PlacedInv, Ord
    <3>3. SaidOn(p, o)'
      BY <1>1, <2>1, <3>2 DEF SaidOn, Said, WillSay, At
    <3> QED BY <3>2, <3>3 DEF SaidOn, Said, Refunded, Stored
  <2>4. \A p \in Proc : SaysTrue(p)'
    BY <1>1, <2>1 DEF SaidInv, SaysTrue, At, Ord
  <2> QED BY <2>1, <2>2, <2>3, <2>4 DEF SaidInv, At, Ord
<1>3. ASSUME NEW p \in Proc, CheckoutTurn(p)
      PROVE  SaidInv'
  BY <1>1, <1>3, ServiceSays, PaymeSays, ClickSays, SharedSays DEF CheckoutTurn
<1> QED
  BY <1>2, <1>3
  DEF CheckoutNext, CheckoutElsewhere, CheckoutTurn, CheckoutCrash, ClickCrash,
      Crash

\* Initially nothing was said and nothing is to be.
LEMMA NothingSaidAtFirst == CheckoutInit => SaidInv
  BY DEF CheckoutInit, ServiceInit, RepoInit, FlowInit, SaidInv, Quiet, Said,
         SaysTrue, HandlerPC, Stored, At, NoJob

\* A client was last told the status of the order between any two requests,
\* unless it was rejected or refunded, while no two handlers overlap, nothing
\* but iiko fails and no attempt to pay with Click does (the handlers end in
\* NotifyOrderStatusIfNeeded; CancelOrder announces nothing).
THEOREM ToldUnlessRefunded ==
  ASSUME Faults \cap {"db", "crash"} = {}, OneAtATime,
         "failure" \notin Outcomes
  PROVE  CheckoutSpec => []ToldOrRefunded
<1>1. CheckoutInit => AsRead
  BY NothingOpenAtFirst DEF OneOpen
<1>2. CheckoutInv /\ AsRead /\ [CheckoutNext]_checkoutVars => AsRead'
  BY AsReadKept
<1>3. CheckoutInv /\ PlacedInv /\ AsRead /\ SaidInv /\ [CheckoutNext]_checkoutVars
      => SaidInv'
  BY SaidKept
<1>4. SaidInv => ToldOrRefunded
  BY DEF SaidInv, Quiet, Said, ToldOrRefunded
<1> QED
  BY <1>1, <1>2, <1>3, <1>4, NothingSaidAtFirst, CheckoutInvariant,
     NothingBeforeItsRow, PTL
  DEF CheckoutSpec

----------------------------------------------------------------------------
(* Refunds, one request at a time                                          *)

\* The statuses of an order whose payment was given back.
Refusal == {"CANCELLED", "REJECTED"}

\* Who refunded a payment for o is about to cancel o.
CancelsLater(p, o) == At(p, "cancel_order") /\ Ord(p) = o

\* An order with a refunded payment is refused, or is going to be, and has no
\* other payment; a handler that is about to cook an order works for a payment
\* that was not refunded; and what iiko is going to report is a refusal.
RefundInv ==
  /\ \A t \in Txn : txn[t].state = "canceled_performed" =>
       /\ \/ orders[txn[t].ord].status \in Refusal
          \/ \E p \in Proc : CancelsLater(p, txn[t].ord)
       /\ \A u \in Txn : txn[u].ord = txn[t].ord => txn[u].state \notin Open
  /\ \A p \in Proc :
       /\ At(p, "hook_meta") => job[p].status \in Refusal \cup {NeverNotified}
       /\ pc[p] \in {"hook_set", "error_meta", "error_set"} =>
            job[p].status \in Refusal
       /\ pc[p] \in {"perform_pay", "perform_cook"} =>
            \E t \in Txn : txn[t].ord = Ord(p) /\ txn[t].state = "performed"
       /\ ~Completing(pc[p], job[p])

\* The order of p, if p is about to write COOKING, was not refunded.
LEMMA CooksUnrefunded ==
  ASSUME RefundInv, NEW p \in Proc, pc[p] \in {"perform_pay", "perform_cook"},
         NEW t \in Txn, txn[t].state = "canceled_performed"
  PROVE  txn[t].ord # Ord(p)
  BY DEF RefundInv, Open

\* What the others write is a refusal, and leaves refunds as they are.
LEMMA OthersRefuse ==
  ASSUME CheckoutInv, RefundInv, NEW p \in Proc, CheckoutTurn(p),
         ~PaymeTurn(p), NEW o \in Order, OperatorStatus \subseteq Refusal,
         ReportedStatus \subseteq {"CANCEL", "REJECT", "OTHER"}, Outcomes = {}
  PROVE  orders'[o].status = orders[o].status \/ orders'[o].status \in Refusal
<1> DEFINE Stays == orders'[o].status = orders[o].status \/ orders'[o].status \in Refusal
<1>1. RepoTypeOK
  BY DEF CheckoutInv, ServiceInv, FlowInv, RepoInv
<1>2. /\ UNCHANGED repoVars => Stays
      /\ \A x : Insert(x) => Stays
      /\ \A x, ps : WritePayment(x, ps) => Stays
      /\ \A x, i : WriteIikoMeta(x, i) => Stays
      /\ \A x, s : TryMarkNotified(x, s) => Stays
      /\ \A x, s : WriteStatus(x, s) /\ s \in Refusal => Stays
  BY <1>1 DEF repoVars, WritePayment, WriteIikoMeta, TryMarkNotified, Insert,
              WriteStatus, RepoTypeOK, Row
<1> SUFFICES Stays
  OBVIOUS
<1> HIDE DEF Stays
<1>3. CASE ServiceTurn(p)
  <2>1. CASE ServiceRequest(p)
    BY <1>2, <2>1 DEF ServiceRequest, UpdateStatus, HookUpdate,
                      HookNotCreated, HookError
  <2>2. CASE HookSet(p) \/ ErrorSet(p)
    BY <1>2, <2>2 DEF HookSet, ErrorSet, StatusOrIgnore, StatementFails,
                      RefundInv, At
  <2>3. CASE HookReject(p)
    BY <1>2, <2>3 DEF HookReject, StatusOrIgnore, StatementFails, Refusal
  <2>4. CASE Settle(p) \/ HookMeta(p) \/ HookPay(p) \/ ErrorMeta(p)
    BY <1>2, <2>4 DEF Settle, HookMeta, HookPay, ErrorMeta, PaymentOrIgnore,
                      IikoMetaOrIgnore, StatementFails
  <2> QED BY <1>3, <2>1, <2>2, <2>3, <2>4 DEF ServiceTurn, ServiceStep
<1>4. CASE ClickTurn(p)
  <2>1. CASE ClickRequest(p)
    BY <1>2, <2>1 DEF ClickRequest, PlaceOrder
  <2>2. CASE ClickStep(p)
    <3>1. pc[p] \notin CompletePC
      BY DEF RefundInv, Completing
    <3> QED
      BY <1>2, <2>2, <3>1
      DEF ClickStep, CheckoutPrepare, InvoiceInsert, AddLink, ShopFail,
          ShopInvoice, ShopPay, ShopCook, HandlerRead, HandlerPay, HandlerCook,
          CompletePC, At
  <2> QED BY <1>4, <2>1, <2>2 DEF ClickTurn
<1>5. CASE SharedTurn(p)
  BY <1>2, <1>5
  DEF SharedTurn, FlowStep, SendRead, SendPost, SendPostLost, SendPostRefused,
      SendMeta, Claim, Push, IikoMetaOrIgnore, StatementFails
<1> QED BY <1>3, <1>4, <1>5 DEF CheckoutTurn

\* And what they are going to write is one.
LEMMA OthersReportRefusals ==
  ASSUME CheckoutInv, RefundInv, NEW p \in Proc, CheckoutTurn(p),
         ~PaymeTurn(p), OperatorStatus \subseteq Refusal,
         ReportedStatus \subseteq {"CANCEL", "REJECT", "OTHER"}, Outcomes = {}
  PROVE  /\ pc'[p] = "hook_meta" =>
              job'[p].status \in Refusal \cup {NeverNotified}
         /\ pc'[p] \in {"hook_set", "error_meta", "error_set"} =>
              job'[p].status \in Refusal
         /\ ~Completing(pc'[p], job'[p])
<1>1. FlowTypeOK /\ ~Completing(pc[p], job[p])
  BY DEF CheckoutInv, ServiceInv, FlowInv, RefundInv
<1>2. CASE ServiceTurn(p)
  <2>1. ~Completing(pc'[p], job'[p])
    BY <1>1, <1>2, ServiceRuns DEF ServiceTurn, Runs, FlowTypeOK
  <2>2. CASE ServiceRequest(p)
    <3>1. \A is \in ReportedStatus : \A r :
            HookStatus(is, r) \in Refusal \cup {NeverNotified}
      BY DEF HookStatus, MapIikoStatus, Refusal, NeverNotified
    <3>2. CASE \E o \in Order, s \in OperatorStatus : UpdateStatus(p, o, s)
      BY <1>1, <2>1, <3>2 DEF UpdateStatus, Start, FlowTypeOK
    <3>3. CASE \E o \in Order, i \in IikoId : HookNotCreated(p, o, i)
      BY <1>1, <2>1, <3>3 DEF HookNotCreated, Start, FlowTypeOK
    <3>4. CASE \E o \in Order, i \in IikoId : HookError(p, o, i)
      BY <1>1, <2>1, <3>4 DEF HookError, Start, FlowTypeOK, JobFor, NoJob,
                              Refusal
    <3>5. CASE \E o \in Order, i \in IikoId, is \in ReportedStatus :
                 HookUpdate(p, o, i, is)
      BY <1>1, <2>1, <3>1, <3>5 DEF HookUpdate, Start, FlowTypeOK, JobFor, NoJob
    <3> QED BY <2>2, <3>2, <3>3, <3>4, <3>5 DEF ServiceRequest
  <2>3. CASE ServiceStep(p)
    <3>1. CASE HookMeta(p)
      BY <1>1, <2>1, <3>1 DEF HookMeta, Goto, FlowTypeOK, RefundInv, At
    <3>2. CASE ErrorMeta(p)
      BY <1>1, <2>1, <3>2 DEF ErrorMeta, Goto, FlowTypeOK, RefundInv, At
    <3>3. CASE \/ Settle(p) \/ HookReject(p) \/ HookSet(p) \/ HookPay(p)
               \/ ErrorSet(p)
      <4>1. pc'[p] \in {"idle", "hook_pay", "claim"}
        BY <1>1, <3>3 DEF Settle, HookReject, HookSet, HookPay, ErrorSet, Goto,
                          FlowTypeOK
      <4> QED BY <2>1, <4>1
    <3> QED BY <2>3, <3>1, <3>2, <3>3 DEF ServiceStep
  <2> QED BY <1>2, <2>2, <2>3 DEF ServiceTurn
<1>3. CASE ClickTurn(p)
  <2>1. pc'[p] \in ClickPC \cup {"idle", "send"}
    BY <1>1, <1>3, ClickGoes DEF ClickTurn, FlowTypeOK
  <2>2. ~Completing(pc'[p], job'[p])
    <3>1. CASE ClickRequest(p)
      BY <1>1, <3>1 DEF ClickRequest, PlaceOrder, Start, JobFor, NoJob,
                        FlowTypeOK, Completing, CompletePC
    <3>2. CASE ClickStep(p)
      <4>1. CheckoutPrepare(p) \/ InvoiceInsert(p) \/ AddLink(p)
        BY <1>1, <3>2 DEF ClickStep, ShopFail, ShopInvoice, ShopPay, ShopCook,
                          HandlerRead, HandlerPay, HandlerCook, Completing,
                          CompletePC, At
      <4> QED
        BY <1>1, <4>1 DEF CheckoutPrepare, InvoiceInsert, AddLink, Goto, NoJob,
                          FlowTypeOK, Completing, CompletePC
    <3> QED BY <1>3, <3>1, <3>2 DEF ClickTurn
  <2> QED BY <2>1, <2>2 DEF ClickPC
<1>4. CASE SharedTurn(p)
  <2>1. /\ pc'[p] \in {"idle", "claim", "push", "send", "post", "meta",
                       "settle", "handler_read"}
        /\ ~Completing(pc'[p], job'[p])
    BY <1>1, <1>4, FlowRuns DEF SharedTurn, Runs, FlowTypeOK
  <2> QED BY <2>1
<1> QED BY <1>2, <1>3, <1>4 DEF CheckoutTurn

\* A call of Payme keeps RefundInv when it is the only handler that runs.
LEMMA PaymeKeepsRefunds ==
  ASSUME CheckoutInv, MoneyInv, OneOpen, RefundInv, OneAtATime,
         NEW p \in Proc, PaymeTurn(p), Faults \cap {"db", "crash"} = {}
  PROVE  RefundInv'
<1>1. /\ FlowTypeOK /\ RepoTypeOK /\ TxnTypeOK /\ TxnOrderOK
      /\ \A q \in Proc : q = p
      /\ "db" \notin Faults
      /\ ~Completing(pc[p], job[p])
  BY DEF CheckoutInv, ServiceInv, FlowInv, RepoInv, PaymeCore, OneAtATime,
         RefundInv
<1>2. /\ pc'[p] \in PaymePC \cup {"idle", "send"}
      /\ ~Completing(pc'[p], job'[p])
  BY <1>1, PaymeRuns DEF PaymeTurn, Runs, FlowTypeOK
<1>3. pc'[p] \notin {"hook_meta", "hook_set", "error_meta", "error_set"}
  BY <1>2 DEF PaymePC
<1>4. CASE PaymeRequest(p)
  <2>1. /\ UNCHANGED <<orders, txn>> /\ At(p, "idle")
        /\ pc'[p] \in {"create_lookup", "mark_performed", "mark_canceled"}
    BY <1>1, <1>4 DEF PaymeRequest, PerformTransaction, CancelTransaction,
                      CreateTransaction, Start, FlowTypeOK, repoVars
  <2> QED
    BY <1>1, <1>2, <1>3, <2>1 DEF RefundInv, CancelsLater, At
<1>5. CASE CreateLookup(p)
  <2>1. /\ UNCHANGED <<orders, txn>> /\ At(p, "create_lookup")
        /\ pc'[p] \in {"idle", "create_insert"}
    BY <1>1, <1>5 DEF CreateLookup, Goto, FlowTypeOK, repoVars
  <2> QED
    BY <1>1, <1>2, <1>3, <2>1 DEF RefundInv, CancelsLater, At
<1>6. CASE CreateInsert(p)
  <2>1. /\ \A t \in Txn : \/ txn'[t] = txn[t]
                          \/ /\ txn'[t].state = "created"
                             /\ txn'[t].ord = Ord(p)
                             /\ Stored(Ord(p))
        /\ pc'[p] = "idle" /\ UNCHANGED orders
    BY <1>1, <1>6, CallsTransaction
    DEF CreateInsert, Insertable, InsertIndexed, Goto, At, TxnTypeOK,
        FlowTypeOK, repoVars
  <2>2. Stored(Ord(p)) => orders[Ord(p)].status = "WAITING_PAYMENT"
    BY <1>6 DEF CreateInsert, OneOpen, At
  <2>3. \A t \in Txn : txn[t].state = "canceled_performed" =>
          orders[txn[t].ord].status \in Refusal
    BY <1>1, <1>6 DEF CreateInsert, RefundInv, CancelsLater, At
  <2>4. \A t \in Txn : txn'[t].state = "canceled_performed" =>
          /\ txn'[t] = txn[t]
          /\ \A u \in Txn : txn'[u].ord = txn'[t].ord => txn'[u].state \notin Open
    BY <2>1, <2>2, <2>3 DEF RefundInv, Refusal
  <2> QED BY <1>1, <1>2, <2>1, <2>3, <2>4 DEF RefundInv, At
<1>7. CASE MarkPerformed(p)
  <2>1. /\ call[p].txn \in Txn /\ txn[call[p].txn].state = "created"
        /\ txn[call[p].txn].ord = Ord(p)
    BY <1>7, CallsTransaction DEF MarkPerformed, At, OneOpen, AsRead
  <2>2. /\ \A t \in Txn : t # call[p].txn => txn'[t] = txn[t]
        /\ txn'[call[p].txn].state = "performed"
        /\ txn'[call[p].txn].ord = Ord(p)
        /\ pc'[p] = "perform_pay" /\ Ord(p)' = Ord(p) /\ UNCHANGED orders
        /\ At(p, "mark_performed")
    BY <1>1, <1>7, <2>1, CallsTransaction
    DEF MarkPerformed, SetTxnState, Goto, At, Ord, TxnTypeOK, FlowTypeOK,
        repoVars
  <2>3. \A t \in Txn : txn'[t].state = "canceled_performed" =>
          /\ txn'[t] = txn[t] /\ orders[txn[t].ord].status \in Refusal
          /\ \A u \in Txn : txn'[u].ord = txn'[t].ord => txn'[u].state \notin Open
    BY <1>1, <2>1, <2>2 DEF RefundInv, CancelsLater, At, Open
  <2> QED BY <1>1, <1>2, <2>1, <2>2, <2>3 DEF RefundInv, At
<1>8. CASE PerformPay(p) \/ PerformCook(p)
  <2>1. PICK o \in Order : o = Ord(p)
    BY <1>1, <1>8 DEF PerformPay, PerformCook, At, FlowTypeOK
  <2>2. /\ \A x \in Order : x # o => orders'[x] = orders[x]
        /\ UNCHANGED txn /\ pc[p] \in {"perform_pay", "perform_cook"}
        /\ pc'[p] \in {"perform_cook", "send"} /\ Ord(p)' = o
    <3>1. CASE PerformPay(p)
      BY <1>1, <2>1, <3>1, IgnoredTouches
      DEF PerformPay, paymeVars, Goto, At, Ord, FlowTypeOK
    <3>2. CASE PerformCook(p)
      BY <1>1, <2>1, <3>2, IgnoredTouches
      DEF PerformCook, At, Ord, FlowTypeOK, Job
    <3> QED BY <1>8, <3>1, <3>2
  <2>3. \E t \in Txn : txn[t].ord = o /\ txn[t].state = "performed"
    BY <2>1, <2>2 DEF RefundInv
  <2>4. \A t \in Txn : txn[t].state = "canceled_performed" =>
          /\ txn[t].ord \in Order /\ txn[t].ord # o
          /\ orders[txn[t].ord].status \in Refusal
    BY <1>1, <2>1, <2>2, CooksUnrefunded
    DEF RefundInv, CancelsLater, At, TxnOrderOK
  <2>5. \A t \in Txn : txn'[t].state = "canceled_performed" =>
          orders'[txn'[t].ord].status \in Refusal
    BY <2>2, <2>4
  <2> QED BY <1>1, <1>2, <1>3, <2>2, <2>3, <2>5 DEF RefundInv, At
<1>9. CASE MarkCanceled(p)
  <2>1. /\ call[p].txn \in Txn /\ txn[call[p].txn].state \in Open
        /\ txn[call[p].txn].ord = Ord(p) /\ call[p].state \in Canceled
        /\ At(p, "mark_canceled")
    BY <1>9, CallsTransaction DEF MarkCanceled, At, OneOpen, AsRead
  <2>2. /\ \A t \in Txn : t # call[p].txn => txn'[t] = txn[t]
        /\ txn'[call[p].txn].state = call[p].state
        /\ txn'[call[p].txn].ord = Ord(p)
        /\ UNCHANGED orders
        /\ \/ pc'[p] = "idle" /\ call[p].state # "canceled_performed"
           \/ pc'[p] = "cancel_order" /\ Ord(p)' = Ord(p)
    BY <1>1, <1>9, <2>1
    DEF MarkCanceled, SetTxnState, Goto, At, Ord, TxnTypeOK, FlowTypeOK,
        repoVars
  <2>3. \A u \in Txn : txn[u].ord = Ord(p) /\ u # call[p].txn =>
          txn[u].state \notin Open
    BY <2>1 DEF OneOpen, OnePaymentPerOrder, Open
  <2>4. \A t \in Txn : txn[t].state = "canceled_performed" =>
          orders[txn[t].ord].status \in Refusal
    BY <1>1, <2>1 DEF RefundInv, CancelsLater, At
  <2>5. \A t \in Txn : txn'[t].state = "canceled_performed" =>
          /\ \/ orders'[txn'[t].ord].status \in Refusal
             \/ CancelsLater(p, txn[t].ord)'
          /\ \A u \in Txn : txn'[u].ord = txn'[t].ord => txn'[u].state \notin Open
    <3> SUFFICES ASSUME NEW t \in Txn, txn'[t].state = "canceled_performed"
                 PROVE  /\ \/ orders'[txn'[t].ord].status \in Refusal
                           \/ CancelsLater(p, txn[t].ord)'
                        /\ \A u \in Txn : txn'[u].ord = txn'[t].ord =>
                                             txn'[u].state \notin Open
      OBVIOUS
    <3>1. CASE t = call[p].txn
      <4>1. txn'[t].ord = Ord(p)
        BY <2>2, <3>1
      <4>2. CancelsLater(p, txn[t].ord)'
        BY <2>2, <3>1, <4>1 DEF CancelsLater, At, Ord
      <4>3. \A u \in Txn : txn'[u].ord = txn'[t].ord => txn'[u].state \notin Open
        BY <2>1, <2>2, <2>3, <3>1, <4>1 DEF Open, Canceled
      <4> QED BY <4>2, <4>3
    <3>2. CASE t # call[p].txn
      <4>1. \A u \in Txn : txn[u].ord = txn[t].ord => txn[u].state \notin Open
        BY <2>2, <3>2 DEF RefundInv
      <4> QED BY <2>1, <2>2, <2>4, <3>2, <4>1 DEF Canceled, Open
    <3> QED BY <3>1, <3>2
  <2>6. pc'[p] \in {"idle", "cancel_order"}
    BY <2>2
  <2> QED BY <1>1, <1>2, <2>5, <2>6 DEF RefundInv, At
<1>10. CASE CancelOrder(p)
  <2>1. PICK o \in Order : o = Ord(p)
    BY <1>1, <1>10 DEF CancelOrder, At, FlowTypeOK
  <2>2. /\ \A x \in Order : x # o => orders'[x] = orders[x]
        /\ UNCHANGED txn /\ At(p, "cancel_order") /\ pc'[p] = "idle"
    BY <1>1, <1>10, <2>1, IgnoredTouches
    DEF CancelOrder, paymeVars, Goto, At, FlowTypeOK
  <2>3. orders'[o].status \in Refusal \/ ~Stored(o)
    BY <1>1, <1>10, <2>1
    DEF CancelOrder, StatusOrIgnore, WriteStatus, StatementFails, RepoTypeOK,
        Row, Refusal
  <2>4. \A t \in Txn : txn[t].state = "canceled_performed" =>
          orders'[txn[t].ord].status \in Refusal
    BY <1>1, <2>1, <2>2, <2>3 DEF RefundInv, CancelsLater, TxnOrderOK, MoneyInv
  <2> QED BY <1>1, <1>2, <2>2, <2>4 DEF RefundInv, At
<1> QED
  BY <1>4, <1>5, <1>6, <1>7, <1>8, <1>9, <1>10 DEF PaymeTurn, PaymeStep

\* One handler at a time keeps RefundInv.
LEMMA RefundsKept ==
  ASSUME CheckoutInv, MoneyInv, OneOpen, RefundInv, OneAtATime,
         [CheckoutNext]_checkoutVars, Faults \cap {"db", "crash"} = {},
         OperatorStatus \subseteq Refusal,
         ReportedStatus \subseteq {"CANCEL", "REJECT", "OTHER"}, Outcomes = {}
  PROVE  RefundInv'
<1>1. TxnOrderOK
  BY DEF CheckoutInv, PaymeCore
<1>2. CASE CheckoutElsewhere \/ UNCHANGED checkoutVars
  <2>1. UNCHANGED <<orders, pc, job, txn>>
    BY <1>2, ElsewhereTouches
  <2> QED BY <2>1 DEF RefundInv, CancelsLater, At, Ord
<1>3. ASSUME NEW p \in Proc, CheckoutTurn(p)
      PROVE  RefundInv'
  <2>1. CASE PaymeTurn(p)
    BY <2>1, PaymeKeepsRefunds
  <2>2. CASE ~PaymeTurn(p)
    <3>1. /\ UNCHANGED txn /\ \A q \in Proc : q = p
          /\ pc[p] \notin PaymePC /\ pc'[p] \notin PaymePC
      BY <1>3, <2>2, OthersLeavePayme DEF OneAtATime
    <3>2. \A t \in Txn : txn[t].state = "canceled_performed" =>
            /\ orders[txn[t].ord].status \in Refusal
            /\ txn[t].ord \in Order
      BY <1>1, <3>1 DEF RefundInv, CancelsLater, At, PaymePC, TxnOrderOK
    <3>3. \A t \in Txn : txn[t].state = "canceled_performed" =>
            orders'[txn[t].ord].status \in Refusal
      BY <1>3, <2>2, <3>2, OthersRefuse
    <3>4. /\ pc'[p] = "hook_meta" =>
               job'[p].status \in Refusal \cup {NeverNotified}
          /\ pc'[p] \in {"hook_set", "error_meta", "error_set"} =>
               job'[p].status \in Refusal
          /\ ~Completing(pc'[p], job'[p])
      BY <1>3, <2>2, OthersReportRefusals
    <3>5. \A t \in Txn : txn'[t].state = "canceled_performed" =>
            /\ orders'[txn'[t].ord].status \in Refusal
            /\ \A u \in Txn : txn'[u].ord = txn'[t].ord => txn'[u].state \notin Open
      BY <3>1, <3>3 DEF RefundInv
    <3> QED BY <3>1, <3>4, <3>5 DEF RefundInv, At, PaymePC
  <2> QED BY <2>1, <2>2
<1> QED
  BY <1>2, <1>3
  DEF CheckoutNext, CheckoutElsewhere, CheckoutTurn, CheckoutCrash, ClickCrash,
      Crash

\* An order whose payment was refunded is CANCELLED, or REJECTED, between any
\* two requests, while no two handlers overlap, the database and the server do
\* not fail and nobody moves orders forward: operators and iiko refuse orders
\* at most, and nobody pays with Click (CancelTransaction, shouldCancelOrder;
\* no handler looks at a status before it writes another).
THEOREM RefundCancelsTheOrder ==
  ASSUME Faults \cap {"db", "crash"} = {}, OneAtATime,
         OperatorStatus \subseteq Refusal,
         ReportedStatus \subseteq {"CANCEL", "REJECT", "OTHER"}, Outcomes = {}
  PROVE  CheckoutSpec => []RefundedIsCancelled
<1>1. CheckoutInv /\ PlacedInv /\ MoneyInv /\ [CheckoutNext]_checkoutVars => MoneyInv'
  BY CheckoutMoneyKept
<1>2. "WAITING_PAYMENT" \notin OperatorStatus
  BY DEF Refusal
<1>3. CheckoutInv /\ PlacedInv /\ MoneyInv /\ OneOpen /\ [CheckoutNext]_checkoutVars
      => OneOpen'
  BY <1>2, OneOpenKept, AsReadKept DEF OneOpen
<1>4. CheckoutInit => RefundInv
  BY DEF CheckoutInit, PaymeInit, FlowInit, RefundInv, Completing, CompletePC,
         NoJob, At
<1>5. /\ CheckoutInv /\ MoneyInv /\ OneOpen /\ RefundInv
      /\ [CheckoutNext]_checkoutVars
      => RefundInv'
  BY RefundsKept
<1>6. RefundInv => RefundedIsCancelled
  BY DEF RefundInv, RefundedIsCancelled, Refusal, CancelsLater, At
<1> QED
  BY <1>1, <1>3, <1>4, <1>5, <1>6, NothingOpenAtFirst, CheckoutInvariant,
     NothingBeforeItsRow, PTL
  DEF CheckoutSpec
=============================================================================
