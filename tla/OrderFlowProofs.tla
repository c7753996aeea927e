--------------------------- MODULE OrderFlowProofs ---------------------------
(***************************************************************************)
(* The invariant that the handlers of every module keep, whatever they     *)
(* share, and the lemmas that reduce "this action keeps it, and implements *)
(* Fulfilment" to what the action does to one goroutine and one row.       *)
(***************************************************************************)
EXTENDS OrderFlow, TLAPS

----------------------------------------------------------------------------
(* The invariant                                                           *)

\* Whatever is PAID is remembered to have been.
HistoryOK == \A o \in Order : orders[o].pay = "PAID" => o \in paidOnce

RepoInv == RepoTypeOK /\ HistoryOK

MayCook(o) == orders[o].method \in Online => o \in paidOnce

\* The payment guard was true when SendRead read the order.
PostAllowed == \A p \in Proc : At(p, "post") => MayCook(Ord(p))

\* The program points at which a goroutine holds an id it got from iiko.
MetaPC == {"meta", "hook_meta", "error_meta"}

IdHeld == \A p \in Proc : pc[p] \in MetaPC => job[p].iiko \in 1 .. submitted[Ord(p)]

IikoIdGenuine == \A o \in Order : orders[o].iiko <= submitted[o]

FlowInv ==
  /\ RepoInv
  /\ FlowTypeOK
  /\ PostAllowed
  /\ IdHeld
  /\ IikoIdGenuine
  /\ OnlineSubmittedOnlyIfPaid

FulfilStep == [Fulfil!Next]_(Fulfil!fulfilmentVars)

----------------------------------------------------------------------------
(* What a statement does to the table                                      *)

\* A statement that leaves the method and the iiko id of every order alone
\* and marks at most one order PAID.
QuietStatement ==
  /\ RepoInv'
  /\ \A x \in Order : /\ orders'[x].method = orders[x].method
                      /\ orders'[x].iiko = orders[x].iiko
  /\ \/ paidOnce' = paidOnce
     \/ \E o \in Order : paidOnce' = paidOnce \cup {o}

\* Stating that a handler that runs no statement leaves the table as it is.
LEMMA NoStatementQuiet ==
  ASSUME RepoInv, UNCHANGED repoVars
  PROVE  QuietStatement
  BY DEF QuietStatement, RepoInv, RepoTypeOK, HistoryOK, repoVars

\* UPDATE order_status keeps the repository's invariant.
LEMMA WriteStatusQuiet ==
  ASSUME RepoInv, NEW o \in Order, NEW s \in Status, WriteStatus(o, s)
  PROVE  QuietStatement
  BY DEF QuietStatement, RepoInv, RepoTypeOK, HistoryOK, WriteStatus, Row

\* UPDATE payment_status keeps it, and remembers a PAID order.
LEMMA WritePaymentQuiet ==
  ASSUME RepoInv, NEW o \in Order, NEW ps \in Payment, WritePayment(o, ps)
  PROVE  QuietStatement
  BY DEF QuietStatement, RepoInv, RepoTypeOK, HistoryOK, WritePayment, Row

\* TryMarkNotified keeps it.
LEMMA TryMarkNotifiedQuiet ==
  ASSUME RepoInv, NEW o \in Order, NEW s \in Status \cup {NeverNotified},
         TryMarkNotified(o, s)
  PROVE  QuietStatement
  BY DEF QuietStatement, RepoInv, RepoTypeOK, HistoryOK, TryMarkNotified, Row

\* So does a status whose error the handler ignores.
LEMMA StatusOrIgnoreQuiet ==
  ASSUME RepoInv, NEW o \in Order, NEW s \in Status, StatusOrIgnore(o, s)
  PROVE  QuietStatement
  BY NoStatementQuiet, WriteStatusQuiet DEF StatusOrIgnore, StatementFails

\* And a payment status whose error the handler ignores.
LEMMA PaymentOrIgnoreQuiet ==
  ASSUME RepoInv, NEW o \in Order, NEW ps \in Payment,
         PaymentOrIgnore(o, ps)
  PROVE  QuietStatement
  BY NoStatementQuiet, WritePaymentQuiet DEF PaymentOrIgnore, StatementFails

----------------------------------------------------------------------------
(* What a step does to its goroutine                                       *)

\* Goroutine p is at l with the locals j; the others stay where they are.
Moves(p, l, j) ==
  /\ pc' = [pc EXCEPT ![p] = l]
  /\ job' = [job EXCEPT ![p] = j]
  /\ l \in PC
  /\ j \in Job
  /\ l # "idle" => j.ord \in Order

\* The locals of a goroutine that serves nothing have their type.
LEMMA NoJobType == NoJob \in Job
  BY MaxSubmissionsAssumption DEF NoJob, Job, IikoId, NoIikoId

\* Going on to l within a handler.
LEMMA GotoMoves ==
  ASSUME FlowTypeOK, NEW p \in Proc, NEW l \in PC, Goto(p, l),
         ~At(p, "idle")
  PROVE  Moves(p, l, IF l = "idle" THEN NoJob ELSE job[p])
  BY NoJobType DEF Moves, Goto, FlowTypeOK, At, Ord

\* Starting a handler.
LEMMA StartMoves ==
  ASSUME NEW p \in Proc, NEW l \in PC, NEW j \in Job, Start(p, l, j),
         j.ord \in Order
  PROVE  Moves(p, l, j)
  BY DEF Moves, Start

\* The types survive a move.
LEMMA MovesType ==
  ASSUME FlowTypeOK, NEW p \in Proc, NEW l, NEW j, Moves(p, l, j),
         submitted' \in [Order -> 0 .. MaxSubmissions],
         told' \in [Order -> Status \cup {NeverNotified}]
  PROVE  FlowTypeOK'
  BY DEF Moves, FlowTypeOK, At, Ord

----------------------------------------------------------------------------
(* Quiet steps                                                             *)

\* A step that sends nothing to iiko and stores no iiko id keeps the
\* invariant, if it reaches "post" only with an order that may be cooked and
\* takes only ids that iiko issued.
LEMMA QuietStep ==
  ASSUME FlowInv, NEW p \in Proc, NEW l, NEW j, Moves(p, l, j),
         QuietStatement,
         submitted' = submitted,
         told' \in [Order -> Status \cup {NeverNotified}],
         l = "post" => MayCook(j.ord),
         l \in MetaPC => j.iiko \in 1 .. submitted[j.ord]
  PROVE  FlowInv' /\ FulfilStep
<1>1. /\ RepoInv' /\ FlowTypeOK'
  BY MovesType DEF FlowInv, QuietStatement, FlowTypeOK
<1>2. \A o \in Order : MayCook(o) => MayCook(o)'
  BY DEF MayCook, QuietStatement
<1>3. PostAllowed'
  <2> SUFFICES ASSUME NEW q \in Proc, At(q, "post")'
               PROVE  MayCook(Ord(q))'
    BY DEF PostAllowed
  <2>1. CASE q = p
    BY <1>2, <2>1 DEF Moves, At, Ord, FlowInv, FlowTypeOK
  <2>2. CASE q # p
    BY <1>2, <2>2 DEF Moves, At, Ord, FlowInv, FlowTypeOK, PostAllowed
  <2> QED BY <2>1, <2>2
<1>4. IdHeld'
  BY DEF IdHeld, Moves, FlowInv, FlowTypeOK, Ord
<1>5. IikoIdGenuine' /\ OnlineSubmittedOnlyIfPaid'
  BY DEF IikoIdGenuine, OnlineSubmittedOnlyIfPaid, QuietStatement, FlowInv
<1>6. FulfilStep
  <2>1. UNCHANGED <<{o \in Order : orders[o].method \in Online}, submitted,
                    [o \in Order |-> orders[o].iiko]>>
    BY DEF QuietStatement
  <2>2. CASE paidOnce' = paidOnce
    BY <2>1, <2>2 DEF FulfilStep, Fulfil!fulfilmentVars
  <2>3. CASE \E o \in Order : paidOnce' = paidOnce \cup {o}
    BY <2>1, <2>3 DEF FulfilStep, Fulfil!Next, Fulfil!Pay
  <2> QED BY <2>2, <2>3 DEF QuietStatement
<1> QED BY <1>1, <1>3, <1>4, <1>5, <1>6 DEF FlowInv

----------------------------------------------------------------------------
(* Steps that are not quiet                                                *)

\* iiko creates one more order for the order p may send.
Submits(p) ==
  /\ At(p, "post")
  /\ submitted[Ord(p)] < MaxSubmissions
  /\ submitted' = [submitted EXCEPT ![Ord(p)] = @ + 1]
  /\ UNCHANGED <<repoVars, told>>

\* Sending the order keeps the invariant and is a Prepare step.
LEMMA SubmitStep ==
  ASSUME FlowInv, NEW p \in Proc, Submits(p), NEW l, NEW j,
         Moves(p, l, j), l # "post",
         l \in MetaPC => /\ j.ord = Ord(p)
                         /\ j.iiko = submitted[Ord(p)] + 1
  PROVE  FlowInv' /\ FulfilStep
<1> DEFINE o == Ord(p)
<1>1. /\ o \in Order
      /\ submitted \in [Order -> 0 .. MaxSubmissions]
      /\ submitted' = [submitted EXCEPT ![o] = @ + 1]
      /\ submitted[o] < MaxSubmissions
  BY DEF FlowInv, FlowTypeOK, Submits, At
<1>2. submitted' \in [Order -> 0 .. MaxSubmissions]
  BY <1>1, MaxSubmissionsAssumption
<1>3. RepoInv' /\ FlowTypeOK'
  BY <1>2, MovesType, NoStatementQuiet
  DEF FlowInv, QuietStatement, FlowTypeOK, Submits
<1>4. MayCook(o)
  BY DEF FlowInv, PostAllowed, Submits
<1>5. PostAllowed'
  BY DEF FlowInv, FlowTypeOK, PostAllowed, Moves, At, Ord, MayCook, Submits,
         repoVars
<1>6. IdHeld'
  <2> SUFFICES ASSUME NEW q \in Proc, (pc[q] \in MetaPC)'
               PROVE  (job[q].iiko \in 1 .. submitted[Ord(q)])'
    BY DEF IdHeld
  <2>1. CASE q = p
    BY <1>1, <2>1 DEF FlowInv, FlowTypeOK, Moves, Ord
  <2>2. CASE q # p
    <3>1. pc[q] \in MetaPC /\ job'[q] = job[q] /\ Ord(q) \in Order
      BY <2>2 DEF FlowInv, FlowTypeOK, Moves, At, Ord, MetaPC
    <3>2. job[q].iiko \in 1 .. submitted[Ord(q)]
      BY <3>1 DEF FlowInv, IdHeld
    <3> QED BY <1>1, <1>2, <3>1, <3>2 DEF Ord
  <2> QED BY <2>1, <2>2
<1>7. IikoIdGenuine'
  <2> SUFFICES ASSUME NEW x \in Order
               PROVE  orders[x].iiko <= submitted'[x]
    BY DEF IikoIdGenuine, Submits, repoVars
  <2>1. orders[x].iiko \in 0 .. MaxSubmissions /\ orders[x].iiko <= submitted[x]
    BY DEF FlowInv, RepoInv, RepoTypeOK, Row, IikoId, IikoIdGenuine
  <2> QED BY <1>1, <1>2, <2>1, MaxSubmissionsAssumption
<1>8. OnlineSubmittedOnlyIfPaid'
  BY <1>1, <1>4
  DEF FlowInv, OnlineSubmittedOnlyIfPaid, MayCook, Submits, repoVars
<1>9. FulfilStep
  BY <1>1, <1>4 DEF FulfilStep, Fulfil!Next, Fulfil!Prepare, MayCook,
                    Submits, repoVars
<1> QED BY <1>3, <1>5, <1>6, <1>7, <1>8, <1>9 DEF FlowInv

\* Storing an id that iiko issued keeps the invariant and is a Record step.
LEMMA RecordStep ==
  ASSUME FlowInv, NEW p \in Proc, pc[p] \in MetaPC,
         WriteIikoMeta(Ord(p), job[p].iiko),
         UNCHANGED <<submitted, told>>,
         NEW l, NEW j, Moves(p, l, j), l \notin {"post"} \cup MetaPC
  PROVE  FlowInv' /\ FulfilStep
<1> DEFINE o == Ord(p)
           i == job[p].iiko
<1>1. o \in Order /\ i \in 1 .. submitted[o] /\ i \in IikoId
  BY DEF FlowInv, FlowTypeOK, At, MetaPC, IdHeld, Job
<1>2. /\ orders' = [orders EXCEPT ![o].iiko = i]
      /\ UNCHANGED <<table, paidOnce>>
      /\ orders \in [Order -> Row]
  BY DEF WriteIikoMeta, FlowInv, RepoInv, RepoTypeOK
<1>3. /\ orders' \in [Order -> Row]
      /\ \A x \in Order :
           /\ orders'[x].pay = orders[x].pay
           /\ orders'[x].method = orders[x].method
           /\ orders'[x].iiko = IF x = o THEN i ELSE orders[x].iiko
  BY <1>1, <1>2 DEF Row
<1>4. RepoInv' /\ FlowTypeOK'
  BY <1>2, <1>3, MovesType
  DEF FlowInv, RepoInv, RepoTypeOK, HistoryOK, FlowTypeOK
<1>5. PostAllowed'
  BY <1>2, <1>3 DEF FlowInv, FlowTypeOK, PostAllowed, Moves, At, Ord, MayCook
<1>6. IdHeld'
  BY DEF FlowInv, FlowTypeOK, IdHeld, Moves, Ord
<1>7. IikoIdGenuine' /\ OnlineSubmittedOnlyIfPaid'
  BY <1>1, <1>2, <1>3 DEF FlowInv, IikoIdGenuine, OnlineSubmittedOnlyIfPaid
<1>8. FulfilStep
  <2>1. [x \in Order |-> orders'[x].iiko]
          = [[x \in Order |-> orders[x].iiko] EXCEPT ![o] = i]
    BY <1>1, <1>3
  <2>2. {x \in Order : orders'[x].method \in Online}
          = {x \in Order : orders[x].method \in Online}
    BY <1>3
  <2> QED
    BY <1>1, <1>2, <2>1, <2>2 DEF FulfilStep, Fulfil!Next, Fulfil!Record
<1> QED BY <1>4, <1>5, <1>6, <1>7, <1>8 DEF FlowInv

\* A statement outside of any handler keeps the invariant.
LEMMA StillStep ==
  ASSUME FlowInv, QuietStatement, UNCHANGED flowVars
  PROVE  FlowInv' /\ FulfilStep
<1>1. FlowTypeOK' /\ RepoInv'
  BY DEF FlowInv, FlowTypeOK, flowVars, At, Ord, QuietStatement
<1>2. PostAllowed'
  BY DEF FlowInv, PostAllowed, flowVars, At, Ord, QuietStatement, MayCook,
         FlowTypeOK
<1>3. IdHeld' /\ IikoIdGenuine' /\ OnlineSubmittedOnlyIfPaid'
  BY DEF FlowInv, IdHeld, IikoIdGenuine, OnlineSubmittedOnlyIfPaid, flowVars,
         Ord, QuietStatement
<1>4. FulfilStep
  BY DEF FulfilStep, Fulfil!fulfilmentVars, Fulfil!Next, Fulfil!Pay,
         QuietStatement, flowVars
<1> QED BY <1>1, <1>2, <1>3, <1>4 DEF FlowInv

----------------------------------------------------------------------------
(* The steps that all handlers share                                       *)

\* Every step of the two shared procedures keeps the invariant and
\* implements Fulfilment.
LEMMA FlowStepKeeps ==
  ASSUME FlowInv, NEW p \in Proc, FlowStep(p)
  PROVE  FlowInv' /\ FulfilStep
<1> USE DEF MetaPC
<1>1. /\ FlowTypeOK /\ RepoInv
      /\ job[p] \in Job
      /\ told \in [Order -> Status \cup {NeverNotified}]
  BY DEF FlowInv, FlowTypeOK
<1>2. /\ job[p].afterSend \in PC \ ({"post"} \cup MetaPC)
      /\ job[p].afterNotify \in PC \ ({"post"} \cup MetaPC)
  BY <1>1 DEF Job, PC, SendPC, NotifyPC, ServicePC, ClickPC
<1>3. /\ {"post", "meta", "push"} \subseteq PC
      /\ \A l \in {"send", "post", "meta", "claim", "push"} :
           At(p, l) => ~At(p, "idle") /\ Ord(p) \in Order
  BY <1>1 DEF PC, SendPC, NotifyPC, At, FlowTypeOK
<1>4. CASE SendRead(p)
  <2>1. CASE MaySend(Ord(p)) /\ Goto(p, "post")
    <3>1. Moves(p, "post", job[p])
      BY <1>1, <1>3, <1>4, <2>1, GotoMoves DEF SendRead
    <3>2. MayCook(job[p].ord)
      BY <1>1, <1>3, <1>4, <2>1
      DEF SendRead, MaySend, PaymentAllows, MayCook, Ord, RepoInv, HistoryOK
    <3> QED
      BY <1>1, <1>4, <3>1, <3>2, QuietStep, NoStatementQuiet DEF SendRead
  <2>2. CASE Goto(p, job[p].afterSend)
    <3>1. PICK j : Moves(p, job[p].afterSend, j)
      BY <1>1, <1>2, <1>3, <1>4, <2>2, GotoMoves DEF SendRead
    <3> QED
      BY <1>1, <1>2, <1>4, <3>1, QuietStep, NoStatementQuiet DEF SendRead
  <2> QED BY <1>4, <2>1, <2>2 DEF SendRead
<1>5. CASE SendPost(p)
  <2> DEFINE j == [job[p] EXCEPT !.iiko = submitted[Ord(p)] + 1]
  <2>1. j \in Job /\ j.ord = Ord(p) /\ j.iiko = submitted[Ord(p)] + 1
    BY <1>1, <1>3, <1>5, MaxSubmissionsAssumption
    DEF SendPost, Job, Ord, FlowTypeOK, IikoId
  <2>2. job' = [job EXCEPT ![p] = j]
    BY <1>1, <1>5 DEF SendPost, FlowTypeOK
  <2>3. Moves(p, "meta", j)
    BY <1>3, <1>5, <2>1, <2>2 DEF Moves, SendPost
  <2> QED
    BY <1>5, <2>1, <2>3, SubmitStep DEF SendPost, Submits
<1>6. CASE SendPostLost(p)
  <2>1. PICK j : Moves(p, job[p].afterSend, j)
    BY <1>1, <1>2, <1>3, <1>6, GotoMoves DEF SendPostLost
  <2> QED
    BY <1>2, <1>6, <2>1, SubmitStep DEF SendPostLost, Submits
<1>7. CASE SendPostRefused(p)
  <2>1. PICK j : Moves(p, job[p].afterSend, j)
    BY <1>1, <1>2, <1>3, <1>7, GotoMoves DEF SendPostRefused
  <2> QED
    BY <1>1, <1>2, <1>7, <2>1, QuietStep, NoStatementQuiet
    DEF SendPostRefused
<1>8. CASE SendMeta(p)
  <2>1. PICK j : Moves(p, job[p].afterSend, j)
    BY <1>1, <1>2, <1>3, <1>8, GotoMoves DEF SendMeta
  <2>2. CASE WriteIikoMeta(Ord(p), job[p].iiko)
    BY <1>2, <1>8, <2>1, <2>2, RecordStep DEF SendMeta, At
  <2>3. CASE UNCHANGED repoVars
    BY <1>1, <1>2, <1>8, <2>1, <2>3, QuietStep, NoStatementQuiet
    DEF SendMeta
  <2> QED
    BY <1>8, <2>2, <2>3 DEF SendMeta, IikoMetaOrIgnore, StatementFails
<1>9. CASE Claim(p)
  <2>1. /\ QuietStatement
        /\ \E l \in PC \ ({"post"} \cup MetaPC) : Goto(p, l)
    BY <1>1, <1>2, <1>3, <1>9, NoStatementQuiet, TryMarkNotifiedQuiet
    DEF Claim, Job
  <2>2. PICK l, j : l \in PC \ ({"post"} \cup MetaPC) /\ Moves(p, l, j)
    BY <1>1, <1>3, <1>9, <2>1, GotoMoves DEF Claim
  <2> QED BY <1>1, <1>9, <2>1, <2>2, QuietStep DEF Claim
<1>10. CASE Push(p)
  <2>1. PICK j : Moves(p, job[p].afterNotify, j)
    BY <1>1, <1>2, <1>3, <1>10, GotoMoves DEF Push
  <2>2. told' \in [Order -> Status \cup {NeverNotified}]
    BY <1>1, <1>10 DEF Push, Job
  <2> QED
    BY <1>1, <1>2, <1>10, <2>1, <2>2, QuietStep, NoStatementQuiet DEF Push
<1> QED
  BY <1>4, <1>5, <1>6, <1>7, <1>8, <1>9, <1>10 DEF FlowStep

\* So does a crash: the goroutines that were running are gone.
LEMMA CrashKeeps ==
  ASSUME FlowInv, Crash
  PROVE  FlowInv' /\ FulfilStep
<1>1. RepoInv' /\ FlowTypeOK'
  BY NoJobType, NoStatementQuiet
  DEF Crash, FlowInv, FlowTypeOK, QuietStatement, PC, At
<1>2. PostAllowed' /\ IdHeld'
  BY DEF Crash, PostAllowed, IdHeld, At, MetaPC
<1>3. IikoIdGenuine' /\ OnlineSubmittedOnlyIfPaid'
  BY DEF Crash, FlowInv, IikoIdGenuine, OnlineSubmittedOnlyIfPaid, repoVars
<1>4. FulfilStep
  BY DEF Crash, FulfilStep, Fulfil!fulfilmentVars, repoVars
<1> QED BY <1>1, <1>2, <1>3, <1>4 DEF FlowInv

\* The initial states satisfy the invariant, and Fulfilment's.
LEMMA FlowInitKeeps ==
  ASSUME RepoInit, FlowInit
  PROVE  FlowInv /\ Fulfil!Init
<1>1. \A m \in Methods, d \in Deliveries :
        /\ NewRow(m, d) \in Row
        /\ NewRow(m, d).pay # "PAID"
        /\ NewRow(m, d).iiko = 0
  BY MethodsAssumption, DeliveriesAssumption, MaxSubmissionsAssumption
  DEF NewRow, Row, Status, Payment, NoIikoId, IikoId, NeverNotified
<1>2. \A o \in Order :
        /\ orders[o] \in Row
        /\ orders[o].pay # "PAID"
        /\ orders[o].iiko = 0
  <2> TAKE o \in Order
  <2>1. orders[o] \in {NewRow(m, d) : m \in Methods, d \in Deliveries}
    BY DEF RepoInit
  <2>2. PICK m \in Methods, d \in Deliveries : orders[o] = NewRow(m, d)
    BY <2>1
  <2> QED BY <1>1, <2>2
<1>3. RepoInv
  BY <1>2 DEF RepoInit, RepoInv, RepoTypeOK, HistoryOK
<1>4. FlowTypeOK
  BY NoJobType, MaxSubmissionsAssumption DEF FlowInit, FlowTypeOK, PC, At
<1>5. PostAllowed /\ IdHeld
  BY DEF FlowInit, PostAllowed, IdHeld, At, MetaPC
<1>6. IikoIdGenuine /\ OnlineSubmittedOnlyIfPaid
  BY <1>2 DEF FlowInit, IikoIdGenuine, OnlineSubmittedOnlyIfPaid
<1>7. Fulfil!Init
  BY <1>2 DEF RepoInit, FlowInit, Fulfil!Init
<1> QED BY <1>3, <1>4, <1>5, <1>6, <1>7 DEF FlowInv

\* The shared procedures lead to these program points only, and concern no
\* other goroutine.
LEMMA FlowStepLocal ==
  ASSUME FlowTypeOK, NEW p \in Proc, FlowStep(p)
  PROVE  \E l \in {"idle", "claim", "push", "send", "post", "meta", "settle",
                   "handler_read"} :
           /\ pc' = [pc EXCEPT ![p] = l]
           /\ \A q \in Proc \ {p} : job'[q] = job[q]
<1>1. /\ job[p].afterSend \in {"idle", "claim"}
      /\ job[p].afterNotify \in {"idle", "send", "settle", "handler_read"}
  BY DEF FlowTypeOK, Job
<1> QED
  BY <1>1 DEF FlowStep, SendRead, SendPost, SendPostLost, SendPostRefused,
              SendMeta, Claim, Push, Goto, FlowTypeOK
=============================================================================
