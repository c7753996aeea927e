----------------------------- MODULE OrderFlow -----------------------------
(***************************************************************************)
(* What every handler that moves an order shares: the goroutines that run  *)
(* the handlers, and the two procedures they all end in, sending the order *)
(* to iiko (SendToIikoIfAllowed) and telling the client its new status     *)
(* (NotifyOrderStatusIfNeeded).  The order service has a copy of both; the *)
(* two copies take the same steps.                                         *)
(*                                                                         *)
(* A goroutine executes one statement, or one HTTP call, per step.         *)
(***************************************************************************)
EXTENDS OrderRepo

CONSTANTS
  Proc,       \* goroutines that may run at the same time
  NoOrder,    \* the order of a goroutine that serves no request
  Faults      \* which of "db", "iiko" and "crash" may go wrong

ASSUME NoOrderAssumption == NoOrder \notin Order
ASSUME FaultsAssumption  == Faults \subseteq {"db", "iiko", "crash"}

VARIABLES
  pc,         \* pc[p]: the statement that goroutine p executes next
  job,        \* job[p]: the local variables of the handler p runs
  submitted,  \* submitted[o]: how many orders iiko has created for o
  told        \* told[o]: the status last pushed to the client of o

flowVars == <<pc, job, submitted, told>>

\* The program points of the handlers, named after the statement they run.
SendPC    == {"send", "post", "meta"}
NotifyPC  == {"claim", "push"}
ServicePC == {"settle", "hook_meta", "hook_set", "hook_pay", "hook_reject",
              "error_meta", "error_set"}
PaymePC   == {"create_lookup", "create_insert", "mark_performed",
              "perform_pay", "perform_cook", "mark_canceled",
              "cancel_order"}
ClickPC   == {"checkout_prepare", "invoice_insert", "add_link",
              "shop_invoice", "shop_fail", "shop_pay", "shop_cook",
              "handler_read", "handler_pay", "handler_cook"}
PC == {"idle"} \cup SendPC \cup NotifyPC \cup ServicePC \cup PaymePC
        \cup ClickPC

\* status: what the handler writes or announces; iiko: the iiko id it will
\* store; afterSend and afterNotify: where the two procedures return to.
Job == [ord         : Order \cup {NoOrder},
        status      : Status \cup {NeverNotified},
        iiko        : IikoId,
        afterSend   : {"idle", "claim"},
        afterNotify : {"idle", "send", "settle", "handler_read"}]

NoJob == [ord |-> NoOrder, status |-> NeverNotified, iiko |-> NoIikoId,
          afterSend |-> "idle", afterNotify |-> "idle"]

JobFor(o) == [NoJob EXCEPT !.ord = o]

FlowInit ==
  /\ pc = [p \in Proc |-> "idle"]
  /\ job = [p \in Proc |-> NoJob]
  /\ submitted = [o \in Order |-> 0]
  /\ told = [o \in Order |-> NeverNotified]

At(p, l) == pc[p] = l

Ord(p) == job[p].ord

\* Goroutine p goes on to l; a handler that returns forgets its locals.
Goto(p, l) ==
  /\ pc' = [pc EXCEPT ![p] = l]
  /\ job' = IF l = "idle" THEN [job EXCEPT ![p] = NoJob] ELSE job

\* A request arrives and an idle goroutine takes it, up to statement l.
Start(p, l, j) ==
  /\ At(p, "idle")
  /\ pc' = [pc EXCEPT ![p] = l]
  /\ job' = [job EXCEPT ![p] = j]

\* A statement on the row of o that ends in an error changes nothing.
StatementFails(o) ==
  /\ ~Stored(o) \/ "db" \in Faults
  /\ UNCHANGED repoVars

\* The statements whose error the handlers ignore.
StatusOrIgnore(o, s)   == WriteStatus(o, s) \/ StatementFails(o)
PaymentOrIgnore(o, ps) == WritePayment(o, ps) \/ StatementFails(o)
IikoMetaOrIgnore(o, i) == WriteIikoMeta(o, i) \/ StatementFails(o)

----------------------------------------------------------------------------
(* SendToIikoIfAllowed                                                     *)

AlreadySentUnchecked(r) == FALSE

AlreadySent(r) == r.iiko # NoIikoId

PaymentAllowsAlways(r) == TRUE

\* CASH may go to the kitchen at once, CLICK and PAYME only when PAID.
PaymentAllows(r) == r.method \in Online => r.pay = "PAID"

MaySend(o) ==
  /\ Stored(o)
  /\ ~AlreadySent(orders[o])
  /\ PaymentAllows(orders[o])

\* GetByID, the two guards and buildCreateOrderForIiko.
SendRead(p) ==
  /\ At(p, "send")
  /\ \/ MaySend(Ord(p)) /\ Goto(p, "post")
     \/ /\ ~MaySend(Ord(p)) \/ Faults \cap {"db", "iiko"} # {}
        /\ Goto(p, job[p].afterSend)
  /\ UNCHANGED <<repoVars, submitted, told>>

\* iikoSvc.CreateOrder: iiko creates an order and answers with its id.
SendPost(p) ==
  /\ At(p, "post")
  /\ submitted[Ord(p)] < MaxSubmissions
  /\ submitted' = [submitted EXCEPT ![Ord(p)] = @ + 1]
  /\ pc' = [pc EXCEPT ![p] = "meta"]
  /\ job' = [job EXCEPT ![p].iiko = submitted[Ord(p)] + 1]
  /\ UNCHANGED <<repoVars, told>>

\* iiko creates the order, but its answer does not arrive in time.
SendPostLost(p) ==
  /\ At(p, "post")
  /\ "iiko" \in Faults
  /\ submitted[Ord(p)] < MaxSubmissions
  /\ submitted' = [submitted EXCEPT ![Ord(p)] = @ + 1]
  /\ Goto(p, job[p].afterSend)
  /\ UNCHANGED <<repoVars, told>>

SendPostUnchecked(p) ==
  /\ At(p, "post")
  /\ "iiko" \in Faults /\ submitted[Ord(p)] < MaxSubmissions
  /\ pc' = [pc EXCEPT ![p] = "meta"]
  /\ job' = [job EXCEPT ![p].iiko = submitted[Ord(p)] + 1]
  /\ UNCHANGED <<repoVars, submitted, told>>

\* iiko refuses the order or cannot be reached (at the bound, it refuses).
SendPostRefused(p) ==
  /\ At(p, "post")
  /\ "iiko" \in Faults \/ submitted[Ord(p)] = MaxSubmissions
  /\ Goto(p, job[p].afterSend)
  /\ UNCHANGED <<repoVars, submitted, told>>

SendMetaForgotten(p) ==
  /\ At(p, "meta")
  /\ Goto(p, job[p].afterSend)
  /\ UNCHANGED <<repoVars, submitted, told>>

\* UpdateIikoMeta; its error is dropped.
SendMeta(p) ==
  /\ At(p, "meta")
  /\ IikoMetaOrIgnore(Ord(p), job[p].iiko)
  /\ Goto(p, job[p].afterSend)
  /\ UNCHANGED <<submitted, told>>

----------------------------------------------------------------------------
(* NotifyOrderStatusIfNeeded                                               *)

\* TryMarkNotified: the goroutine that changes last_notified_status pushes.
Claim(p) ==
  /\ At(p, "claim")
  /\ \/ TryMarkNotified(Ord(p), job[p].status) /\ Goto(p, "push")
     \/ /\ ~Markable(Ord(p), job[p].status) \/ "db" \in Faults
        /\ UNCHANGED repoVars
        /\ Goto(p, job[p].afterNotify)
  /\ UNCHANGED <<submitted, told>>

\* The websocket event and the Telegram message.
Push(p) ==
  /\ At(p, "push")
  /\ told' = [told EXCEPT ![Ord(p)] = job[p].status]
  /\ Goto(p, job[p].afterNotify)
  /\ UNCHANGED <<repoVars, submitted>>

----------------------------------------------------------------------------
\* The server stops: the rows stay, every handler that was running is gone.
Crash ==
  /\ "crash" \in Faults
  /\ pc' = [p \in Proc |-> "idle"]
  /\ job' = [p \in Proc |-> NoJob]
  /\ UNCHANGED <<repoVars, submitted, told>>

FlowStep(p) ==
  \/ SendRead(p) \/ SendPost(p) \/ SendPostLost(p) \/ SendPostRefused(p)
  \/ SendMeta(p) \/ Claim(p) \/ Push(p)

FlowTypeOK ==
  /\ pc \in [Proc -> PC]
  /\ job \in [Proc -> Job]
  /\ submitted \in [Order -> 0 .. MaxSubmissions]
  /\ told \in [Order -> Status \cup {NeverNotified}]
  /\ \A p \in Proc : ~At(p, "idle") => Ord(p) \in Order

----------------------------------------------------------------------------
(* Properties of whatever handlers use the two procedures                  *)

\* The kitchen gets an order that is paid online only if it was paid at some
\* moment before, whichever handlers race and whatever fails
\* (sendToIikoIfAllowed, "CLICK/PAYME: only if PAID").
OnlineSubmittedOnlyIfPaid ==
  \A o \in Order :
    submitted[o] > 0 /\ orders[o].method \in Online => o \in paidOnce

\* Whichever handlers race and whatever fails, a step of theirs pays for an
\* order, sends to the kitchen one that may be sent, records an id that iiko
\* issued for this very order, or changes nothing of these
\* (sendToIikoIfAllowed and the writers of iiko_order_id).
Fulfil == INSTANCE Fulfilment WITH
  online  <- {o \in Order : orders[o].method \in Online},
  paid    <- paidOnce,
  kitchen <- submitted,
  known   <- [o \in Order |-> orders[o].iiko]

ImplementsFulfilment == Fulfil!Spec

\* When nothing fails, the server never loses sight of an order that iiko
\* has: its row holds an iiko id, or a goroutine holds one to store
\* (UpdateIikoMeta after CreateOrder, and from the webhooks).
SubmissionRecorded ==
  \A o \in Order :
    Stored(o) /\ submitted[o] > 0 =>
      \/ AlreadySent(orders[o])
      \/ \E p \in Proc : Ord(p) = o /\ At(p, "meta")

\* iiko has at most one order for each of ours ("already sent, skip").
AtMostOneSubmission == \A o \in Order : submitted[o] <= 1
============================================================================
