---------------------------- MODULE OrderService ----------------------------
(***************************************************************************)
(* The order service: orders are created and deleted, operators and        *)
(* couriers set their status, and iiko's webhooks report on them.  No      *)
(* handler checks the status an order has before it writes a new one.      *)
(***************************************************************************)
EXTENDS OrderFlow

CONSTANTS
  OperatorStatus,   \* bound: the statuses operators choose from
  ReportedStatus    \* bound: the words iiko's webhooks report

\* The words that mapIikoStatusToOurStatus tells apart in iiko's status.
IikoStatus == {"CANCEL", "REJECT", "WAITING", "ONWAY", "CLOSE", "COMPLETE",
               "OTHER"}

ASSUME OperatorStatusAssumption == OperatorStatus \subseteq Status
ASSUME ReportedStatusAssumption == ReportedStatus \subseteq IikoStatus

serviceVars == <<table, orders, paidOnce, pc, job, submitted, told>>

ServiceInit == RepoInit /\ FlowInit

----------------------------------------------------------------------------
\* Create, as far as the orders table goes (paying for it is not part).
CreateOrder(o) ==
  /\ Insert(o)
  /\ UNCHANGED flowVars

DeleteOrder(o) ==
  /\ Remove(o)
  /\ UNCHANGED flowVars

AfterAnnouncingUnsettled(s) == IF s = "COOKING" THEN "send" ELSE "idle"

AfterAnnouncingUnsent(s) == IF s = "COMPLETED" THEN "settle" ELSE "idle"

\* What UpdateStatus still does once the client was told.
AfterAnnouncing(s) ==
  CASE s = "COOKING"   -> "send"
    [] s = "COMPLETED" -> "settle"
    [] OTHER           -> "idle"

\* UpdateStatus: the row is written first, whatever status it had.  (When
\* the statement fails the handler returns and nothing has changed.)
UpdateStatus(p, o, s) ==
  /\ WriteStatus(o, s)
  /\ Start(p, "claim", [JobFor(o) EXCEPT
                          !.status = s,
                          !.afterNotify = AfterAnnouncing(s)])
  /\ UNCHANGED <<submitted, told>>

\* A COMPLETED order counts as PAID, however it is paid.
Settle(p) ==
  /\ At(p, "settle")
  /\ PaymentOrIgnore(Ord(p), "PAID")
  /\ Goto(p, "idle")
  /\ UNCHANGED <<submitted, told>>

----------------------------------------------------------------------------
(* iiko's webhooks.  Each event of a request gets a goroutine of its own,  *)
(* so events are handled in any order, and iiko may send one again.        *)

\* NeverNotified stands for the empty string: the event is dropped.
MapIikoStatus(is) ==
  CASE is = "CANCEL"               -> "CANCELLED"
    [] is = "REJECT"               -> "REJECTED"
    [] is = "WAITING"              -> "ON_THE_WAY"
    [] is = "ONWAY"                -> "DELIVERED"
    [] is \in {"CLOSE", "COMPLETE"} -> "COMPLETED"
    [] OTHER                       -> NeverNotified

HookStatus(is, r) ==
  IF MapIikoStatus(is) = "ON_THE_WAY" /\ r.delivery = "PICKUP"
    THEN "READY_FOR_PICKUP"
    ELSE MapIikoStatus(is)

\* iiko reports on the i-th order that it created for o.
IikoKnows(o, i) == i \in 1 .. submitted[o]

\* HandleIikoDeliveryOrderUpdate, up to GetByOrderNumber.
HookUpdate(p, o, i, is) ==
  /\ IikoKnows(o, i)
  /\ Stored(o)
  /\ Start(p, "hook_meta", [JobFor(o) EXCEPT
                              !.iiko = i,
                              !.status = HookStatus(is, orders[o])])
  /\ UNCHANGED <<repoVars, submitted, told>>

\* The same handler when creationStatus is not SUCCESS.
HookNotCreated(p, o, i) ==
  /\ IikoKnows(o, i)
  /\ Stored(o)
  /\ Start(p, "hook_reject", JobFor(o))
  /\ UNCHANGED <<repoVars, submitted, told>>

\* The client is not told of this one.
HookReject(p) ==
  /\ At(p, "hook_reject")
  /\ StatusOrIgnore(Ord(p), "REJECTED")
  /\ Goto(p, "idle")
  /\ UNCHANGED <<submitted, told>>

HookMeta(p) ==
  /\ At(p, "hook_meta")
  /\ IikoMetaOrIgnore(Ord(p), job[p].iiko)
  /\ Goto(p, IF job[p].status = NeverNotified THEN "idle" ELSE "hook_set")
  /\ UNCHANGED <<submitted, told>>

HookCollectsDelivered(s, r) == s = "DELIVERED" /\ r.method = "CASH"

\* Cash is collected when the order reaches its end.
HookCollects(s, r) == s \in {"COMPLETED", "DELIVERED"} /\ r.method = "CASH"

HookSet(p) ==
  /\ At(p, "hook_set")
  /\ \/ /\ WriteStatus(Ord(p), job[p].status)
        /\ Goto(p, IF HookCollects(job[p].status, orders[Ord(p)])
                     THEN "hook_pay" ELSE "claim")
     \/ StatementFails(Ord(p)) /\ Goto(p, "idle")
  /\ UNCHANGED <<submitted, told>>

HookPay(p) ==
  /\ At(p, "hook_pay")
  /\ PaymentOrIgnore(Ord(p), "PAID")
  /\ Goto(p, "claim")
  /\ UNCHANGED <<submitted, told>>

\* HandleIikoDeliveryOrderError, up to GetByOrderNumber.
HookError(p, o, i) ==
  /\ IikoKnows(o, i)
  /\ Stored(o)
  /\ Start(p, "error_meta", [JobFor(o) EXCEPT !.iiko = i,
                                              !.status = "REJECTED"])
  /\ UNCHANGED <<repoVars, submitted, told>>

ErrorMeta(p) ==
  /\ At(p, "error_meta")
  /\ IikoMetaOrIgnore(Ord(p), job[p].iiko)
  /\ Goto(p, "error_set")
  /\ UNCHANGED <<submitted, told>>

ErrorSet(p) ==
  /\ At(p, "error_set")
  /\ StatusOrIgnore(Ord(p), job[p].status)
  /\ Goto(p, "claim")
  /\ UNCHANGED <<submitted, told>>

----------------------------------------------------------------------------
ServiceRequest(p) ==
  \E o \in Order :
    \/ \E s \in OperatorStatus : UpdateStatus(p, o, s)
    \/ \E i \in IikoId, is \in ReportedStatus : HookUpdate(p, o, i, is)
    \/ \E i \in IikoId : HookNotCreated(p, o, i) \/ HookError(p, o, i)

ServiceStep(p) ==
  \/ Settle(p) \/ HookReject(p) \/ HookMeta(p) \/ HookSet(p) \/ HookPay(p)
  \/ ErrorMeta(p) \/ ErrorSet(p)

ServiceNext ==
  \/ \E o \in Order : CreateOrder(o) \/ DeleteOrder(o)
  \/ \E p \in Proc : ServiceRequest(p) \/ ServiceStep(p) \/ FlowStep(p)
  \/ Crash

ServiceSpec == ServiceInit /\ [][ServiceNext]_serviceVars

----------------------------------------------------------------------------
(* Properties                                                              *)

\* Every variable keeps its type, and a busy goroutine works on an order.
ServiceTypeOK == RepoTypeOK /\ FlowTypeOK

\* Some goroutine is still going to mark o as PAID.
SettlesLater(p, o) ==
  /\ Ord(p) = o
  /\ \/ pc[p] \in {"settle", "hook_pay"}
     \/ pc[p] \in NotifyPC /\ job[p].afterNotify = "settle"

\* An order is COMPLETED only together with its money: when nothing fails it
\* is PAID, or the handler that completed it is about to mark it so, whether
\* an operator or iiko completed it (UpdateStatus and
\* HandleIikoDeliveryOrderUpdate).
CompletedIsPaid ==
  \A o \in Order :
    Stored(o) /\ orders[o].status = "COMPLETED" =>
      orders[o].pay = "PAID" \/ \E p \in Proc : SettlesLater(p, o)

\* When nothing fails, a CASH order that is COOKING reaches iiko, unless it
\* is deleted (UpdateStatus sends what it marks COOKING).
CookingCashIsSubmitted ==
  \A o \in Order :
    Stored(o) /\ orders[o].status = "COOKING" /\ orders[o].method = "CASH"
      ~> submitted[o] > 0 \/ ~Stored(o)
============================================================================
