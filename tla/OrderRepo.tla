----------------------------- MODULE OrderRepo -----------------------------
(***************************************************************************)
(* The orders table and the statements of order_repo that the handlers run *)
(* against it.  The database has no transaction that spans two statements, *)
(* so each statement below is one atomic step of the goroutine that runs   *)
(* it, and everything a handler read before may be stale after.            *)
(***************************************************************************)
EXTENDS Naturals

CONSTANTS
  Order,            \* order ids (a uuid is never handed out twice)
  Methods,          \* bound: how the orders are paid, a subset of Method
  Deliveries,       \* bound: how they are delivered, a subset of Delivery
  MaxSubmissions    \* bound: iiko orders that iiko creates for one order

\* The enum types of the migrations: any other value is an SQL error.
Status  == {"WAITING_OPERATOR", "WAITING_PAYMENT", "REJECTED", "COOKING",
            "READY_FOR_PICKUP", "ON_THE_WAY", "DELIVERED", "CANCELLED",
            "COMPLETED"}
Payment == {"UNPAID", "PENDING", "PAID"}
Method  == {"CASH", "PAYME", "CLICK"}
Delivery == {"DELIVERY", "PICKUP"}

ASSUME MethodsAssumption        == Methods \subseteq Method
ASSUME DeliveriesAssumption     == Deliveries \subseteq Delivery
ASSUME MaxSubmissionsAssumption == MaxSubmissions \in Nat \ {0}

Online == {"PAYME", "CLICK"}

\* iiko's id of the n-th order it created for an order is n; NoIikoId is ''.
NoIikoId == 0
IikoId   == 0 .. MaxSubmissions

\* last_notified_status is NULL until the client is first told anything.
NeverNotified == "NULL"

Row == [status   : Status,
        pay      : Payment,
        method   : Method,
        delivery : Delivery,
        iiko     : IikoId,
        notified : Status \cup {NeverNotified}]

VARIABLES
  table,       \* table[o]: whether the row of o was inserted or deleted
  orders,      \* orders[o]: the row of o (its last value once deleted)
  paidOnce     \* history: the orders whose payment_status has been PAID

repoVars == <<table, orders, paidOnce>>

Stored(o) == table[o] = "stored"

----------------------------------------------------------------------------
(* order_repo.Create: the status a new order starts with follows from how  *)
(* it is paid.                                                             *)
NewRow(m, d) ==
  [status   |-> IF m = "CASH" THEN "WAITING_OPERATOR" ELSE "WAITING_PAYMENT",
   pay      |-> IF m = "CASH" THEN "UNPAID" ELSE "PENDING",
   method   |-> m,
   delivery |-> d,
   iiko     |-> NoIikoId,
   notified |-> NeverNotified]

RepoInit ==
  /\ table = [o \in Order |-> "new"]
  /\ orders \in [Order -> {NewRow(m, d) : m \in Methods, d \in Deliveries}]
  /\ paidOnce = {}

Insert(o) ==
  /\ table[o] = "new"
  /\ table' = [table EXCEPT ![o] = "stored"]
  /\ UNCHANGED <<orders, paidOnce>>

\* DELETE FROM orders: no error when there is no such row.
Remove(o) ==
  /\ table' = [table EXCEPT ![o] = IF @ = "stored" THEN "deleted" ELSE @]
  /\ UNCHANGED <<orders, paidOnce>>

\* UPDATE orders SET order_status: whatever the status was before.
WriteStatus(o, s) ==
  /\ Stored(o)
  /\ orders' = [orders EXCEPT ![o].status = s]
  /\ UNCHANGED <<table, paidOnce>>

\* UPDATE orders SET payment_status: whatever it was before.
WritePayment(o, ps) ==
  /\ Stored(o)
  /\ orders' = [orders EXCEPT ![o].pay = ps]
  /\ paidOnce' = IF ps = "PAID" THEN paidOnce \cup {o} ELSE paidOnce
  /\ UNCHANGED table

\* UPDATE orders SET iiko_order_id: the last writer's id stays.
WriteIikoMeta(o, i) ==
  /\ Stored(o)
  /\ orders' = [orders EXCEPT ![o].iiko = i]
  /\ UNCHANGED <<table, paidOnce>>

MarkableOnce(o, s) == Stored(o) /\ orders[o].notified = NeverNotified

\* Whether TryMarkNotified's UPDATE ... WHERE finds its row.
Markable(o, s) == Stored(o) /\ orders[o].notified # s

\* TryMarkNotified: compare and set of last_notified_status in one statement.
TryMarkNotified(o, s) ==
  /\ Markable(o, s)
  /\ orders' = [orders EXCEPT ![o].notified = s]
  /\ UNCHANGED <<table, paidOnce>>

RepoTypeOK ==
  /\ table \in [Order -> {"new", "stored", "deleted"}]
  /\ orders \in [Order -> Row]
  /\ paidOnce \subseteq Order
============================================================================
