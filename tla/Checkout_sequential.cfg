SPECIFICATION CheckoutSpec
CONSTANTS
  NoOrder = NoOrder
  NoTxn = NoTxn
  Order = {o1}
  Methods = {"CASH", "PAYME", "CLICK"}
  Deliveries = {"DELIVERY", "PICKUP"}
  Proc = {g1}
  Txn = {t1, t2, t3}
  Faults = {}
  MaxSubmissions = 2
  OperatorStatus = {"WAITING_OPERATOR", "REJECTED", "COOKING", "READY_FOR_PICKUP", "ON_THE_WAY", "DELIVERED", "CANCELLED", "COMPLETED"}
  ReportedStatus = {"CANCEL", "REJECT", "WAITING", "ONWAY", "CLOSE", "COMPLETE", "OTHER"}
  Outcomes = {"success"}
\* A server that nobody calls any more rests.
CHECK_DEADLOCK FALSE
INVARIANTS
  AtMostOneSubmission
  OnePaymentPerOrder
  ToldOrRefunded
PROPERTY CanceledStaysCanceled
