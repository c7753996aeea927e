SPECIFICATION CheckoutFairSpec
CONSTANTS
  NoOrder = NoOrder
  NoTxn = NoTxn
  Order = {o1}
  Methods = {"CASH", "CLICK"}
  Deliveries = {"DELIVERY"}
  Proc = {g1, g2}
  Txn = {t1}
  Faults = {}
  MaxSubmissions = 1
  OperatorStatus = {"COOKING"}
  ReportedStatus = {"CLOSE"}
  Outcomes = {"success"}
\* A server that nobody calls any more rests.
CHECK_DEADLOCK FALSE
INVARIANTS
  PerformedIsPaid
  PaidInvoiceIsPaidOrder
  CompletedIsPaid
  SubmissionRecorded
PROPERTIES
  PerformedReachesKitchen
  ChargedReachesKitchen
  CookingCashIsSubmitted
