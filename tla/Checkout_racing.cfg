SPECIFICATION CheckoutSpec
CONSTANTS
  NoOrder = NoOrder
  NoTxn = NoTxn
  Order = {o1}
  Methods = {"PAYME", "CLICK"}
  Deliveries = {"DELIVERY"}
  Proc = {g1, g2}
  Txn = {t1}
  Faults = {"db", "iiko", "crash"}
  MaxSubmissions = 1
  OperatorStatus = {"COOKING"}
  ReportedStatus = {"OTHER"}
  Outcomes = {"success", "failure"}
\* A server that nobody calls any more rests.
CHECK_DEADLOCK FALSE
SYMMETRY Symmetry
INVARIANTS
  CheckoutTypeOK
  KitchenOnlyIfTaken
  LinkedHasInvoice
  OnlineSubmittedOnlyIfPaid
PROPERTIES
  ImplementsFulfilment
