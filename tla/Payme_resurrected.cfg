SPECIFICATION PaymeSpec
CONSTANTS
  NoOrder = NoOrder
  NoTxn = NoTxn
  Order = {o1}
  Methods = {"PAYME"}
  Deliveries = {"DELIVERY"}
  Proc = {g1, g2}
  Txn = {t1}
  Faults = {}
  MaxSubmissions = 2
\* Paycom may never call again.
CHECK_DEADLOCK FALSE
PROPERTY CanceledStaysCanceled
