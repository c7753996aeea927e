SPECIFICATION ServiceSpec
CONSTANTS
  NoOrder = NoOrder
  Order = {o1}
  Methods = {"CASH"}
  Deliveries = {"DELIVERY"}
  Proc = {g1, g2}
  Faults = {}
  MaxSubmissions = 2
  OperatorStatus = {"COOKING"}
  ReportedStatus = {"OTHER"}
SYMMETRY Symmetry
INVARIANT AtMostOneSubmission
