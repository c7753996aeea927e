SPECIFICATION ClickSpec
CONSTANTS
  NoOrder = NoOrder
  Order = {o1}
  Methods = {"CLICK"}
  Deliveries = {"DELIVERY"}
  Proc = {g1}
  Faults = {}
  MaxSubmissions = 2
  Outcomes = {"success", "failure"}
\* An order that Click's checkout refused is never paid for.
CHECK_DEADLOCK FALSE
INVARIANT CookingOnlyIfCharged
