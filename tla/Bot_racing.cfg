SPECIFICATION BotSpec
CONSTANTS
  Chats = {c1}
  Products = {p1}
  Workers = {w1, w2}
  Requests = {r1}
  Inputs = {"cart", "confirm", "pickup", "online", "back", "cart_inc",
            "cart_dec"}
  InitialKnown = {{"language", "name", "phone"}}
  Faults = {}
  MaxOrders = 1
  MaxAdded = 1
  MinCount = 0
SYMMETRY WorkerSymmetry
INVARIANTS
  QuantitiesPositive
  WaitsForOwnOrder
  RowsPositiveAtRest
CHECK_DEADLOCK FALSE
