SPECIFICATION BotSpec
CONSTANTS
  Chats = {c1}
  Products = {p1}
  Workers = {w1}
  Requests = {r1}
  Inputs = {"cart", "confirm", "pickup", "cash"}
  InitialKnown = {{"language", "name", "phone"}}
  Faults = {}
  MaxOrders = 1
  MaxAdded = 1
  MinCount = 0
PROPERTIES
  CashOrderFinishes
CHECK_DEADLOCK FALSE
