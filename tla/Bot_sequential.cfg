SPECIFICATION BotSpec
CONSTANTS
  Chats = {c1}
  Products = {p1}
  Workers = {w1}
  Requests = {}
  Inputs = {"start", "back", "menu", "cart", "languages", "contact",
            "pick_language", "clear", "confirm", "cancel", "delivery",
            "pickup", "cash", "online", "words", "place", "contact_card",
            "add_to_cart", "back_to_menu", "cart_inc", "cart_dec",
            "cart_del", "cart_back"}
  InitialKnown = {{}}
  Faults = {"db", "provider", "crash"}
  MaxOrders = 1
  MaxAdded = 1
  MinCount = 0
INVARIANTS
  BotTypeOK
  OrdersOfKnownClients
  OrderedOnlyOnce
CHECK_DEADLOCK FALSE
