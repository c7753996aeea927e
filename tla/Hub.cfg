SPECIFICATION HubSpec
CONSTANTS
  Users = {u1}
  Clients = {c1, c2}
  Senders = {s1}
  Capacity = 1
  MaxEvents = 2
  Admins = TRUE
INVARIANTS
  HubTypeOK
  NothingMissedWhileOpen
PROPERTIES
  BroadcastEnds
  ClosedIsForgotten
  EventuallyWritten
CHECK_DEADLOCK FALSE
