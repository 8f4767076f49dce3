SPECIFICATION RequestsSpec
CONSTANTS
  c1 = c1
  c2 = c2
  demo = demo
  other = other
  Bodies <- MCBodies
  Owners <- MCOwners
  Clients <- MCClients
  Requests <- AllRequests
  InitialStores <- MCStores
  Retention = 0
  MaxClock = 1
  MaxCalls = 4
  StoreRequests <- AllStoreRequests
  MaxStoreClock = 2
  MaxStoreCalls = 6
SYMMETRY Symmetry
INVARIANTS
  HeldStaysItself
  SameUpToHistoryDates
PROPERTIES OnlyOwnerTouches
CHECK_DEADLOCK FALSE
