SPECIFICATION RequestsSpec
CONSTANTS
  c1 = c1
  c2 = c2
  demo = demo
  other = other
  Bodies <- MCBodies
  Owners <- MCOwners
  Clients <- MCClients
  Requests <- AllRequests
  InitialStores <- MCStores
  Retention = 0
  MaxClock = 0
  MaxCalls = 3
  StoreRequests <- AllStoreRequests
  MaxStoreClock = 0
  MaxStoreCalls = 0
INVARIANTS UpdateAnswersOnlyActive
CHECK_DEADLOCK FALSE
