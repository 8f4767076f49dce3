SPECIFICATION Spec
CONSTANTS
  MaxCommits = 3
  MaxKills = 3
  MaxBackups = 3
  Inputs <- SomeInputs
  Workers = 2
  Threshold = 3
  MaxDeaths = 1
  Threads = {"t1", "t2"}
  Emails = {"a", "b"}
  Passwords = {"x", "y"}
  Names = {"n", "m"}
  Versions = {"v", "w"}
  Items <- SomeItems
  Processes = {"p1", "p2"}
  Bodies = {"b", "c"}
  Owners = {"o", "p"}
  Retention = 0
  StoreRequests <- SomeStoreRequests
  MaxClock = 1
  MaxCrashes = 1
  MaxCalls = 3
INVARIANTS NoDataLost LostOnlyToAnotherEnd HistoryIsWhole
PROPERTIES CopiesAreWhole KeepsContract Progresses
CHECK_DEADLOCK FALSE
