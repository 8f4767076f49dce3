SPECIFICATION BoundedSpec
CONSTANTS
  p1 = p1
  p2 = p2
  b1 = b1
  b2 = b2
  o1 = o1
  o2 = o2
  Bodies <- MCBodies
  Owners <- MCOwners
  Processes <- MCProcesses
  Requests <- AllRequests
  Retention = 0
  MaxClock = 1
  MaxCalls = 3
  MaxCrashes = 1
  MaxEdits = 1
SYMMETRY Symmetry
INVARIANTS TypeOK FileSound ConflictMeansTwoOthers WritesFollowAcceptedReads AckedVersionsStay
PROPERTIES IdsNeverReissued ImplementsProtocol
CHECK_DEADLOCK FALSE
