SPECIFICATION Spec
CONSTANTS
  MaxCommits = 3
  MaxKills = 4
  KillsDuringPull = TRUE
INVARIANTS NoDataLost
CHECK_DEADLOCK FALSE
