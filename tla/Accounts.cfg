SPECIFICATION Spec
CONSTANTS
  Threads = {t1, t2}
  Emails = {a, b}
  Passwords = {x, y}
  MaxCalls = 3
INVARIANTS SignedUpMeansKept
CHECK_DEADLOCK FALSE
