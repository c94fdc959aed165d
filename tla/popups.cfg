CONSTANTS
  Accounts = {a1, a2}
  NoAccount = none
  Calls = {1, 2}
  MaxClicks = 3
  MaxEnds = 1
  Hasty = FALSE
  Hurried = FALSE
SPECIFICATION FairSpec
INVARIANTS TypeOK 
PROPERTIES  LocksEnd
CHECK_DEADLOCK FALSE
