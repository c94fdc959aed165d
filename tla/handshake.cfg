CONSTANTS
  Providers = {p1}
  Hurried = FALSE
  Replaceable = TRUE
  MaxFlips = 6
  MaxPorts = 3
  MaxWrites = 2
SPECIFICATION FairSpec
INVARIANTS TypeOK SidesAgree
PROPERTIES Registered LocksReleased
CHECK_DEADLOCK FALSE
