CONSTANTS
  Cards = {"near", "next", "far"}
  Lists = {"list"}
  Folders = {"f1", "f2"}
  In <- MCIn
  Members <- MCMembers
  Histories <- MCHistories
  BootMayDie = FALSE
  PullMayFail = FALSE
  MaxMishaps = 2
SPECIFICATION FairSpec
INVARIANTS TypeOK    
 
CHECK_DEADLOCK FALSE
