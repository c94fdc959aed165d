CONSTANTS
  Cards = {"near", "next", "far"}
  Lists = {"list"}
  Folders = {"f1", "f2"}
  In <- MCIn
  Members <- MCMembers
  Histories <- MCHistories
  BootMayDie = TRUE
  PullMayFail = FALSE
  MaxMishaps = 2
SPECIFICATION Spec
INVARIANT ImportRetried
CHECK_DEADLOCK FALSE
