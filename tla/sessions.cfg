CONSTANTS
  Folders = {f1}
  Items = {i1}
  Overlap = FALSE
  MaxSessions = 3
  MaxTargets = 2
  MaxEdits = 2
  MaxHooks = 1
  MaxPushes = 2
  MaxOps = 2
SPECIFICATION Spec
INVARIANTS TypeOK OrphansUnnamed
PROPERTIES  NamedQueuesKept CustomisationKept
CHECK_DEADLOCK FALSE
