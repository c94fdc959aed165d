CONSTANTS
  EVENT_LOG_MAX = 2
  TRIM_SLACK = 1
  EVENT_LOG_DISPLAY_MAX = 2
  MaxEntries = 5
  MaxLogs = 2
  MaxRefreshes = 2
  MaxFaults = 1
SPECIFICATION Spec
INVARIANTS TypeOK ViewFaithful
CHECK_DEADLOCK FALSE
