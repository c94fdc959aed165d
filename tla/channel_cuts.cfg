CONSTANTS
  Calls = {c1, c2, c3}
  Asks = {r1}
  Accounts = {a1}
  Drives = {"SYNC_FOLDER", "MAINTAIN"}
  Events = {"unannounce", "hostRestart", "providerRestart"}
  MaxPorts = 2
SYMMETRY ChannelSymmetry
SPECIFICATION Spec
INVARIANTS TypeOK PendingOnPort NoneForgotten ControllersOwned AbortReaches LiveSyncNotAborted
CHECK_DEADLOCK FALSE
