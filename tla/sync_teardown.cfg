SPECIFICATION ServedSpec
CONSTANTS
  Tasks = {t1}
  Windows = {w1}
  Folders = {f1}
  Toggled = {f1}
  Replies = {"ok", "rerun"}
  Events = {"push", "maintain"}
  MaxReruns = 0
  MaxFrames = 1
INVARIANTS MarkHeldThroughTeardown LocksHaveOwners
 
