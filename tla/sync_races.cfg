SPECIFICATION Spec
CONSTANTS
  Tasks = {t1, t2}
  Windows = {}
  Folders = {f1}
  Toggled = {}
  Replies = {"ok", "error", "rerun", "auth", "cancelled", "fault"}
  Events = {"port", "maintain"}
  MaxReruns = 0
  MaxFrames = 1
SYMMETRY TaskSymmetry
INVARIANTS TypeOK PendingHasWriter
