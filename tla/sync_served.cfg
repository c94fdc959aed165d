SPECIFICATION ServedSpec
CONSTANTS
  Tasks = {t1}
  Windows = {}
  Folders = {f1, f2}
  Toggled = {}
  Replies = {"ok", "rerun", "auth", "fault"}
  Events = {"setup", "maintain"}
  MaxReruns = 1
  MaxFrames = 2
INVARIANTS ErrorReflectsRows
PROPERTIES RequestsKept DeferredRuns SyncEnds
