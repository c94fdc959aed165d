SPECIFICATION Spec
CONSTANTS
  Tasks = {t1, t2}
  Windows = {}
  Folders = {f1}
  Toggled = {}
  Replies = {"ok"}
  Events = {"maintain"}
  MaxReruns = 0
  MaxFrames = 1
INVARIANT OneDriver
