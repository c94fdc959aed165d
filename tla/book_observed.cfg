CONSTANTS
  Contacts = {c1}
  Lists = {l1}
  Memberships <- ListAndContact
  Cards = {a, b}
  Starts <- NewOrStocked
  EditsWhen = {"rest", "handled", "announced", "synced"}
  MayFail = FALSE
  MaxHandlers = 2
  MaxEdits = 2
  MaxServerEdits = 1
  c1 = c1
  l1 = l1
SYMMETRY BookSymmetry
SPECIFICATION Spec
INVARIANTS TypeOK   BadgeAgrees
CHECK_DEADLOCK FALSE
