\* No fault: the order of the deletion's own steps is enough.
SPECIFICATION Spec
CONSTANTS
  email = email
  p1 = p1
  p2 = p2
  c1 = c1
  c2 = c2
  noHash = noHash
  noEntry = noEntry
  Emails = {email}
  Passwords = {p1, p2}
  Calls = {c1, c2}
  NoHash = noHash
  NoEntry = noEntry
  MaxCalls = 4
  MaxFaults = 0
INVARIANT DeletedMustGet401
CHECK_DEADLOCK FALSE
SYMMETRY Symmetry
