\* Five requests, two at a time, one fault.
SPECIFICATION Spec
CONSTANTS
  email = email
  p1 = p1
  p2 = p2
  c1 = c1
  c2 = c2
  noHash = noHash
  noEntry = noEntry
  Emails = {email}
  Passwords = {p1, p2}
  Calls = {c1, c2}
  NoHash = noHash
  NoEntry = noEntry
  MaxCalls = 5
  MaxFaults = 1
INVARIANT TypeOK SignedOutIsRefused ErasedIsRefused TokenOfThePassword
PROPERTY OnlyOverlapRecaches
CHECK_DEADLOCK FALSE
SYMMETRY Symmetry
