\* Three reads of one key on two replicas, a row that comes and goes.
SPECIFICATION Spec
CONSTANTS
  r1 = r1
  r2 = r2
  r3 = r3
  p1 = p1
  p2 = p2
  v1 = v1
  nil = nil
  stub = stub
  Reads = {r1, r2, r3}
  Processes = {p1, p2}
  ProcessOf <- MCProcessOf
  Stubs = {r3}
  Values = {v1}
  NoValue = nil
  Placeholder = stub
INVARIANTS
  TypeOK
  ExclusionUntilExpiry
PROPERTIES
  EveryReadEnds
  NothingReturns
CHECK_DEADLOCK FALSE
