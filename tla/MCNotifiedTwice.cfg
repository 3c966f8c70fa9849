\* One member that ends before its offset is committed is enough.
SPECIFICATION Spec
CONSTANTS
  e1 = e1
  e2 = e2
  i1 = i1
  i2 = i2
  Events = {e1}
  KindOf <- MCOneKind
  Instances = {i1}
  MaxLog = 2
  MaxFailures = 1
INVARIANT NotifiedOnce
CHECK_DEADLOCK FALSE
