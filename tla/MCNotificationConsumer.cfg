\* Rebalances, crashes, failed connects and statements within two failures.
SPECIFICATION FairSpec
CONSTANTS
  e1 = e1
  e2 = e2
  i1 = i1
  i2 = i2
  Events = {e1, e2}
  KindOf <- MCKindOf
  Instances = {i1, i2}
  MaxLog = 3
  MaxFailures = 2
INVARIANT TypeOK RepeatsBounded NothingDropped
PROPERTY EventuallyNotified
CHECK_DEADLOCK FALSE
