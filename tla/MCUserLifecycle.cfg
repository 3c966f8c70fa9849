\* No fault and no failure is needed.
SPECIFICATION FairSystemSpec
CONSTANTS
  u1 = u1
  s1 = s1
  r1 = r1
  a = a
  i1 = i1
  i2 = i2
  Users = {u1}
  Sessions = {s1}
  OwnerOf <- MCOwnerOf
  Requests = {r1}
  SessionOf <- MCSessionOf
  Replicas = {a}
  Slots = {1}
  BatchSize = 1
  MaxFaults = 0
  Instances = {i1, i2}
  MaxFailures = 0
PROPERTY DeletionPropagates
CHECK_DEADLOCK FALSE
