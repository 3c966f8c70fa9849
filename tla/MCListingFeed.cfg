\* Two creations, two members of the group, one crash or reassignment.
SPECIFICATION Spec
CONSTANTS
  l1 = l1
  l2 = l2
  m1 = m1
  m2 = m2
  none = none
  Listings = {l1, l2}
  Members = {m1, m2}
  NoMember = none
  NoOffset = none
  MaxFaults = 1
INVARIANTS
  CountedOnce
PROPERTIES
  EventuallyCounted
CHECK_DEADLOCK FALSE
