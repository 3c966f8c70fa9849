\* Racing deletions, overlapping ticks of one process, a batch smaller than the outbox.
SPECIFICATION FairSpec
CONSTANTS
  u1 = u1
  u2 = u2
  s1 = s1
  s2 = s2
  r1 = r1
  r2 = r2
  r3 = r3
  a = a
  Users = {u1, u2}
  Sessions = {s1, s2}
  OwnerOf <- MCOwnerOf
  Requests = {r1, r2, r3}
  SessionOf <- MCSessionOf
  Replicas = {a}
  Slots = {1, 2}
  BatchSize = 1
  MaxFaults = 1
INVARIANT TypeOK PublishedInLog OneRowPerDeletion LogIsCommitted AnswersAreDurable CopiesBounded
PROPERTY EventuallyPublished
CHECK_DEADLOCK FALSE
