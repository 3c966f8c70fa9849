\* A request of any kind beside an add, kick, leave or send, and a send: one
\* group of two users, one message to begin with at most.
SPECIFICATION Spec
CONSTANTS
  u1 = u1
  u2 = u2
  c1 = c1
  c2 = c2
  c3 = c3
  m1 = m1
  nobody = nobody
  none = none
  Users = {u1, u2}
  Calls = {c1, c2, c3}
  Asks <- MCAsks
  Messages = {m1}
  Nobody = nobody
  NoMessage = none
SYMMETRY Symmetry
INVARIANTS
  OutIsOut
  BanHolds
  OrphanedByItsOwner
  EventsAreTrue
PROPERTIES
  RefinesRecord
CHECK_DEADLOCK FALSE
