\* Two posts of two users, three requests of any kind.
SPECIFICATION Spec
CONSTANTS
  u1 = u1
  u2 = u2
  p1 = p1
  p2 = p2
  c1 = c1
  c2 = c2
  c3 = c3
  nil = nil
  Users = {u1, u2}
  OldPosts = {p1, p2}
  AuthorOf <- MCAuthorOf
  Calls = {c1, c2, c3}
  None = nil
SYMMETRY CallSymmetry
INVARIANTS
  TypeOK
  NothingDangles
  ThreadIsWhole
CHECK_DEADLOCK FALSE
