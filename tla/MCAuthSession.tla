--------------------------- MODULE MCAuthSession ---------------------------
(* One e-mail, so that an account and its successor share a cache key. *)
EXTENDS AuthSession, TLC

CONSTANTS email, p1, p2, c1, c2, noHash, noEntry

Symmetry == Permutations({c1, c2}) \cup Permutations({p1, p2})
=============================================================================
