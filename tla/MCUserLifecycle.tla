--------------------------- MODULE MCUserLifecycle ---------------------------
(* One account and one call that deletes it; one auth-service process and a  *)
(* consuming service of two instances.  Nothing fails.                       *)
EXTENDS UserLifecycle, TLC

CONSTANTS u1, s1, r1, a, i1, i2

MCOwnerOf   == s1 :> u1
MCSessionOf == r1 :> s1
=============================================================================
