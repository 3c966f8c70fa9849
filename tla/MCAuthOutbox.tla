---------------------------- MODULE MCAuthOutbox ----------------------------
(* Two accounts.  Two calls with the same token race on the first; with the  *)
(* call on the second, two rows can wait in the outbox, more than a batch    *)
(* takes; the ticks of one process overlap.                                  *)
EXTENDS AuthOutbox, TLC

CONSTANTS u1, u2, s1, s2, r1, r2, r3, a

MCOwnerOf   == s1 :> u1 @@ s2 :> u2
MCSessionOf == r1 :> s1 @@ r2 :> s2 @@ r3 :> s1
=============================================================================
