----------------------------- MODULE MCGroupChat -----------------------------
EXTENDS GroupChat, TLC

CONSTANTS u1, u2, c1, c2, c3

\* Any request, then two of the usual ones.
MCAsks == c1 :> Ops @@ c2 :> {"add", "leave", "send", "kick"} @@ c3 :> {"send"}

Symmetry == Permutations(Users)
=============================================================================
