------------------------------ MODULE MCForum ------------------------------
EXTENDS Forum, TLC

CONSTANTS u1, u2, p1, p2, c1, c2, c3

\* Two posts of different authors.
MCAuthorOf == p1 :> u1 @@ p2 :> u2

CallSymmetry == Permutations(Calls)
=============================================================================
