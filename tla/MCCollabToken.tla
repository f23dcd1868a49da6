--------------------------- MODULE MCCollabToken ---------------------------
(* Small instances of CollabToken: two calls for one user beside one call   *)
(* for another, and lifetimes on both sides of the buffer.                  *)
EXTENDS CollabToken, TLC

CONSTANTS g1, g2, g3, u1, u2, t1, t2, t3

GetUserDef == (g1 :> u1) @@ (g2 :> u1) @@ (g3 :> u2)
Symmetry == Permutations({g1, g2}) \cup Permutations(Token)
=============================================================================
