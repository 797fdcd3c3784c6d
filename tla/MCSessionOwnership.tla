------------------------- MODULE MCSessionOwnership -------------------------
(***************************************************************************)
(* Instances of SessionOwnership for TLC.                                  *)
(***************************************************************************)
EXTENDS SessionOwnership, TLC

CONSTANTS s1, s2, t1, t2, u1, u2, h1, h2, c1

OneToken == s1 :> t1 @@ s2 :> t1
TwoTokens == s1 :> t1 @@ s2 :> t2

HolderSymmetry == Permutations({h1, h2})
=============================================================================
