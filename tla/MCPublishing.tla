---------------------------- MODULE MCPublishing ----------------------------
(* Instances of Publishing for TLC.                                        *)
EXTENDS Publishing, TLC

CONSTANTS p1, p2, k1, k2, b1

\* Calls in flight are alike, and so are keys.
CallSymmetry == Permutations(Publishers) \union Permutations(Keys)
=============================================================================
