----------------------------- MODULE MCLogStore -----------------------------
(* Small instances of LogStore for TLC.                                    *)
EXTENDS Snapshots, TLC

\* The store only compares names for equality.
NameSymmetry == Permutations(Names)
=============================================================================
