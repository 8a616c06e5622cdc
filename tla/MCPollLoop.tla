----------------------------- MODULE MCPollLoop -----------------------------
(* Instances of PollLoop for TLC.                                          *)
EXTENDS PollLoop, TLC

CONSTANTS p1, p2, m1, m2

\* Pollers are compared for equality only (not for use where liveness is checked).
TaskSymmetry == Permutations(Pollers)
=============================================================================
