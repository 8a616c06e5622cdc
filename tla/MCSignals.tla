----------------------------- MODULE MCSignals ------------------------------
(* Instances of Signals for TLC.                                           *)
EXTENDS Signals, TLC

CONSTANTS h1, h2, h3, t1, c1, c2, c3, n1, s1, s2, s3, s4, s5

\* Two consumers of one topic and one of every message.
MCFilterOf == (c1 :> t1) @@ (c2 :> t1) @@ (c3 :> NULL)

\* Handles are alike, and so are allocations of signals and the consumers of the topic.
AlikeSymmetry ==
    Permutations(Handles) \union Permutations(SignalIds) \union Permutations({c1, c2})
=============================================================================
