---------------------------- MODULE MCHubBuild -----------------------------
(* Two records of a source: an update is a new commit with a new tree.     *)
EXTENDS HubBuild, TLC

CONSTANTS v1, v2, t1, t2, c1, c2

MCTreeOf == v1 :> t1 @@ v2 :> t2
MCCommitOf == v1 :> c1 @@ v2 :> c2

Symmetry == Permutations(Source)
=============================================================================
