---------------------------- MODULE MCHubUpdate ----------------------------
(* Three records: v2 only selects other roots of v1's commit, v3 is a new  *)
(* commit with the tree of v1.                                             *)
EXTENDS HubUpdate, TLC

CONSTANTS v1, v2, v3, t1, t2, c1, c2

MCTreeOf == v1 :> t1 @@ v2 :> t2 @@ v3 :> t1
MCCommitOf == v1 :> c1 @@ v2 :> c1 @@ v3 :> c2

Symmetry == Permutations(Proc) \cup Permutations(Source)
=============================================================================
