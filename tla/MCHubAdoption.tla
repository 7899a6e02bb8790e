--------------------------- MODULE MCHubAdoption ---------------------------
(* A source with its tree, a derivative with its tree and receipt, and two *)
(* contract files.                                                         *)
EXTENDS HubAdoption, TLC

CONSTANTS a, d, ta, td, rd

MCOwnPaths == a :> {ta} @@ d :> {td, rd}

Symmetry == Permutations(Proc) \cup Permutations(Contract)
=============================================================================
