-------------------------- MODULE MCReleasePreview -------------------------
(* A candidate with two skills and one with another version of the second. *)
EXTENDS ReleasePreview, TLC

CONSTANTS c1, c2, x, y, vx, vy1, vy2

MCSkillsOf == c1 :> {x, y} @@ c2 :> {y}
MCVersionOf == c1 :> (x :> vx @@ y :> vy1) @@ c2 :> (y :> vy2)
=============================================================================
