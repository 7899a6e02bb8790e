--------------------------- MODULE MCProjectContents ---------------------------
\* Two versions of skill s1 that share a blob, and one of s2 that claims the
\* alias of s1; two importers, one of which imports a collection; one agent; a
\* project with or without a lock that came with it, and two configurations.
EXTENDS ProjectContents, TLC

CONSTANTS i1, i2, c1, p1, p2, p3, b0, b1, b2, s1, s2, a1

MCBatches == {<<p1, p3>>, <<p2>>}
MCSkillOf == (p1 :> s1 @@ p2 :> s1 @@ p3 :> s2)
MCBlobsOf == (p1 :> {b0, b1} @@ p2 :> {b0, b2} @@ p3 :> {b0})
MCBodyOf == (p1 :> b1 @@ p2 :> b2 @@ p3 :> b0)
MCAliasesOf == (p1 :> {a1} @@ p2 :> {} @@ p3 :> {a1})
open == [denied |-> {}, required |-> FALSE]
closed == [denied |-> {s1}, required |-> TRUE]
MCConfigs == {open, closed}
Sym == Permutations(Importers)
MCInitialLocks == {None, [config |-> open, skills |-> (s1 :> p2)]}

=============================================================================
