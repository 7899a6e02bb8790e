-------------------------- MODULE MCRetainedReleases --------------------------
\* A plain release, a governed one that follows it and was prepared a second
\* time to follow itself, one that follows that, and a plain one that needs a policy.
EXTENDS RetainedReleases, TLC

CONSTANTS p1, p2, d1, d2, s, t, v1, v2, cPlain, cBound, cAgain, cMore, cLegacy

rel(governed, tstack, vs, vt, bound) ==
    [governed |-> governed, tstack |-> tstack, version |-> (s :> vs @@ t :> vt), bound |-> bound]
plain == rel(FALSE, FALSE, v1, Absent, {})
bound1 == rel(TRUE, TRUE, v1, v1, {s})
more == rel(TRUE, FALSE, v1, v2, {s, t})
legacy == rel(FALSE, TRUE, v1, v2, {})
MCReleaseOf == (cPlain :> plain @@ cBound :> bound1 @@ cAgain :> bound1 @@ cMore :> more @@ cLegacy :> legacy)
MCPreviousOf == (cPlain :> bound1 @@ cBound :> plain @@ cAgain :> bound1 @@ cMore :> bound1
                 @@ cLegacy :> plain)
Sym == Permutations(Operators) \cup Permutations(Deployments)

=============================================================================
