--------------------------- MODULE MCHostedRequests ---------------------------
\* Two callers, one of them the owner; searches of the default and through a
\* context, contents through a context and by digest, of a denied and of a
\* missing skill; three releases, of which one is denied and one has a denied
\* source.
EXTENDS HostedRequests, TLC

CONSTANTS q1, q2, s1, s2, r1, r2, r3, k1, k2, k3, x

arg(subject, skill, context, digest) ==
    [subject |-> subject, skill |-> skill, context |-> context, digest |-> digest]
MCCalls == {arg(s1, None, None, None), arg(s2, None, None, None), arg(s2, None, x, None),
            arg(s2, k1, x, None), arg(s2, k1, x, r2), arg(s2, k1, None, r3),
            arg(s1, k3, None, r1), arg(s2, k2, None, r1), arg(s2, k1, None, r1)}
MCSkillsOf == (r1 :> {k1, k2} @@ r2 :> {k1} @@ r3 :> {k1, k2})
MCPinOf == (x :> r1)
Sym == Permutations(Requests)

=============================================================================
