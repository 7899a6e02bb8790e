SPECIFICATION Spec
CONSTANTS
    p1 = p1
    p2 = p2
    d1 = d1
    d2 = d2
    s = s
    t = t
    v1 = v1
    v2 = v2
    cPlain = cPlain
    cBound = cBound
    cAgain = cAgain
    cMore = cMore
    cLegacy = cLegacy
    Skills = {s, t}
    Versions = {v1, v2}
    Absent = Absent
    Operators = {p1, p2}
    Candidates = {cPlain, cBound, cAgain, cMore, cLegacy}
    releaseOf <- MCReleaseOf
    previousOf <- MCPreviousOf
    reviewed = {cBound, cAgain, cMore}
    Deployments = {d1, d2}
    First = cPlain
    None = None
    MaxRevision = 4
    MaxLosses = 1
SYMMETRY Sym
INVARIANTS
    AnswersWerePublished
    ForwardIsReviewed
PROPERTIES
    ImplementsLedger
CHECK_DEADLOCK FALSE
