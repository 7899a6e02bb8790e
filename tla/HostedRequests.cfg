SPECIFICATION Spec
CONSTANTS
    q1 = q1
    q2 = q2
    s1 = s1
    s2 = s2
    r1 = r1
    r2 = r2
    r3 = r3
    k1 = k1
    k2 = k2
    k3 = k3
    x = x
    Requests = {q1, q2}
    Calls <- MCCalls
    Subjects = {s1, s2}
    Owner = s1
    Grants = {}
    Documented = {s1}
    Releases = {r1, r2, r3}
    Skills = {k1, k2, k3}
    skillsOf <- MCSkillsOf
    Contexts = {x}
    pinOf <- MCPinOf
    DeniedReleases = {r3}
    DeniedSkills = {k2}
    SourceDenied = {r2}
    None = None
    maxConcurrentRequests = 1
    MaxRevision = 2
    MaxRevocations = 2
SYMMETRY Sym
INVARIANTS
    AnswersRespectRevocation
    OneReleasePerRequest
    DenialsDoNotLeak
CHECK_DEADLOCK FALSE
