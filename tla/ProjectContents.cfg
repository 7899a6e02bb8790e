SPECIFICATION Spec
CONSTANTS
    i1 = i1
    i2 = i2
    c1 = c1
    p1 = p1
    p2 = p2
    p3 = p3
    b0 = b0
    b1 = b1
    b2 = b2
    s1 = s1
    s2 = s2
    a1 = a1
    Importers = {i1, i2}
    Batches <- MCBatches
    Packages = {p1, p2, p3}
    Blobs = {b0, b1, b2}
    Skills = {s1, s2}
    Aliases = {a1}
    skillOf <- MCSkillOf
    blobsOf <- MCBlobsOf
    bodyOf <- MCBodyOf
    aliasesOf <- MCAliasesOf
    None = None
    MaxImports = 2
    MaxCrashes = 1
    MaxDamages = 1
    Agents = {c1}
    Configs <- MCConfigs
    InitialLocks <- MCInitialLocks
    MaxEdits = 1
    MaxRefreshes = 1
    MaxRequests = 2
SYMMETRY Sym
INVARIANTS
    RecordedIsReadable
    FoundIsFetchable
    DeniedIsNotServed
CHECK_DEADLOCK FALSE
