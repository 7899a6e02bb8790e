SPECIFICATION FairSubmissionSpec
CONSTANTS
    sa = sa
    sb = sb
    sc = sc
    sd = sd
    t1 = t1
    t2 = t2
    x = x
    y = y
    e1 = e1
    e2 = e2
    o = o
    kit = kit
    addC = addC
    updB = updB
    remD = remD
    Skills <- MCSkills
    Texts = {t1, t2}
    Aliases = {x, y}
    Missing = Missing
    Keep = Keep
    Imports = {kit}
    NoImport = NoImport
    Upstream <- MCUpstream
    Editors = {e1, e2, o}
    Subjects = {e1, e2}
    Edits = {addC, updB, remD}
    Wants <- MCWants
    proposalOf <- MCProposalOf
    FirstCatalog <- MCFirst
    None = None
    MaxCommits = 5
    MaxWritten = 4
    MaxLost = 1
INVARIANTS
    AnswersHoldProposals
    DefectsNeedOverlap
PROPERTIES
    ImplementsBoard
    RetriesConverge
CHECK_DEADLOCK FALSE
