SPECIFICATION PreviewSpec
CONSTANTS
  Proc = {p1, p2}
  c1 = c1  c2 = c2  x = x  y = y
  vx = vx  vy1 = vy1  vy2 = vy2
  Skill = {x, y}
  Candidate = {c1, c2}
  SkillsOf <- MCSkillsOf
  VersionOf <- MCVersionOf
  Absent = Absent
  MaxRevision = 2
INVARIANTS
  HistoryIsChain
  ReplyIsCommitted
  AdoptsOnlyApproved
  CandidateIsApproved
  NoDecisionPassedOver
