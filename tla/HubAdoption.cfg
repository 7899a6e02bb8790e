SPECIFICATION Spec
CONSTANTS
  Proc = {p1, p2}
  a = a  d = d  ta = ta  td = td  rd = rd
  Plan = {a, d}
  Derivative = {d}
  Contract = {hubYaml, lockYaml}
  OwnPaths <- MCOwnPaths
  Absent = Absent
  Torn = Torn
INVARIANTS
  NoJournalAgree
  OldSurvives
  RefusesOnlyRestored
PROPERTY AdoptionIsAtomic
SYMMETRY Symmetry
