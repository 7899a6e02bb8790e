SPECIFICATION FairSpec
CONSTANTS
  Proc = {p1, p2}
  Source = {s1, s2}
  v1 = v1  v2 = v2  v3 = v3
  t1 = t1  t2 = t2
  c1 = c1  c2 = c2
  Version = {v1, v2, v3}
  Tree = {t1, t2}
  Commit = {c1, c2}
  TreeOf <- MCTreeOf
  CommitOf <- MCCommitOf
  Absent = Absent
  Torn = Torn
  Edited = Edited
  EditsDuringApply = FALSE
INVARIANTS
  NoJournalCoherent
  BackupIsJournaled
  RefusesOnlyTornOrEdited
PROPERTIES
  UpdateIsAtomic
  RecoveryConverges
