SPECIFICATION Spec
CONSTANTS
  i1 = i1 i2 = i2 o1 = o1 o2 = o2 s1 = s1 s2 = s2
  Fails = Fails Absent = Absent
  Sessions = {s1, s2}
  Inputs = {i1, i2}
  Outputs = {o1, o2}
  Programs <- MCPrograms
  Suites <- MCSuites
  MaxVersions = 2
  MaxRevision = 3
  MaxRuns = 1
SYMMETRY MCSymmetry
INVARIANTS TypeOK AnswersWereTrue CountersMatchAnswers VersionsPassTheirTests DraftsAreDistinct
PROPERTIES ImplementsCatalog
