SPECIFICATION Spec
CONSTANTS
  a1 = a1
  a2 = a2
  b1 = b1
  wa = wa
  wb = wb
  Absent = Absent
  Names = {n1}
  Programs = {p1, p2}
  Threads = {a1, a2}
  Workers = {wa}
  WorkerOf <- MCWorkerOf
  Administrators = {wa}
  MaxVersions = 2
  MaxCounter = 2
  MaxRevision = 4
  TestOutcomes = {TRUE}
  MaxRuns = 2
SYMMETRY Symmetry
INVARIANT TypeOK
INVARIANT NoRunLost
PROPERTY VersionsAppendOnly
PROPERTY ImplementsCatalog
