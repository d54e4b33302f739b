SPECIFICATION Spec
CONSTANTS
  a1 = a1
  a2 = a2
  b1 = b1
  wa = wa
  wb = wb
  Absent = Absent
  Names = {n1}
  Programs = {p1}
  Threads = {a1, b1}
  Workers = {wa, wb}
  WorkerOf <- MCWorkerOf
  Administrators = {wa}
  MaxVersions = 2
  MaxCounter = 1
  MaxRevision = 5
  TestOutcomes = {TRUE, FALSE}
  MaxRuns = 1
SYMMETRY Symmetry
INVARIANT NoFalseCorruption
INVARIANT IndexedNamesExist
INVARIANT AliasesWellFormed
INVARIANT EveryEntryHasItsRecord
