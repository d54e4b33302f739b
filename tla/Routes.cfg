SPECIFICATION Spec
CONSTANTS
  r1 = r1 r2 = r2 w1 = w1 w2 = w2 t1 = t1 t2 = t2 x1 = x1 x2 = x2
  Absent = Absent
  Tools <- MCTools
  Versions = {1, 2}
  Arguments = {x1, x2}
  Accepts <- MCRenamed
  Grounded = {x1, x2}
  Offers <- MCSwitchedOffers
  Thresholds = {2, 3}
  Requests = {r1, r2}
  Workers = {w1}
  WorkerOf <- MCOneWorker
  MaximumIterations = 1
  MaxCounter = 3
  Enough = 3
  MaxReplays = 1
SYMMETRY MCSymmetry
INVARIANTS TypeOK ReplaysAreEarned StoredArgumentsAreValid ConflictsQuarantine
PROPERTIES ImplementsEvidence
