SPECIFICATION FairSpec
CONSTANTS
  r1 = r1 r2 = r2 w1 = w1 w2 = w2 t1 = t1 t2 = t2 x1 = x1 x2 = x2
  Absent = Absent
  Tools <- MCOneTool
  Versions = {1}
  Arguments = {x1}
  Accepts <- MCAccepts
  Grounded = {x1}
  Offers <- MCOneOffer
  Thresholds = {2}
  Requests = {r1, r2}
  Workers = {w1}
  WorkerOf <- MCOneWorker
  MaximumIterations = 2
  MaxCounter = 2
  Enough = 2
  MaxReplays = 2
INVARIANTS HitsAreReplays
PROPERTIES RequestsAdvance RequestsEnd RepetitionActivates
