SPECIFICATION Spec
CONSTANTS
  r1 = r1 r2 = r2 w1 = w1 w2 = w2 t1 = t1 t2 = t2 x1 = x1 x2 = x2
  Absent = Absent
  Tools <- MCOneTool
  Versions = {1}
  Arguments = {x1}
  Accepts <- MCAccepts
  Grounded = {x1}
  Offers <- MCAllOffers
  Thresholds = {2}
  Requests = {r1}
  Workers = {w1}
  WorkerOf <- MCOneWorker
  MaximumIterations = 3
  MaxCounter = 2
  Enough = 2
  MaxReplays = 2
INVARIANTS EveryRequestAnswered
