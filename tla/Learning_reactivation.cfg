SPECIFICATION Spec
CONSTANTS
  i1 = i1 i2 = i2 o1 = o1 o2 = o2 t1 = t1 t2 = t2
  Absent = Absent
  Inputs = {i1, i2}
  Outputs = {o1, o2}
  Oversized = {}
  Programs <- MCPrograms
  Fails = Fails
  Threads = {t1, t2}
  TaskKey = task
  AutoActivate = {TRUE}
  MinExamples = 1
  MaxExamples = 2
  MaxVersions = 2
  MaxRevision = 4
PROPERTIES NeverReactivates
