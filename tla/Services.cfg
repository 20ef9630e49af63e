SPECIFICATION ServicesSpec
CONSTANTS
  m1 = m1
  m2 = m2
  m3 = m3
  t1 = t1
  t2 = t2
  ModelCalls = {m1, m2, m3}
  TaskOf <- Tasks
  Capped = {t1}
  Estimate <- Estimates
  Costs = {3}
  DailyLimit = 3
  TaskLimit = 2
  Attempts = 2
  MaxFaults = 1
  x1 = x1
  x2 = x2
  y1 = y1
  p1 = p1
  p2 = p2
  w1 = w1
  w2 = w2
  Messages = {x1, x2, y1}
  MemoryProjects = {p1, p2}
  ProjectOf <- Where
  Readers = {w1, w2}
  BatchSize = 1
  MemoryBudgets <- Mixes
  d1 = d1
  d2 = d2
  Versions = {1, 2, 3}
  SnapshotReaders = {d1, d2}
  Rewinds = FALSE
  MaxMishaps = 2
INVARIANTS
  AdmittedWithinLimit BooksTruthful
  ReadExactlyOnce
  StaysReadable
PROPERTIES
  FactsFromPresentTexts EveryMessageRead
  PurgedGone
CHECK_DEADLOCK FALSE
