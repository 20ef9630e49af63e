SPECIFICATION RecordsSpec
CONSTANTS
  Lanes = {l1, l2}
  None = None
  Gone = Gone
  Budgets <- MCBudgets
  Steps = 1
  o1 = o1
  o2 = o2
  system = system
  Owners = {o1, o2, system}
  System = system
  Groups = {1, 2, 3}
  Projects <- MCProjects
  AnalysisLimits <- MCLimits
  MaxLapses = 2
  f1 = f1
  f2 = f2
  v1 = v1
  v2 = v2
  EvoTasks = {f1, f2}
  Reviewers = {v1, v2}
  d1 = d1
  d2 = d2
  Diffs = {d1, d2}
  MaxBreaks = 2
SYMMETRY Symmetry
INVARIANTS
  AnswersPaired ContextFaithful OneActionPerMessage ConfirmedKept
  TurnsWithinLimits
  VersionsKept HistoryAsDecided LedgerTruthful
CHECK_DEADLOCK FALSE
