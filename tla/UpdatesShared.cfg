CONSTANTS
  a = a
  b = b
  c = c
  zh = zh
  en = en
  Projects = {1, 2, 3}
  Languages = {zh, en}
  LanguageOf <- TwoLanguages
  Clients = {a, b, c}
  ProjectOf <- OneEach
  Slow = {a}
  Deletable = {1}
  Background = TRUE
  MaxAttempts = 2
  MaxReserved = 1
  MaxJobs = 3
  MaxUpdates = 2
  MaxLapses = 1
  q1 = q1
  q2 = q2
  e1 = e1
  e2 = e2
  Generations = {1, 2}
  Publishers = {q1, q2}
  DirectoryReaders = {e1, e2}
  Unleased = {}
  Torn = FALSE
  MaxTroubles = 2
SPECIFICATION PublicationsSpec
CHECK_DEADLOCK FALSE
INVARIANTS FollowsHead NobodyForgotten BudgetAccounted DirectoryReadable
PROPERTIES EndsOnce UpdateEnds AbandonedGone
