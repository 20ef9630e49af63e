CONSTANTS
  a = a
  b = b
  c = c
  zh = zh
  en = en
  Projects = {1, 2, 3}
  Languages = {zh, en}
  LanguageOf <- TwoLanguages
  Clients = {a, b, c}
  ProjectOf <- OneEach
  Slow = {}
  Deletable = {}
  Background = TRUE
  MaxAttempts = 2
  MaxReserved = 1
  MaxJobs = 3
  MaxUpdates = 2
  MaxLapses = 1
SPECIFICATION Spec
CHECK_DEADLOCK FALSE
PROPERTY ExhaustedEnds
