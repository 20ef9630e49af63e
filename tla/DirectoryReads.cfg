SPECIFICATION DirectorySpec
CONSTANTS
  Generations = {1, 2}
  Publishers = {q1, q2}
  DirectoryReaders = {e1}
  Unleased = {e1}
  Torn = FALSE
  MaxTroubles = 0
INVARIANT DirectoryReadable
CHECK_DEADLOCK FALSE
