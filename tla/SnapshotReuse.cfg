SPECIFICATION RetentionSpec
CONSTANTS
  d1 = d1
  Versions = {1, 2}
  SnapshotReaders = {d1}
  Rewinds = TRUE
  MaxMishaps = 1
INVARIANT UploadsProtected
