CONSTANTS
  c1 = c1
  c2 = c2
  c3 = c3
  o1 = o1
  o2 = o2
  s1 = s1
  s2 = s2
  Calls = {c1, c2, c3}
  Owners = {o1, o2}
  Resources = {s1, s2}
  OwnerOf <- TwoOwners
  ResourceOf <- TwoSessions
  Running = 1
  Waiting = 2
  OwnerActive = 2
  OwnerWaiting = 1
  Exclusive = FALSE
  WaitTime = 1
  Lease = 3
  Margin = 1
  Lag = 0
SPECIFICATION Spec
INVARIANTS HolderCovered 
PROPERTIES GrantsInOrder ImplementsPool
