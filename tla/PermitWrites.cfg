SPECIFICATION PermitsSpec
CONSTANTS
  c1 = c1
  c2 = c2
  c3 = c3
  o1 = o1
  s1 = s1
  s2 = s2
  Calls = {c1, c2, c3}
  Owners = {o1}
  Resources = {s1, s2}
  OwnerOf <- OneOwner
  ResourceOf <- TwoSessions
  Running = 1
  Waiting = 1
  OwnerActive = 2
  OwnerWaiting = 1
  Exclusive = TRUE
  WaitTime = 2
  Lease = 2
  Margin = 1
  Lag = 4
  ra = ra
  rb = rb
  rc = rc
  n1 = n1
  n2 = n2
  Requests = {ra, rb, rc}
  Namespaces = {n1, n2}
  NamespaceOf <- NsOf
  MaxBatch = 2
  MaxOutstanding = 2
  MaxCancels = 1
INVARIANT ServedInOrder
PROPERTIES NoSupersededWrite EveryCallAnswered ImplementsStore EveryChangeAnswered
