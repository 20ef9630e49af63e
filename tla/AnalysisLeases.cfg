SPECIFICATION LoopsSpec
CONSTANTS
  w1 = w1
  w2 = w2
  a = a
  b = b
  c = c
  None = None
  Workers <- MCWorkers
  Mortal <- MCMortal
  MaxAttempts = 2
  MaxFaults = 2
  Lanes <- MCLanes
  WorkerOf <- MCWorkerOf
INVARIANT AgreementOfLoops
INVARIANT StartsBounded
PROPERTY JobEnds
PROPERTY StaleNeverWrites
PROPERTY EndedForGood
