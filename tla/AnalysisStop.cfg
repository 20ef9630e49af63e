SPECIFICATION LoopsSpec
CONSTANTS
  w1 = w1
  w2 = w2
  a = a
  b = b
  c = c
  None = None
  Workers <- MCWorkers
  Mortal <- MCMortal
  MaxAttempts = 1
  MaxFaults = 0
  Lanes <- MCLanes
  WorkerOf <- MCWorkerOf
INVARIANT StopWaits
