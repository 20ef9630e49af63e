CONSTANTS
  a1 = a1
  a2 = a2
  b1 = b1
  bg2 = bg2
  bg = bg
  big = big
  hasty = hasty
  brief = brief
  odd = odd
  ownerA = ownerA
  ownerB = ownerB
  system = system
  t1 = t1
  t2 = t2
  Jobs = {a1, a2, b1, big, hasty, brief, bg, bg2, odd}
  OwnerOf <- OwnerMap
  TaskOf <- TaskMap
  Demands <- DemandMap
  Patient = {a1, a2, b1, big, bg, bg2}
  Fallible = {a1, bg, odd}
  MaxRows = 4
  MaxOwnerWaiting = 2
SPECIFICATION MixSpec
INVARIANT UsageWithinLimits
PROPERTIES BackgroundYields WorkConserving OwnersShare NoStarvation
