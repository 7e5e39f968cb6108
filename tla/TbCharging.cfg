SPECIFICATION ChargingSpec
CONSTANTS
  NbVPages = 1
  PPages = {p1}
  p1 = p1
  PageSize = 2
  MaxBlocks = 2
  Exits = {0}
  Branch <- MCBranch
  Maps <- MCMaps
  DmaRanges <- MCCells
  Threshold = 1
  Cost <- MCCost
  MaxCycles = 4
INVARIANTS CountCoversCode
PROPERTY LoopStartIsCharged
