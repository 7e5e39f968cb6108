SPECIFICATION Spec
CONSTANTS
  NbVPages = 2
  PPages = {p1, p2}
  p1 = p1
  p2 = p2
  PageSize = 2
  MaxBlocks = 2
  Exits = {0, 1}
  Branch <- MCBranch
  Maps <- MCAllMaps
  DmaRanges <- MCPage
  Threshold = 1
SYMMETRY MCSymmetry
\* an emulator that crashed takes no further step
CHECK_DEADLOCK FALSE
INVARIANTS
  FindableIsFresh CodeIsProtected JumpCacheIsCurrent RunningIsMapped
  ListMatchesCode NoJumpToInvalid UnlinkStopsQuietCpu
