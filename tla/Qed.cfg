CONSTANTS
  L1Size = 2
  L2Size = 2
  Sects = 2
  CacheSize = 1
  Reqs = {r1, r2}
  Images <- MCImages
  Extents <- MCExtents
  MaxRequests = 3
  MaxCrashes = 1
  MaxErrors = 1
  None = None
SPECIFICATION Spec
INVARIANTS
  TimerWhenDrained
  RefsCounted
  TablesConsistent
  ReadsSeeWrites
  CrashSafe
PROPERTIES
  RequestsEnd
CHECK_DEADLOCK FALSE
