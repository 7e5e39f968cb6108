CONSTANTS
  Slots = {s1, s2}
  Threads = {t1, t2}
  PipeSize = 1
  MaxDepth = 1
  MaxRequests = 3
  None = None
SPECIFICATION Spec
INVARIANTS
  NoStrandedRequest
  CompletionAnnounced
  CallbackInContext
PROPERTIES
  FlushDrains
  ImplementsService
