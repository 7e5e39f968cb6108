SPECIFICATION Spec
CONSTANTS
  N = 2
  MaxEvents = 3
INVARIANTS
  StoppedMachineIsStill
  StoppedForAReason
  WorkOutlivesNoCall
PROPERTIES
  IoGetsTheMutex
  PauseReturns
  InterruptsGetTaken
