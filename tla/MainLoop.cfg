SPECIFICATION Spec
CONSTANTS
  Requests = {"reset", "powerdown", "vmstop"}
  MaxKicks = 3
INVARIANTS NoSleepOverWork AlarmAlive KickBreaksChain
PROPERTIES RequestServed AlarmServed
