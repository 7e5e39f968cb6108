SPECIFICATION Spec
CONSTANT MaxTime = 6
INVARIANTS SleepNotOvercounted
