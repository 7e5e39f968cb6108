SPECIFICATION Spec
CONSTANTS
  Named = {misc}
  Classes = {c1, c2}
  misc = misc
  c1 = c1
  c2 = c2
  WORD = 8
  Rccs = {r0, r1}
  r0 = r0
  r1 = r1
  RccReset = r0
  Garbage <- MCGarbage
  MaxCost = 2
  MaxCycles = 3
INVARIANT ClassEnergyAccumulated
