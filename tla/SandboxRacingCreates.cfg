SPECIFICATION Spec
CONSTANTS
  Procs = {p1, p2}
  p1 = p1
  p2 = p2
  a = a
  a1 = a1
  Names = {a}
  FreshIds = {a1}
  TTLs = {0}
  TicksPerSecond = 1
  MaxTime = 1
  MaxInc = 2
SYMMETRY Symmetry
INVARIANTS CreatorsIsolated
