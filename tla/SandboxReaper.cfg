SPECIFICATION FairSpec
CONSTANTS
  Procs = {p1}
  p1 = p1
  a = a
  a1 = a1
  Names = {a}
  FreshIds = {a1}
  TTLs = {0, 1}
  TicksPerSecond = 2
  MaxTime = 4
  MaxInc = 1
INVARIANTS TypeOK
PROPERTIES ServedAndReaped
