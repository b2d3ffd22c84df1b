SPECIFICATION ProvSpec
CONSTANTS
    g1 = g1 g2 = g2 a = a a1 = a1
    Procs = {g1, g2}
    Names = {a}
    FreshIds = {a1}
    TTLs = {0}
    TicksPerSecond = 1
    MaxTime = 1
    MaxInc = 2
    b1 = b1 b2 = b2 p1 = p1 p2 = p2 t1 = t1 t2 = t2
    Build = {b1, b2}
    Proj = {p1, p2}
    Tag = {t1, t2}
    Root = Root
    NoBuild = NoBuild
SYMMETRY Symmetry
INVARIANTS ProvTypeOK CreateIsolation 
PROPERTIES RollbackOwn
CHECK_DEADLOCK FALSE
