SPECIFICATION Spec
CONSTANTS
    LogCap = 3
    MaxChunk = 4
    MaxWritten = 9
    PtyId = {i1}
    Pty = {p1, p2, p3}
    Caller = {k1, k2}
    PTYMaxConcurrent = 2
    NoPty = NoPty
    Client = {w1, w2}
    MaxOut = 2
    web = web db = db
    Name = {web, db}
    DependsOn <- MCDependsOn
    AutoRestart = {web}
    Api = {t1, t2}
    MaxInst = 3
    MaxCalls = 2
    maxCrashesInWindow = 2
    Nobody = Nobody
INVARIANTS RuntimeTypeOK PtysAccounted StreamFaithful SupervisorRight
PROPERTIES RingIsALog RuntimeServes
CHECK_DEADLOCK FALSE
