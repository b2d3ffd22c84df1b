SPECIFICATION ProjectsOnly
CONSTANTS
    LogCap = 1
    MaxChunk = 1
    MaxWritten = 1
    PtyId = {i1}
    Pty = {p1}
    Caller = {k1}
    PTYMaxConcurrent = 1
    NoPty = NoPty
    Client = {w1}
    MaxOut = 1
    web = web db = db
    Name = {web}
    DependsOn <- MCDependsOn
    AutoRestart = {web}
    Api = {t1}
    MaxInst = 2
    MaxCalls = 2
    maxCrashesInWindow = 2
    Nobody = Nobody
PROPERTIES StopIsKept
CHECK_DEADLOCK FALSE
