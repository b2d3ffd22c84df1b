SPECIFICATION Spec
CONSTANTS
    Cmd = {c1, c2}
    MaxConcurrent = 1
    Req = {r1, r2}
    Sess = {s1, s2}
    SemCap = 2
    ChanCap = 2
    MaxSweeps = 1
    None = None
    Kern = {k1, k2}
    MaxKernels = 2
    NoKern = NoKern
    Execs = 2
    BufCap = 1
    MaxOut = 1
    WireCap = 1
    NoMsg = NoMsg
    FileReq = {f1, f2}
    MaxInode = 3
    Payload <- MCPayload
    Patch <- MCPatch
    x1 = x1
    x2 = x2
    Hole = Hole
    NoFile = NoFile
    ReadCap = 2
    ListCap = 2
    Lookup = {l1, l2}
    Port = {a}
    TTL = 2
    MaxFetch = 1
    MaxTime = 5
    MaxMoves = 2
    NoEntry = NoEntry
INVARIANTS  OutputWhole ShellTypeOK NothingLeaks 
PROPERTIES VerdictFinal 
CHECK_DEADLOCK FALSE
