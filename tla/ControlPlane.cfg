SPECIFICATION PlaneSpec
CONSTANTS
    c1 = c1 c2 = c2 k1 = k1 o1 = o1 o2 = o2 d1 = d1 h1 = h1 q1 = q1
    Conn = {c1, c2}
    ClusterId = {k1}
    DeviceId = {d1}
    Org = {o1, o2}
    Host = {h1}
    Req = {q1}
    Handshake <- MCHandshake
    Route <- MCRoute
    DevMode = FALSE
    None = None
    b1 = b1 g1 = g1 w1 = w1 w2 = w2
    Browser = {b1}
    Stranger = {g1}
    Site = {h1}
    Tenant = {o1, o2}
    Pass = {w1, w2}
    Handoff = 1
    SessTTL = 1
    UnlockTTL = 2
    Minute = 2
    MaxTries = 1
    MaxKeys = 1
    MaxClock = 5
    NoOne = NoOne
    r1 = r1 r2 = r2 r3 = r3
    Run = {r1, r2, r3}
    MaxRetry = 1
    NoRun = NoRun
    a1 = a1 a2 = a2 a3 = a3 s1 = s1 s2 = s2 x1 = x1 x2 = x2
    Call = {a1, a2, a3}
    Svc = {s1, s2}
    Key = {x1, x2}
    NoCall = NoCall
    u1 = u1 u2 = u2
    Update = {u1, u2}
    MaxImage = 3
INVARIANTS PlaneTypeOK DirectoryExact NoStaleForward    PinsAreBacked 
  
CHECK_DEADLOCK FALSE
