SPECIFICATION AllSpec
CONSTANTS
    c1 = c1 c2 = c2 c3 = c3 c4 = c4 k1 = k1 o1 = o1
    Conn = {c1, c2, c3, c4}
    ClusterId = {k1}
    DeviceId = {}
    Org = {o1}
    Host = {}
    Req = {}
    Handshake <- MCHandshake
    Route <- MCRoute
    DevMode = FALSE
    FaultKinds = {"network", "enroll", "rotate", "revoke", "silence", "shutdown", "cancel"}
    MaxFaults = 4
    None = None
    MaxChunks = 2
    Base = 2
    Max = 20
    ResetAfter = 30
    MaxAttempts = 7
    Jitter = 3
    Width = 16
    MaxTries = 8
    Slow = 12
    Lifetime = 2
    Threshold = 1
    Horizon = 4
    MaxCA = 1
    MaxEnroll = 3
    MaxMishaps = 2
    NoCert = NoCert
INVARIANTS AllTypeOK ReenrollOnlyStale LinkFaithful 
 
CHECK_DEADLOCK FALSE
