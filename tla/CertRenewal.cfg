SPECIFICATION CertSpec
CONSTANTS
    Lifetime = 2
    Threshold = 1
    Horizon = 4
    MaxCA = 0
    MaxEnroll = 3
    MaxMishaps = 0
    NoCert = NoCert
INVARIANTS NeverExpires
CHECK_DEADLOCK FALSE
