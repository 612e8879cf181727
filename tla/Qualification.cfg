SPECIFICATION Spec
CONSTANTS
    MaxSkew = 1
    MinCoverage = 90
    MaxLatency = 2
    Samples = 3
    Interval = 1
    MaxAge = 2
    PacketMaxAge = 4
    MaxTime = 5
    MaxBack = 2
    MaxBuild = 2
CHECK_DEADLOCK FALSE
INVARIANTS
    ReadersAreNamed
    RoundsPairUp
    CapRestsOnQualification
