SPECIFICATION LabSpec
CONSTANTS
    Original = 1750
    Target = 1250
    Watts <- LabWatts
    Tolerance = 5
    MaxDrift = 1
    MayHang = TRUE
CHECK_DEADLOCK FALSE
INVARIANTS
    VerdictIsTrue
PROPERTIES
    LabImplementsContract
