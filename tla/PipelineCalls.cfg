SPECIFICATION Spec
CONSTANTS
    PhaseCount = 2
    Repetitions = 2
    Duration = 1
    Grace = 1
    Tolerance = 0
    DurationTolerance = 0
    MaxDelay = 1
    MaxJumps = 1
    Horizon = 3
CHECK_DEADLOCK FALSE
INVARIANTS
    IdleMeansDrained
    SubmittedOnce
    ComparisonInOrder
PROPERTIES
    CallsReturn
