SPECIFICATION Spec
CONSTANTS
    Processes = {p1, p2, p3}
    Nobody = Nobody
    MaxRecords = 3
    MaxPowerLosses = 1
SYMMETRY AnyProcess
CHECK_DEADLOCK FALSE
INVARIANTS
    TornOnlyAtEnd
    ReturnedStayOnRecord
    ReturnedAreDurable
