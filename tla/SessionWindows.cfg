SPECIFICATION SessionSpec
CONSTANTS
    p1 = p1
    p2 = p2
    Proposals = {p1, p2}
    Approvals = {a1, a2}
    Executions = {x1}
    Operators = {op}
    Effective <- MCEffective
    Expires <- MCExpires
    NoOne = NoOne
    MaxNow = 2
    MaxEvents = 8
    MaxRaises = 1
    MaxCrashes = 1
SYMMETRY AnyApprovals
CHECK_DEADLOCK FALSE
INVARIANTS
    AuthorizedWithinWindow
    RecordExplainsSession
    NothingTwice
