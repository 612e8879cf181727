SPECIFICATION Spec
CONSTANTS
    p1 = p1
    batch = batch
    train = train
    serve = serve
    Proposals = {p1}
    Approvals = {a1}
    Executions = {x1, x2}
    Operators = {op}
    Effective <- MCEffective
    Expires <- MCExpires
    NoOne = NoOne
    MaxNow = 1
    MaxEvents = 4
    MaxRaises = 1
    MaxCrashes = 1
    Sources = {pcc}
    Epochs = {e1, e2}
    MaxSequence = 1
    NoEpoch = NoEpoch
    Workloads = {batch, train, serve}
    Protected = {serve}
    Nominal <- MCNominal
    DeclaredFloor <- MCDeclaredFloor
    PolicyFloor <- MCPolicyFloor
    NoFloor = NoFloor
    Caps = {1, 2}
    Uncapped = Uncapped
    MaxActions = 2
    MaxPlan = 2
SYMMETRY AnyNames
CHECK_DEADLOCK FALSE
INVARIANTS
    SampleBehindEveryAuthorization
    ActsOnRecordedAuthorization
    AuditAccountsForChanges
PROPERTIES
    ChangesStayInPolicy
    SessionSpec
    OnlyForward
