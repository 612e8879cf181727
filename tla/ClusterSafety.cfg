SPECIFICATION Spec
CONSTANTS
    batch = batch
    query = query
    serve = serve
    train = train
    Names <- MCNames
    Priority <- MCPriority
    Gpus <- MCGpus
    Nominal <- MCNominal
    Work <- MCWork
    Endless = Endless
    MayDefer = {batch, query}
    Floors <- MCFloors
    NoFloor = NoFloor
    Uncapped = Uncapped
    Envelopes = {12, 20, 36}
    Overhead = 2
    Cooling = 100
    Reserve = 2
    RecoveryStep = 2
    Interval = 2
    NoChange = NoChange
CHECK_DEADLOCK FALSE
INVARIANTS
    ExcessIsAccountedFor
    LogExplainsCluster
PROPERTIES
    CapsAreLifted
