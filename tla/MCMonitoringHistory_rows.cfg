SPECIFICATION Spec
CONSTANTS
    Stream = {x1}
    Group = {g1, g2}
    StreamOf <- OneStream
    Node = {n1}
    Consumer = {c1, c2}
    NamesOf <- OneGroupUsed
    Handler = {h1}
    Ticker = Ticker
    NodeInterval = 1
    StreamInterval = 1
    MaxStreams = 1
    MaxGroupsPerStream = 2
    MaxGroups = 2
    MaxConsumerCalls = 1
    MaxConsumersPerGroup = 2
    MaxConsumers = 1
    CallTime = 1
    Horizon = 2
    MaxChanges = 1
    MaxFaults = 1
    None = None
SYMMETRY ConsumerSymmetry
INVARIANTS
    NodeLeaveIsTrue
    NoOrphanConsumers
    CompleteMeansCurrent
PROPERTIES
    RowsNeverGoBack
    ConsumerEventsAreTrue
