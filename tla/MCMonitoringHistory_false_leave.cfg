SPECIFICATION Spec
CONSTANTS
    Stream = {x1}
    Group = {g1}
    StreamOf <- OneStream
    Node = {n1}
    Consumer = {c1}
    NamesOf <- OneGroupUsed
    Handler = {h1}
    Ticker = Ticker
    NodeInterval = 1
    StreamInterval = 1
    MaxStreams = 1
    MaxGroupsPerStream = 1
    MaxGroups = 1
    MaxConsumerCalls = 1
    MaxConsumersPerGroup = 2
    MaxConsumers = 1
    CallTime = 1
    Horizon = 2
    MaxChanges = 0
    MaxFaults = 1
    None = None
PROPERTIES
    GroupLeaveIsTrue
