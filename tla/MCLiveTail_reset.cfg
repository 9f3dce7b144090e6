\* Two clients, two streams and a limit of one worker, over a reset.
SPECIFICATION Spec
CONSTANTS
    Key = {k1, k2}
    Client = {c1, c2}
    Worker = {1, 2}
    MaxWorkers = 1
    Capacity = 1
    PageSize = 2
    MaxEntries = 2
    MaxResets = 1
    None = None
INVARIANTS
    StreamIsContiguous
    ReadersWithinLimit
PROPERTIES
    NobodyReadsForNobody
