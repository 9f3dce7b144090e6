\* A request that fails and is retried, and one that only fills the pages.
SPECIFICATION Spec
CONSTANTS
    Trace = {1, 2}
    SpanId = {"root", "work"}
    Root = "root"
    Event <- Reported
    Batch <- Batches
    Client = {c1, c2}
    Limit = 1
    Retention = 0
    MaxClock = 1
    None = None
SYMMETRY ClientSymmetry
INVARIANTS
    TimesAreExtremes
    FinalAttemptStands
    ListedOnce
