\* Two workers that keep to their timeouts and one that does not.
SPECIFICATION Spec
CONSTANTS
    Job = {j1}
    Worker = {w1, w2, w3}
    Prompt = {w1, w2}
    QueueSize = 2
    MaxAttempts = 3
    ClaimTTL = 2
    SendTime = 1
    MaxFaults = 2
    Expiring = {j1}
    None = None
SYMMETRY PromptSymmetry
INVARIANTS
    SendsAreCharged
    OneHolder
PROPERTIES
    ImplementsLedger
    OnlyOwnerEndsClaim
