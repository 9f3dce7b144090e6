\* Two jobs for a channel of one place: every job is closed some day.
SPECIFICATION FairSpec
CONSTANTS
    Job = {j1, j2}
    Worker = {w1}
    Prompt = {w1}
    QueueSize = 1
    MaxAttempts = 2
    ClaimTTL = 2
    SendTime = 1
    MaxFaults = 1
    Expiring = {}
    None = None
PROPERTIES
    EveryJobEnds
