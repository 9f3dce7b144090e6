\* One policy, one route with up to two destinations, a fault, retention.
SPECIFICATION FairSpec
CONSTANTS
    None = None
    Incident = {i1}
    Route = {r1}
    Policy = {p1}
    Step = {s1}
    Destination = {d1, d2}
    Admin = {a1}
    Horizon = 1
    MaxSteps = 1
    MaxFaults = 1
INVARIANTS
    StepsReferToRows
PROPERTIES
    AcknowledgementEndsEscalation
    DueIsEscalated
