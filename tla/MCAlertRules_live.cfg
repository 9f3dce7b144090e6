\* One rule with its own webhook and a routed destination, one incident id, and
\* contents that are switched off.
SPECIFICATION FairSpec
CONSTANTS
    None = None
    Rule = {1}
    Incident = {i1}
    Editor = {e1}
    Destination = {d1}
    RuleInput <- Switched
    Horizon = 1
    MaxFaults = 1
INVARIANTS
    NotifiedMeansEnqueued
PROPERTIES
    FiringIsAnnounced
    RecoveryResolves
\* With every incident id in use the instance may stop.
CHECK_DEADLOCK FALSE
