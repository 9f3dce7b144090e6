\* One rule with two editors and two incident ids: updates may race, and one
\* incident may be reopened while the other is in retention.
SPECIFICATION Spec
CONSTANTS
    None = None
    Rule = {1}
    Incident = {i1, i2}
    Editor = {e1, e2}
    Destination = {}
    RuleInput <- TwoExpressions
    Horizon = 1
    MaxFaults = 0
SYMMETRY TableSymmetry
INVARIANTS
    StateIncidentAgreement
    OneActiveIncident
    ResolvedNoticeIsTrue
PROPERTIES
    ChangedExpressionResets
    AcknowledgementSilences
\* With every incident id in use the instance may stop.
CHECK_DEADLOCK FALSE
