\* One entry, two requests, two records one after the other, two targets.
SPECIFICATION Spec
CONSTANTS
    Entry = {e1}
    Dlq = {d1}
    Target = {t1, t2}
    Request = {q1, q2}
    MaxRecord = 2
    MaxFaults = 1
    None = None
SYMMETRY Symmetry
INVARIANTS
    AckedHasCopy
    OneCopy
    OneReplay
    
PROPERTIES
    TerminalIsFinal
\* With every record id in use the instance may stop.
CHECK_DEADLOCK FALSE
