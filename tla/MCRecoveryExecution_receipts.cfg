\* Two requests race for two keys and one group, with two faults.
SPECIFICATION ExecutionSpec
CONSTANTS
    Executor = {q1, q2}
    Key = {k1, k2}
    Id = {0, 1}
    Content <- Commands
    MaxRetries = 1
    MaxMishaps = 2
SYMMETRY RequestSymmetry
INVARIANTS
    OneExecutor
    AppliedWithinRetries
PROPERTIES
    AnswersAreTrue
    UnknownIsKept
