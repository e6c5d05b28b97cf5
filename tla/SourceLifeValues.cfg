\* What a row holds and what is recorded beside it: two sources of a metric with two values
\* and an optional profile.
CONSTANTS
    MINUTE = 2
    StaleAfter = 3
    ClockStepBack = 0
    NSources = 2
    Profiles = {p}
    Values = {1, 2}
    Starts = {0}
    MaxTime = 4
    MaxEvents = 4
    MaxSteps = 0
SPECIFICATION Spec
INVARIANTS
    TypeOK
    LifeHasEvidence
    MeansMatchEvidence
    OptionalMatchEvidence
