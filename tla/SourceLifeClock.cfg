\* A clock that is set back once: which minutes get a row, and only once.
CONSTANTS
    MINUTE = 2
    StaleAfter = 2
    ClockStepBack = 0
    NSources = 1
    Profiles = {}
    Values = {}
    Starts = {0}
    MaxTime = 5
    MaxEvents = 4
    MaxSteps = 1
SPECIFICATION Spec
INVARIANT RowsMatchLife
PROPERTY ClosedMinutesStayClosed
