\* Which minutes get a row: one source, rejected payloads only, readings
\* that fall by one tick between threads, a process start inside a minute.
CONSTANTS
    MINUTE = 2
    StaleAfter = 2
    ClockStepBack = 1
    NSources = 1
    Profiles = {}
    Values = {}
    Starts = {0, 1}
    MaxTime = 4
    MaxEvents = 5
    MaxSteps = 0
SPECIFICATION Spec
INVARIANT
    RowsMatchLife
