\* The comment beside Ingest.last_live_at: no life evidence while Offline.
CONSTANTS
    MINUTE = 2
    StaleAfter = 2
    ClockStepBack = 0
    NSources = 1
    Profiles = {}
    Values = {1}
    Starts = {0}
    MaxTime = 2
    MaxEvents = 4
    MaxSteps = 0
SPECIFICATION Spec
INVARIANT LifeEvidenceNotOffline
