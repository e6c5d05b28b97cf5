SPECIFICATION Spec
CONSTANTS
    Fan = Fan
    Identity = {Fan}
    Deployments <- Upgrades
    Clients = {c1}
    MinutesPerHour = 2
    MaxMinute = 3
    MaxProcesses = 2
    MaxRevisions = 3
    MaxFaults = 0
    MaxBackSteps = 0
INVARIANTS
    DocumentsSelected
    MeaningPreserved
    OneMeaningPerVersion
    RollupMatchesTimeline
PROPERTY EffectiveIsFuture
