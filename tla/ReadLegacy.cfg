CONSTANTS
    MinutesPerHour = 2
    MaxMinute = 3
    BufferRows = 1
    RetentionHours = 1
    ReprocessMargin = 0
    RollHoursPerTick = 2
    BackfillHoursPerStep = 1
    BackfillScanHours = 2
    PurgeHoursPerStep = 2
    LegacyHours = 1
    MaxProcesses = 2
    MaxFaults = 0
SPECIFICATION ReadSpec
INVARIANTS
    HistoryExact
    RefusedOnlyAtCutHours
    ActivityExact
    ReportAgrees
PROPERTIES
    ObservedIsFinal
    ImplementsLedger
