CONSTANTS
    MinutesPerHour = 1
    MaxMinute = 3
    BufferRows = 3
    RetentionHours = 1
    ReprocessMargin = 1
    RollHoursPerTick = 2
    BackfillHoursPerStep = 1
    BackfillScanHours = 2
    PurgeHoursPerStep = 2
    LegacyHours = 0
    MaxProcesses = 2
    MaxFaults = 0
SPECIFICATION Spec
INVARIANT
    PurgeNeverRefused
