CONSTANTS
    MinutesPerHour = 1
    MaxMinute = 3
    BufferRows = 1
    RetentionHours = 1
    ReprocessMargin = 1
    RollHoursPerTick = 1
    BackfillHoursPerStep = 1
    BackfillScanHours = 1
    PurgeHoursPerStep = 1
    LegacyHours = 1
    MaxProcesses = 1
    MaxFaults = 1
SPECIFICATION FairSpec
PROPERTIES
    QueueDrains
    ClosedHoursRolled
    BackfillCompletes
