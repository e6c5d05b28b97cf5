CONSTANTS
    MinutesPerHour = 2
    MaxMinute = 4
    BufferRows = 1
    RetentionHours = 1
    ReprocessMargin = 1
    RollHoursPerTick = 2
    BackfillHoursPerStep = 1
    BackfillScanHours = 2
    PurgeHoursPerStep = 2
    LegacyHours = 0
    MaxProcesses = 2
    MaxFaults = 1
SPECIFICATION Spec
INVARIANTS
    TypeOK
    StoresConsistent
PROPERTIES
    SettledIsFinal
    PurgeSparesUnwritten
