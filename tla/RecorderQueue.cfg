CONSTANTS
    MinutesPerHour = 1
    MaxMinute = 3
    BufferRows = 1
    RetentionHours = 1
    ReprocessMargin = 1
    RollHoursPerTick = 1
    BackfillHoursPerStep = 1
    BackfillScanHours = 2
    PurgeHoursPerStep = 1
    LegacyHours = 2
    MaxProcesses = 2
    MaxFaults = 2
SPECIFICATION Spec
INVARIANTS
    RowsAccounted
    BufferBounded
    AcknowledgedIsStored
    LostNeverStored
    BackfilledMeansMaterialized
    BackfillTargetsStored
