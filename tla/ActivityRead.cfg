CONSTANTS
    MinutesPerHour = 2
    MinuteValues <- Cycling
    MaxMinute = 5
    LegacyHours = 1
    MaxWideningHours = 2
    MaxStepBack = 1
SPECIFICATION Spec
INVARIANTS
    NullNeverInvents
    StoredSegmentsDecode
    WidenedIsComplete
    SummariesAdd
    ReportMatchesActivity
CHECK_DEADLOCK FALSE
