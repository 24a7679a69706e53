SPECIFICATION Spec
CONSTANTS
    LegacyFiles <- MCLegacyFiles
    Custom <- MCCustom
    FirstRow = 4
    MaxRow = 6
    MaxCrashes = 2
    MaxFailures = 1
    MaxForeign = 1
    MaxReads = 2
INVARIANTS
    CrashesLoseNothing
    BrickedOnlyByGlue
    NoRowTwice
    MigrationLosesNothing
PROPERTY
    JournalSpec
CHECK_DEADLOCK FALSE
