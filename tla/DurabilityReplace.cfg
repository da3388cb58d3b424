\* Crashes at any time except between a write and its fsync; lost connections at any time.
CONSTANTS
    SyncOnClose = TRUE
    SyncMetadata = TRUE
    NWrites = 2
    MaxFiles = 4
    MaxBreaks = 3
    CrashAnywhere = FALSE
SPECIFICATION Spec
INVARIANTS    ReplaceDurable
CHECK_DEADLOCK FALSE
