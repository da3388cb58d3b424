\* Every operation that flushes first, with requests applied late by the server.
CONSTANTS
    Actor = {fuse, background}
    Fuse = fuse
    Background = background
    Reopener = {fuse}
    Fh = {f1}
    AppendFh = {}
    Ops = {"open", "write", "fsync", "read", "stat", "truncate"}
    Size <- UnitSizes
    MaxWrites = 1
    MaxPerHandle = 2
    MaxTotal = 2
    MaxSession = 1
    LateWrites = TRUE
    DrainLimit = 2
    MaxAge = 2
    MaxElapse = 2
SPECIFICATION FairSpec
PROPERTIES  OperationEnds RetentionBounded
