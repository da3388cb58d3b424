\* A clean shutdown, next to a FUSE thread that goes on and the background task.
CONSTANTS
    Actor = {fuse, background, main}
    Fuse = fuse
    Background = background
    Main = main
    Reopener = {fuse, main}
    Fh = {f1, f2}
    AppendFh = {f2}
    Ops = {"open", "write"}
    Size <- UnitSizes
    MaxWrites = 1
    MaxPerHandle = 3
    MaxTotal = 3
    MaxSession = 1
    LateWrites = FALSE
    DrainLimit = 2
    MaxAge = 2
    MaxElapse = 1
SPECIFICATION ShutdownFairSpec
INVARIANTS  AppendSentOnce
PROPERTIES ShutdownEnds
