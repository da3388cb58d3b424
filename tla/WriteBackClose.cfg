\* Writes of one handle that reach every limit, close, fsync and release, one reconnect.
CONSTANTS
    Actor = {fuse, background}
    Fuse = fuse
    Background = background
    Reopener = {fuse}
    Fh = {f1}
    AppendFh = {}
    Ops = {"open", "write", "flush", "fsync", "release"}
    Size <- LimitSizes
    MaxWrites = 3
    MaxPerHandle = 3
    MaxTotal = 2
    MaxSession = 1
    LateWrites = FALSE
    DrainLimit = 2
    MaxAge = 2
    MaxElapse = 1
SPECIFICATION Spec
INVARIANTS PositionedWriteAccounted SingleSender  BufferBounded
