\* A read while the background task is sending the handle.
CONSTANTS
    Actor = {fuse, background}
    Fuse = fuse
    Background = background
    Reopener = {fuse}
    Fh = {f1}
    AppendFh = {}
    Ops = {"open", "write", "read"}
    Size <- UnitSizes
    MaxWrites = 1
    MaxPerHandle = 2
    MaxTotal = 2
    MaxSession = 1
    LateWrites = FALSE
    DrainLimit = 2
    MaxAge = 2
    MaxElapse = 2
SPECIFICATION Spec
INVARIANTS ReadYourWrites
