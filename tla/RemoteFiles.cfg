\* Two files, a reconnect and a rename, with the FUSE thread and the background task.
CONSTANTS
    Actor = {fuse, background}
    Reopener = {fuse}
    Fuse = fuse
    f1 = f1
    f2 = f2
    p1 = p1
    p2 = p2
    x = x
    y = y
    Fh = {f1, f2}
    NoFh = nofh
    Path = {p1, p2}
    PathOf <- TwoPaths
    FileAt <- TwoFiles
    MaxSession = 1
    MaxRenames = 1
    File = {x, y}
    NoFile = none
    Radix = 3
    NEpoch = 2
    MaxHandles = 2
    MaxOpens = 2
SPECIFICATION RemoteSpec
INVARIANTS  RightFile RightFileOrStale
PROPERTIES TableSpec
CHECK_DEADLOCK FALSE
