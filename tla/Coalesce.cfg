\* Writes that do not cross: they begin where another one begins, or beyond its end.
\* Frames end inside a write, and a run of three writes has two frames.
CONSTANTS
    NBytes = 6
    Offset = {0, 2, 4}
    Length = {1, 2}
    FrameSize = 3
    MaxWrites = 4
    ReadChunk = 2
    MaxRead = 5
    ReadOffset = {0, 3}
    ReadLength = {5, 6}
SPECIFICATION DataSpec
INVARIANTS  RunsAreTheChunks ReadsBack
CHECK_DEADLOCK FALSE
