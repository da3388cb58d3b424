\* Two mounts by two names of a server that restarts, next to `quicfs-server fingerprint`.
CONSTANTS
    IdProc = {server, fingerprint}
    Server = server
    Key = {k1, k2}
    Absent = absent
    Emptied = emptied
    Mount = {m1, m2}
    Host = {h1, h2}
    None = none
    MaxStarts = 3
    MaxRotations = 1
SYMMETRY Symmetric
SPECIFICATION Spec
INVARIANTS PinsKept OnePinPerHost IdentityReused RestartKeepsPins
PROPERTIES KeyNeverChanges
CHECK_DEADLOCK FALSE
