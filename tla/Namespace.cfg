\* One client, files in the root and in two directories.
CONSTANTS
    Name = {d, e}
    Leaf = {"x"}
    MaxOps = 4
    MaxUnanswered = 1
SYMMETRY AnyName
SPECIFICATION Spec
INVARIANTS  InoResolves
CHECK_DEADLOCK FALSE
