\* Up to five entries in pages of two and replies of three, three changes.
CONSTANTS
    NNames = 5
    PageSize = 2
    ReplySize = 3
    MaxChanges = 3
SPECIFICATION ListFairSpec
INVARIANTS NothingMissed NothingTwice
PROPERTIES CallEnds
CHECK_DEADLOCK FALSE
