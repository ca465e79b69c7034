CONSTANTS
    k1 = k1
    k2 = k2
    k3 = k3
    empty = empty
    Keys <- MCKeys
    Skews <- MCSkews
    Times <- MCTimes
    MaxEntries = 2
    MaxTime = 3
SPECIFICATION MCSpec
SYMMETRY Symmetry
INVARIANTS
    HeldForItsWindow
    AcceptedOnce
    LogAnswersHold
PROPERTIES
    RefusedForLiveTags
    Refines
    DatabaseHolds
CHECK_DEADLOCK FALSE
