SPECIFICATION Spec
CONSTANTS
    Released <- MCReleased
    MaxReleases = 1
    MaxCrashes = 1
INVARIANTS
    Equipped
    StaleOnlyBehindPins
    NoDuplicates
PROPERTY RunsComplete
CHECK_DEADLOCK FALSE
