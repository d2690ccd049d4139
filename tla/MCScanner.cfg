CONSTANTS
    Universe <- MCUniverse
    Protected = {0}
    Trees <- MCTrees
    Exclusions <- MCExclusions
    GitIgnore = 1
    Contents <- MCContents
    NameBytes <- MCNameBytes
    Suffixes <- MCSuffixes
    MaxComponents = 3
    MaxPathBytes = 6
    Capacity = 2
    Faults = TRUE
SPECIFICATION Spec
INVARIANTS CanonicalOrder BeginsListing AppliesFromItsDirectory FailsForCause
PROPERTY ScanEnds
CHECK_DEADLOCK FALSE
