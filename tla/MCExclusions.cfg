SPECIFICATION Spec
CONSTANTS
    Universe <- MCUniverse
    Protected = {0}
    SourceTrees <- MCSourceTrees
    LiveTrees <- MCLiveTrees
    RuleSets <- MCNoRules
    Exclusions <- MCExclusions
    MaxAttempts = 1
    MaxFaults = 0
INVARIANTS
    ExcludedLeftAlone
