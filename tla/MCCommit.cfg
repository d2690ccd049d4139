SPECIFICATION Spec
CONSTANTS
    Universe <- MCUniverseGit
    Protected = {0}
    SourceTrees <- MCSourceTrees
    LiveTrees <- MCLiveTrees
    RuleSets <- MCRuleSets
    Exclusions = {}
    MaxAttempts = 3
    MaxFaults = 1
INVARIANTS
    SettledLast
    IgnoredPreserved
    OldOrNew
    Converged
    BlockedOnly
    SecondSyncExact
