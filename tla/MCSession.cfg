SPECIFICATION Spec
CONSTANTS
    Plan <- MCPlan
    SourceMessages = 3
    LocalMessages = 2
    SourceLimit = 2
    DestinationLimit = 3
    IndexWindow = 1
    Early = TRUE
INVARIANTS
    StagingBarrier
    SuccessMeansCommitted
    OnlyNotificationEarly
    ControlExpected
PROPERTIES
    AttemptEnds
    SyncCompletes
    KeepsPromise
