SPECIFICATION Spec
CONSTANTS
    Plan <- MCPlan
    SourceMessages = 3
    LocalMessages = 2
    SourceLimit = 2
    DestinationLimit = 2
    IndexWindow = 1
    Early = FALSE
INVARIANTS
    CloseDiscardsNothing
