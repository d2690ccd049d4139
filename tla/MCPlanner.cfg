SPECIFICATION Spec
CONSTANTS
    Capacity = 1
    SourceIndexes <- MCSourceIndexes
    DestinationIndexes <- MCDestinationIndexes
INVARIANTS
    PlanOrdered
    OnlyTheDifference
    NothingHeldBack
PROPERTIES
    PlanEnds
