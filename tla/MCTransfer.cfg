SPECIFICATION Spec
CONSTANTS
    Chunks = 7
    Signatures = 6
    Queue = 2
    Window = 2
INVARIANTS
    WholeOrNothing
    TempOwned
PROPERTIES
    TransferStops
    TransferCompletes
