SPECIFICATION Spec
CONSTANTS
    Radix = 8
    MaxVarint = 3
    LastGroup = 1
    FixedBytes = 1
    MaxFrame = 16
    MaxPath = 3
    MaxComponents = 2
    BufferSize = 8
    MaxSent = 3
    Messages <- MCMessages
    RawStreams <- MCRawStreams
INVARIANTS
    TypeOK
    Reassembled
    Canonical
