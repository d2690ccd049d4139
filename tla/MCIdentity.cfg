CONSTANTS
    Processes = {p1, p2, p3}
    Fingerprints = {f1, f2, f3}
    None = None
SYMMETRY Symmetry
SPECIFICATION IdentitySpec
INVARIANTS OneIdentity ReturnedStays BothOrNeither
CHECK_DEADLOCK FALSE
