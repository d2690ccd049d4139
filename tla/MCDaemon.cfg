CONSTANTS
    a = a  b = b  website = website  notes = notes
    Clients = {a, b}
    Roots = {website, notes}
    Authorized <- MCAuthorized
    RootOf <- MCRootOf
    Attempts <- MCAttempts
    MaxArrivals = 2
    MaxCrashes = 1
SPECIFICATION Spec
INVARIANTS AttemptsInOrder PlansAreFresh AuthorizedOnly
PROPERTIES KeepsAccepting
CHECK_DEADLOCK FALSE
