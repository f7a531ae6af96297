SPECIFICATION PubSpec
CONSTANTS
    alice = alice
    ALICE = ALICE
    bob = bob
    a1 = a1
    a2 = a2
    s1 = s1
    b1 = b1
    Id = {alice}
    WebId = {alice}
    NoWebId = NoWebId
    Normal <- MCNormal
    Resource = {1}
    Checker = Checker
    Probe = {}
    Ttl = 1
    FailClosed = TRUE
    MaxTime = 3
    Push = {a1}
    Author <- MCAuthor
    NoPush = NoPush
PROPERTIES
    RevocationReachesTheStore
CHECK_DEADLOCK FALSE
