SPECIFICATION FairSpec
CONSTANTS
    alice = alice
    ALICE = ALICE
    bob = bob
    a1 = a1
    a2 = a2
    s1 = s1
    b1 = b1
    Id = {alice}
    WebId = {alice}
    NoWebId = NoWebId
    Normal <- MCNormal
    Resource = {1}
    Checker = Checker
    Probe = {p1}
    Ttl = 0
    FailClosed = FALSE
    MaxTime = 0
    Push = {a1, a2}
    Author <- MCAuthor
    NoPush = NoPush
INVARIANTS
    LatestAcceptedShown
PROPERTIES
    ImplementsIndex
    NobodyStarves
    HolderAdvances
CHECK_DEADLOCK FALSE
