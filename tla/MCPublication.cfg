SPECIFICATION PubSpec
CONSTANTS
    alice = alice
    ALICE = ALICE
    bob = bob
    a1 = a1
    a2 = a2
    s1 = s1
    b1 = b1
    Id = {ALICE, bob}
    WebId = {alice, bob}
    NoWebId = NoWebId
    Normal <- MCNormal
    Resource = {1}
    Checker = Checker
    Probe = {}
    Ttl = 2
    FailClosed = TRUE
    MaxTime = 2
    Push = {s1, b1}
    Author <- MCAuthor
    NoPush = NoPush
INVARIANTS
    PubTypeOK
    OneHandlerRuns
    StoredWasMember
CHECK_DEADLOCK FALSE
