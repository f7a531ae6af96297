SPECIFICATION Spec
CONSTANTS
    alice = alice
    blank = blank
    Id = {alice, blank}
    WebId = {alice}
    NoWebId = NoWebId
    Normal <- MCNormal
    Resource = {1, 2}
    Checker = Checker
    Probe = {p1}
    Ttl = 2
    FailClosed = TRUE
    MaxTime = 3
INVARIANTS
    TypeOK
    RevocationBound
    AdmissionBound
    CacheFresh
    IInv
CHECK_DEADLOCK FALSE
