SPECIFICATION FairSpec
CONSTANTS
    r1 = r1
    r2 = r2
    Startup = Startup
    Request = {r1, r2}
    RawWait <- MCRawWait
    StartupWait = 3
    StartupRetry = 2
INVARIANTS
    TypeOK
    ServesAfterContact
    GivesUpLate
    ReadyWasTrue
PROPERTIES EventuallyServes
CHECK_DEADLOCK FALSE
