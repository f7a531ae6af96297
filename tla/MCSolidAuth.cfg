SPECIFICATION FairSpec
CONSTANTS
    early = early
    again = again
    other = other
    late = late
    Proof = {early, again, other, late}
    Jti <- MCJti
    Iat <- MCIat
    Key = {k1}
    MaxAge = 2
    Capacity = 2
    MaxTime = 2
    NoProof = NoProof
INVARIANTS
    TypeOK
    AcceptedOnce
    CapacityWellSpent
PROPERTIES
    AuthEnds
