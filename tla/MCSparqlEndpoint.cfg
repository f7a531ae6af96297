SPECIFICATION FairSpec
CONSTANTS
    q1 = q1
    q2 = q2
    q3 = q3
    Query = {q1, q2, q3}
    Text <- MCText
    Slots = 2
    MaxBody = 1
    MaxResponse = 1
INVARIANTS
    TypeOK
    SlotsConserved
    RowsAreBounded
    RewritingIsExact
PROPERTIES
    AdmittedIsAnswered
    AdmittedWorkRunsOut
CHECK_DEADLOCK FALSE
