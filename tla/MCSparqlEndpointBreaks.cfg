SPECIFICATION Spec
CONSTANTS
    q1 = q1
    q2 = q2
    q3 = q3
    Query = {q1}
    Text <- MCText
    Slots = 2
    MaxBody = 1
    MaxResponse = 1
INVARIANTS
    WrapsWhatWasChecked
CHECK_DEADLOCK FALSE
