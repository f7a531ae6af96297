SPECIFICATION Spec
CONSTANTS
    a = a
    d1 = d1
    d2 = d2
    t1 = t1
    t2 = t2
    j1 = j1
    j2 = j2
    j3 = j3
    None = None
    Waiting = Waiting
    Error = Error
    Name = {a}
    WebId <- MCWebId
    Dataset = {d1, d2}
    Title = {t1, t2}
    Snapshot <- MCSnapshot
    Filter = {t1}
    Job = {j1, j2, j3}
    MaxPublish = 2
INVARIANTS
    TypeOK
    TableIsCurrent
    EachOwnsItsGraph
    RefreshedPageShowsIndex
SYMMETRY Symmetry
CHECK_DEADLOCK FALSE
