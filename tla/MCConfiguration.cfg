SPECIFICATION Spec
CONSTANTS
    Tried = {"absent", "flag"}
    MaxEdits = 2
INVARIANTS
    TypeOK
    ProductionIsStrict
    CheckedEnvStarts
