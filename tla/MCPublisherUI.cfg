SPECIFICATION FairSpec
CONSTANTS
    WebId = {alice, bob}
    Account = {alice}
    NoOne = NoOne
    Catalog = {good, bad}
    Malformed = {bad}
    NoCatalog = NoCatalog
    MaxJobs = 3
INVARIANTS
    TypeOK
    HeaderNamesSession
PROPERTIES
    NothingFailsSilently
