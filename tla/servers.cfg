SPECIFICATION MCSpec
CONSTANTS
    Tenants = {inn, palace}
    Strangers = {nobody}
    Seeded = {inn}
    Servers = {s1}
    Celery = {k1}
    Batches = {{palace, nobody}, {inn, palace}}
    PerMinute = 1
    MaxToggles = 2
    MaxFaults = 1
    Starting = {web1, web2, web3}
    MaxDeaths = 2
    MaxCount = 2
    MaxChanges = 3
    MaxDrops = 2
    MaxFailures = 1
    Blank = Blank
    Limit = 5
    MaxLength = 10
    MaxAttempts = 2
    MaxChunks = 3
    Workers = {w1, w2}
    Chunks = 1
    CallbacksWait = TRUE
    MaxErrors = 2
    ErrorKinds = {"crash", "commit"}
INVARIANTS
    Types
    ServesASeededHotel
    SplitIsFaithful
    IdsInSendOrder
    CopiesAreJustified
    FailureIsDiagnosable
PROPERTIES
    BatchesArrive
    ScansAreIsolated
    SeedingSucceeds
    BadgeCatchesUp
    SendingEnds
    ContractKept
CHECK_DEADLOCK FALSE
