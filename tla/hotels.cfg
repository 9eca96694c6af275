SPECIFICATION MCSpec
CONSTANTS
    Tenants = {inn, palace}
    Undecryptable = {}
    Commands = {deploy, cron}
    Operators = {admin}
    MaxRelease = 2
    Fleet = {web1, web2}
    MaxMessages = 2
    Strangers = {}
    Servers = {s1, s2}
    Batches = {{inn, palace}}
    PerMinute = 1
    MaxToggles = 2
    MaxFaults = 1
    Threads = {t1, t2}
    Texts = {a, b, c}
    Limit = 2
    MaxChunks = 3
SYMMETRY Alike
INVARIANTS
    Types
    ZeroIsHonest
    FailuresAreLocal
    RegisteredIsMigrated
    MigrationsCompose
    ServersGoOn
    WindowIsKnown
    AcknowledgedMeansStored
    KeepsTheMostRecent
    EveryChunkHasItsRow
CHECK_DEADLOCK FALSE
