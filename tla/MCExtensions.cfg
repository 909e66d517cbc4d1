\* One extension and its restarts, two calls, two catalogs, a runtime with one mutation,
\* one execution of two steps, one nested job.
CONSTANTS
    AttemptMax = 1
    ChannelMax = 2
    GenMax = 2
    Call = {c1, c2}
    GlobalMax = 2
    LocalMax = 2
    UnresolvedMax = 1
    CatalogMax = 2
    Extension = {e1, e2}
    Tool = {a}
    Schema = {s1, s2, bad}
    BadSchema = bad
    TotalMax = 1
    RegistryGens = 2
    Mutation = {m}
    Watcher = w
    MissedMax = 2
    Confirmations = 2
    FaultMax = 1
    StepCount = 2
    Run = {x1}
    NoRun = NoRun
    Mutating = {1}
    Retried = {0}
    Intent = {0}
    RetryMax = 1
    NoWorker = NoWorker
    Job = {j1}
    Nested = {j1}
    Deadlined = {}
    MaxRunning = 1
    Launches = 3
    MaxFault = 1
SPECIFICATION ServicesSpec
CHECK_DEADLOCK FALSE
INVARIANTS
    ExtensionsSound
    CallsSound
    RuntimeSound
PROPERTIES
    NoForbiddenStep
    ServicesEnd
