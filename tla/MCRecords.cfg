SPECIFICATION RecordsSpec
CONSTANTS
    Op = {o1, o2}
    Runtimes = 2
    MaxExternal = 1
    MaxWorkspace = 1
    MaxHistory = 1
    Opener = {"x1", "x2"}
    Request = {"r1", "r2"}
    Policies = {"p", "q"}
    StepCount = 2
    DeathsMax = 1
    Borrower = {"b1", "b2"}
    Planner = {"e1", "e2"}
    CatalogGens = 2
    WorldChanges = 2
    PlansMax = 3
    RouteHistory = 1
    RecentMax = 2
    Publisher = {"d1", "d2"}
    Kinds = {"workbook", "insert", "create", "overwrite"}
    OutsideMax = 1
SYMMETRY Calls
CHECK_DEADLOCK FALSE
INVARIANTS
    NoDeniedEffect
    BackupsKept
    UpgradeFenced
    StoreSound
    RoutesSound
PROPERTIES
    EvidenceKept
    
