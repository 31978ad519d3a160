SPECIFICATION ServicesSpec
CONSTANTS
    Dates = {1, 2}
    Minutes = {1, 2}
    MaxRows = 3
    Cmds = {c1, c2}
    NoLoop = NoLoop
    t1 = t1
    t2 = t2
    t3 = t3
    r1 = r1
    r2 = r2
    Requests = {r1, r2}
    Targets = {t1, t2, t3}
    Direct = {t3}
    Inputs <- MCInputs
    MaxProbes = 1
    Nobody = Nobody
    HoldingsProcs = {h1, h2}
    HoldingsRequests <- MCHoldingsRequests
    DryRequests <- MCDryRequests
    WindowRequests <- MCWindowRequests
    AssetRequests <- MCAssetRequests
    ServiceRows <- MCServiceRows
    FirstService <- MCFirstService
    Unsteady = {1, 3, 4, 7}
    MonthDays = 3
    LastHoldDay = 22
    DefaultEndMonth = 7
    WindowMonths = 3
    StockCount = 2
    AShares = {"a", "b"}
    PageLimit = 2
    MaxRetries = 1
    MaxAssets = 1
    MaxChanges = 1
INVARIANTS ArchiveSafe SupervisorSafe ReasonerSafe BackfillSafe
PROPERTIES Respawned RequestsEnd
CHECK_DEADLOCK FALSE
