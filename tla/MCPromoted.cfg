SPECIFICATION Spec
CONSTANTS
    Sides = {"phase1"}
    t1 = t1
    t2 = t2
    r1 = r1
    r2 = r2
    mA = mA
    mB = mB
    c1 = c1
    c2 = c2
    Threads = {t1, t2}
    References = {r1, r2}
    MentionOf <- MCMention
    Snapshots <- MCSnapshots
    Batches <- MCBatches
    RuleEntity <- MCRule
    Extracts <- MCExtracts
    Similar <- MCSimilar
    SameBlock <- MCSameBlock
    MinScore = 800
    AutoScore = 960
    Limit = 10
    MaxJobs = 3
    Graphs <- MCGraphs
    EntityOf <- MCEntityOf
    RegimeContext <- MCRegimeContext
    Requests <- MCRequests
    MinHolders = 2
    Normalization = 2
    Crowding = 4
    MinZ = 2
    Phase1Runs = {"p", "q"}
    CanaryRuns = {"c"}
    Selection <- MCSelection
    NodeEntity <- MCNodeEntity
    Anchors = {1, 2, 3}
    Allowed = {"CO_HOLDING"}
    FirstGraphs <- MCFirst
    Channels1 = 2
    MaxReloads = 2
    MaxRuns = 2
    MaxFaults = 1
    Callers = {c1, c2}
    Days = {1, 2}
    Symbols = {"x", "y"}
    Writes <- MCWrites
    MartLoads <- MCMartLoads
    EntityTables <- MCEntityTables
    AliasTables <- MCAliasTables
    FirstZones <- MCFirstZones
    FirstTables <- MCFirstTables
    AsOf <- MCAsOf
    CandidateIds <- MCCandidateIds
    InputDay = 1
    MaxWrites = 6
    MaxCalls = 2
    MaxLoads = 2
    MaxFailures = 1
INVARIANT PromotedOnCheckedGraph
CHECK_DEADLOCK FALSE
