SPECIFICATION CycleSpec
CONSTANTS
    Sessions = {s1, s2}
    Cycles = {1, 2}
    MaxSeq = 2
    Filters <- AllOrFirst
    MaxClock = 2
    Workers = {w1, w2}
    Bundles <- MCBundles
    ManifestOf <- MCManifestOf
    RetroTargets <- MCTargets
    HookRequests <- MCHookRequests
    BackfillRequests <- MCBackfillRequests
    Outcomes = {2}
    Dates = {0, 1}
    MaxRows = 2
    MaxRetroJobs = 2
SYMMETRY SessionSymmetry
INVARIANTS CycleSafe EvaluationsAreSound ReplayableUnlessDoubled
PROPERTIES FrozenForGood
CHECK_DEADLOCK FALSE
