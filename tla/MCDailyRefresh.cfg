SPECIFICATION FairSpec
CONSTANTS
    Procs = {p1, p2}
    Tools = {t1}
    ToolRuns <- MCToolRuns
    Dates = {d1}
    Datasets = {a}
    Discontinued = {}
    NoProc = NoProc
    Writers <- MCWriters
    Runs <- MCWriters
    Parts <- MCParts
    NoWriter = NoWriter
    Loads <- Procs
    Pairs = 1
    NoLoad = NoLoad
    Runners <- Procs
    Versions = 2
    NoRunner = NoRunner
INVARIANTS LockSafe RawSafe MartSafe RefreshSafe
PROPERTIES RunsEnd
CHECK_DEADLOCK FALSE
