SPECIFICATION Spec
CONSTANTS
    d1 = d1
    d2 = d2
    Dps = {d1, d2}
    Emits <- TwoSources
    Clients = {c1}
    MaxTime = 4
    MaxCycle = 2
INVARIANTS HotSafe
PROPERTIES RowsNeverOlder
