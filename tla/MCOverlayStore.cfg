SPECIFICATION OverlaysSpec
CONSTANTS
    Plain = plain
    Event = event
    W1 = w1
    W2 = w2
    Slots <- MCSlots
    Default <- MCDefault
    Level <- MCLevel
    EventDriven <- MCEventDriven
    Entries <- MCEntries
    Schemas <- MCSlots
    WebTier <- MCEventDriven
    Writers <- MCWriters
    MaxFills = 2
    NFiles = 2
    MaxRuns = 2
    MaxCompiles = 2
SYMMETRY WriterSymmetry
INVARIANTS FillsSurvive RegenerationSafe CompiledIsValid AlertsMatchGraph
CHECK_DEADLOCK FALSE
