SPECIFICATION Spec
CONSTANTS
    Facts <- MCFacts
    FactSets <- MCFactSets
    Faults <- MCFaults
    Positions = {1, 3}
    MaxFaults = 1
    ShortTTL = 2
    LongTTL = 3
INVARIANTS FaultsPass
PROPERTIES ErrorsAreNotAbsence
