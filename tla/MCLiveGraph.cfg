SPECIFICATION Spec
CONSTANTS
    Facts = {f1, f2}
    Promoters = {p1, p2}
    Reloaders = {r1}
    Readers = {d1}
    Mortal = {p1, p2, r1}
    MaxGen = 2
    MaxFaults = 1
INVARIANTS LiveSafe
PROPERTIES ReadsUndisturbed
