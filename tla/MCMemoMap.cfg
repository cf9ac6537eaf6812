\* Two callers, two keys of which one may be stored, three values.
CONSTANTS
    Keys = {k1, k2}
    Callers = {c1, c2}
    KeyLimit = 1
    MaxStores = 3
SPECIFICATION Spec
PROPERTIES
    KeepsPromise
    FreshIsPurgedLate
CHECK_DEADLOCK FALSE
