SPECIFICATION Spec
CONSTANTS
    a = a
    b = b
    pa = pa
    pb = pb
    Loader = Loader
    DataKeys = {a, b}
    FileNames = {pa, pb}
    FileName <- MCFileName
    MaxGen = 2
    MaxKeyVersion = 2
    MaxFaults = 1
INVARIANT WritesEachKey
\* A pod that is injected, with no fault or change left to come, stays as it is.
CHECK_DEADLOCK FALSE
