SPECIFICATION FairSpec
CONSTANTS
    r1 = r1
    r2 = r2
    ca1 = ca1
    ca2 = ca2
    ca3 = ca3
    ca4 = ca4
    NoCA = NoCA
    Replicas = {r1}
    CAs = {ca1, ca2}
    Lifetime = 1
    Threshold = 1
    MaxTime = 1
    MaxFaults = 0
    MaxLosses = 0
PROPERTY RotatedInTime
\* Processes that are done stay up, and the clock is bounded.
CHECK_DEADLOCK FALSE
