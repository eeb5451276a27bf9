SPECIFICATION FairSpec
CONSTANTS
    r1 = r1
    r2 = r2
    ca1 = ca1
    ca2 = ca2
    ca3 = ca3
    ca4 = ca4
    NoCA = NoCA
    Replicas = {r1, r2}
    CAs = {ca1, ca2, ca3}
    Lifetime = 1
    Threshold = 1
    MaxTime = 2
    MaxFaults = 2
    MaxLosses = 0
INVARIANTS TypeOK BundleFitsServing ReadyMeansTrusted
PROPERTY EventuallyTrusted
\* Processes that are done stay up, and the clock is bounded.
CHECK_DEADLOCK FALSE
