SPECIFICATION FairSpec
CONSTANTS
    ObjectKinds = {"TSecretStore", "ClusterTSecretStore", "TSecret"}
    Specs <- MCSpecs
    Worlds <- MCWorlds
    Namespace = "ns"
    Wanted <- MCWanted
    MaxChanges = 1
    MaxFaults = 1
INVARIANTS TypeOK SealedStaysReadable NeverForgotten ProbeNeverShuts
PROPERTIES JudgedAsStored ConditionForetellsUse VerdictConverges GateOpens
\* Once the object is deleted and its events are handled, nothing is left to do.
CHECK_DEADLOCK FALSE
