SPECIFICATION Spec
CONSTANTS
    r1 = r1
    r2 = r2
    user = user
    password = password
    x = x
    y = y
    k1 = k1
    k2 = k2
    Replicas = {r1, r2}
    LeaderElect = TRUE
    SecretKeys = {user, password}
    RemoteKeys = {x, y}
    KeyNames = {k1, k2}
    MaxGen = 2
    MaxVersion = 2
    MaxKeyVersion = 1
    MaxFaults = 2
    Items <- MCItems
    EncRef <- MCEncRef
SYMMETRY Symmetry
INVARIANTS TypeOK AllOrNothing SyncedIsBacked StatusMatchesTarget NeverForgotten
PROPERTIES TargetNeverRegresses SyncedGenMonotone ImplementsMirror
\* Once the TSecretSync is deleted and its events are handled, nothing is left to do.
CHECK_DEADLOCK FALSE
