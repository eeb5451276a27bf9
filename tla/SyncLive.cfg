SPECIFICATION FairSpec
CONSTANTS
    r1 = r1
    r2 = r2
    user = user
    password = password
    x = x
    y = y
    k1 = k1
    k2 = k2
    Replicas = {r1}
    LeaderElect = TRUE
    SecretKeys = {user}
    RemoteKeys = {x}
    KeyNames = {k1}
    MaxGen = 2
    MaxVersion = 2
    MaxKeyVersion = 2
    MaxFaults = 1
    Items <- OneItem
    EncRef <- OneRef
PROPERTIES TargetConverges StatusConverges
\* Once the TSecretSync is deleted and its events are handled, nothing is left to do.
CHECK_DEADLOCK FALSE
