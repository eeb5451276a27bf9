SPECIFICATION Spec
CONSTANTS
    app = app
    side = side
    setup = setup
    db = db
    api = api
    own = own
    vdb = vdb
    vapi = vapi
    p1 = p1
    p2 = p2
    pdb = pdb
    papi = papi
    DB = DB
    None = None
    Memory = Memory
    NoPrefix = NoPrefix
    Secrets = {db, api}
    VolumeNames = {own, vdb, vapi}
    AutoVolume <- MCAutoVolume
    AppOrder <- MCAppOrder
    InitOrder <- MCInitOrder
    Paths = {p1, p2, pdb, papi}
    DefaultPath <- MCDefaultPath
    Prefixes = {NoPrefix, DB}
    Requests <- SmallRequests
    MaxChanges = 1
INVARIANTS TypeOK NothingLost FilledOnce LoadersFit UpdateIsQuiet
\* The answer to the update ends the behaviour.
CHECK_DEADLOCK FALSE
