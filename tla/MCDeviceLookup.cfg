SPECIFICATION LookupSpec
CONSTANTS
    runner = runner
    main = main
    h1 = h1
    h2 = h2
    d1 = d1
    d2 = d2
    t1 = t1
    t2 = t2
    None = None
    Uninitialised = Uninitialised
    Unset = Unset
    Broadcast = Broadcast
    Runner = runner
    Main = main
    Clients = {runner, main}
    Writers = {runner}
    NumKeys = 2
    Items = {d1, d2}
    Hosts = {h1, h2}
    Times = {t1, t2}
    Ports = {161}
    Versions = {"V1", "UnusedV2", "V3"}
SYMMETRY Symmetry
INVARIANTS
    LatestResultKept
    PingsReachStableHosts
    RequestsReachTheirHost
CHECK_DEADLOCK FALSE
