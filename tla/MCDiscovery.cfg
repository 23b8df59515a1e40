SPECIFICATION DiscoverySpec
CONSTANTS
    Pollers = {p1, p2}
    Resolvers = {r1, r2}
    Hosts = {h1, h2}
    Self = self
    NoTask = NoTask
    Task <- MCTask
INVARIANTS
    TypeOK
    StopEndsOnlyPoller
    PendingPingsDieSafely
CHECK_DEADLOCK FALSE
