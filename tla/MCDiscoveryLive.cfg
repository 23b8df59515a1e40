SPECIFICATION DiscoverySpec
CONSTANTS
    Pollers = {p1}
    Resolvers = {r1, r2}
    Hosts = {h1, h2}
    Self = self
    NoTask = NoTask
    Task <- MCTask
PROPERTIES
    StopReturns
    DiscoverEnds
CHECK_DEADLOCK FALSE
