SPECIFICATION Spec
CONSTANTS
    c1 = c1
    c2 = c2
    c3 = c3
    d1 = d1
    d2 = d2
    None = None
    Clients = {c1, c2, c3}
    Writers = {c1, c2}
    NumKeys = 2
    Items = {d1, d2}
SYMMETRY Symmetry
INVARIANTS
    TypeOK
    WrongNeedsRival
    IterationSeesMap
PROPERTIES
    CreateNeverReplaces
    AtomicUnlessOverlapped
