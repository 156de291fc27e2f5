SPECIFICATION Spec
CONSTANTS
    c1 = c1
    c2 = c2
    None = None
    Clients = {c1, c2}
    Requests = {r1}
    Conns = {d1, d2, d3}
    Owner <- MCOwner
    MaxIdle = 2
    MaxDisconnects = 1
CONSTRAINT OneStrayConnection
SYMMETRY ConnSymmetry
INVARIANTS
    OneStreamPerVisitor
    NoSocketLeak
    ActiveIsCurrent
    DisconnectReachesAll
PROPERTIES
    ImplementsService
