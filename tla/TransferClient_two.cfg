SPECIFICATION Spec
CONSTANTS
    Clients = {c1, c2}
    Daemons = {d1, d2}
    Ports = {p1, p2}
    Transfers = {t1}
    AnyPort = AnyPort
    None = None
    ConfiguredPorts = {AnyPort}
    MayCrash = TRUE
SYMMETRY MCSymmetry
INVARIANTS SuccessIsHonest FailureIsHonest
PROPERTY KeepsPromise
