SPECIFICATION Spec
CONSTANTS
    Clients = {c1}
    Daemons = {d1, d2}
    Ports = {p1, p2}
    Transfers = {t1}
    AnyPort = AnyPort
    None = None
    ConfiguredPorts = {AnyPort}
    MayCrash = FALSE
INVARIANT ConnectsToItsDaemon
