SPECIFICATION Spec
CONSTANTS
    Languages = {"cpp"}
    Daemons = {d1, d2}
    Ports = {p1, p2}
    Transfers = {t1}
    AnyPort = AnyPort
    None = None
    ConfiguredPorts = {p1}
    MayCrash = FALSE
INVARIANTS CppRunsOnOwnDaemon
