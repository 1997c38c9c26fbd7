SPECIFICATION FairSpec
CONSTANTS
    Languages = {"go", "python", "ruby", "csharp", "cpp", "java", "javascript"}
    Daemons = {d1, d2}
    Ports = {p1, p2}
    Transfers = {t1}
    AnyPort = AnyPort
    None = None
    ConfiguredPorts = {AnyPort, p1}
    MayCrash = TRUE
INVARIANTS TypeOK SuccessIsHonest FailureIsHonest RunsOnOwnDaemon NoneForgotten RequestsHaveDaemon
PROPERTIES CallsReturn
