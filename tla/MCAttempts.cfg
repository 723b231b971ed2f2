SPECIFICATION AttemptsSpec
CONSTANTS
    Callers = {k1, k2}
    Committer = committer
    Watcher = watcher
    CarrierReasons = {"success", "carrier_error"}
    ContextErrors = {"expired"}
    ForeignTrips = FALSE
    Loopback = FALSE
    None = None
    Socks = {sock1, sock2}
    Targets = {x}
    MaxSockets = 2
    MaxTargets = 1
    MaxTuples = 2
    MaxPackets = 1
    MaxRate = 1
    WriteFailureLimit = 1
    Faulty = FALSE
    NoSock = None
    MaxFaults = 1
    AnyDevice = FALSE
    NoPhase = None
    Forms = {"stdio", "field"}
    Cancels = {"i"}
    Expiries = {}
    MaxRunFaults = 1
    MaxLost = 0
SYMMETRY Sym
INVARIANTS
    AdmissionSafe
    AttemptsAgree
    SocketsAccounted
    ObserveSafe
    ConfirmedFinish
    RunSafe
    HandOverSafe
    RunsLeaveNothing
CHECK_DEADLOCK FALSE
