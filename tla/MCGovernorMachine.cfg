SPECIFICATION Spec
CONSTANTS
    PeerIDs = {i1, i2}
    PeerLeases = {p1, p2}
    AttemptIDs = {a1, a2}
    Leases = {l1, l2}
    Costs = {1}
    MaxActivePeers = 2
    MaxActiveAttempts = 2
    MaxAttemptsPerPeer = 1
    MaxPerAttempt = 1
    MaxReserved = 2
    MaxHeavyweight = 0
    MaxDrains = 1
    LoopbackAllowed = TRUE
    TripOnLimit = TRUE
    GovernorClose = GovernorClose
    TripDrain = TripDrain
    None = None
SYMMETRY Sym
INVARIANTS
    TypeOK
    ReservationExact
    RegistryExact
    TripStopsEverything
    ClosedMeansQuiescent
    OkVerdictMeansFinished
    OneAttemptDrained
PROPERTIES
    NoAdmissionWhileFinalizing
CHECK_DEADLOCK FALSE
