SPECIFICATION SessionsSpec
CONSTANTS
    Initiator = initiator
    Responder = responder
    x = x
    y = y
    Strategies = {x, y}
    CandidateLists <- MCOffers
    Factories = {y}
    DirectStrategies = {x}
    ReceiveLimit = 2
    MaxRounds = 1
    Nothing = Nothing
    RequestIds = {1}
    Methods = {"v1", "status"}
    MaxConcurrent = 2
    Burst = 1
    MaxRequests = 2
    MaxFrames = 1
    MaxRefill = 1
    Breaks = FALSE
    Interrupts = TRUE
    NoId = Nothing
INVARIANTS
    SelectionSafe
    SolverSafe
    PathsOwned
    ClientSafe
    ServerAnswers
CHECK_DEADLOCK FALSE
