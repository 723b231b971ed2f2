SPECIFICATION EndsSpec
CONSTANTS
    Initiator = initiator
    Responder = responder
    x = x
    y = y
    Strategies = {x, y}
    CandidateLists <- OneOffer
    Factories = {y}
    DirectStrategies = {x}
    ReceiveLimit = 1
    MaxRounds = 1
    Nothing = Nothing
    RequestIds = {1}
    Methods = {"v1", "v2", "status"}
    MaxConcurrent = 2
    Burst = 1
    MaxRequests = 2
    MaxFrames = 1
    MaxRefill = 1
    Breaks = FALSE
    Interrupts = TRUE
    NoId = Nothing
PROPERTIES
    WaitersReturn
    OwnersReturn
    BothGiveUp
CHECK_DEADLOCK FALSE
