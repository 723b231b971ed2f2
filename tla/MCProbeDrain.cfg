SPECIFICATION ProbeSpec
CONSTANTS
    Socks = {s1, s2}
    Targets = {x}
    MaxSockets = 2
    MaxTargets = 1
    MaxTuples = 2
    MaxPackets = 1
    MaxRate = 1
    WriteFailureLimit = 1
    Faulty = TRUE
    NoSock = NoSock
INVARIANTS
    DrainedMeansClosed
CHECK_DEADLOCK FALSE
