SPECIFICATION Spec
CONSTANTS
    Credentials = {c1, c2}
    AttemptIDs = {a1, a2}
    Reasons = {"success", "carrier_error"}
    Packets = {1}
    Interval = 0
    HourWindow = 1
    HourLimit = 9
    DayWindow = 1
    DayLimit = 9
    DayPackets = 9
    CampaignWindow = 1
    CampaignLimit = 0
    FailureLimit = 2
    CampaignFailureLimit = 1
    Horizon = 1
    Skew = 1
    MaxRecords = 7
    MaxTime = 1
    MaxInstances = 2
    None = None
SYMMETRY Sym
INVARIANTS
    ResetWaitsHorizon
CHECK_DEADLOCK FALSE
