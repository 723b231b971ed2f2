SPECIFICATION Spec
CONSTANTS
    Credentials = {c1, c2, c3}
    AttemptIDs = {a1, a2, a3}
    Reasons = {"success", "carrier_error"}
    Packets = {1, 2}
    Interval = 1
    HourWindow = 2
    HourLimit = 2
    DayWindow = 3
    DayLimit = 2
    DayPackets = 3
    CampaignWindow = 1
    CampaignLimit = 1
    FailureLimit = 2
    CampaignFailureLimit = 1
    Horizon = 1
    Skew = 1
    MaxRecords = 5
    MaxTime = 2
    MaxInstances = 2
    None = None
SYMMETRY Sym
INVARIANTS
    TypeOK
    BurnOnce
    JournalReadable
    CrashNeverForgives
    BudgetNeverExceeded
CHECK_DEADLOCK FALSE
