SPECIFICATION FairSpec
CONSTANTS
    None = None
    api = api
    api2 = api2
    t1 = t1
    Conversations = {c1, c2}
    Telegram = {}
    MessageIds = {m1, m2}
    Keys = {k1}
    Tasks = {t1, t2}
    Processes = {api, api2}
    Api = {api}
    ProcessOf <- TwoProcesses
    MaxRetries = 0
    MaxReuses = 1
    MaxRestarts = 0
INVARIANTS
    OneRowPerKey
    SentWasAccepted
PROPERTIES
    InboundReachesAgent
CHECK_DEADLOCK FALSE
