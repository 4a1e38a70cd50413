SPECIFICATION Spec
CONSTANTS
    None = None
    api = api
    api2 = api2
    t1 = t1
    Conversations = {c1}
    Telegram = {c1}
    MessageIds = {m1, m2, m3}
    Keys = {}
    Tasks = {t1, t2}
    Processes = {api}
    Api = {api}
    ProcessOf <- OneProcess
    MaxRetries = 1
    MaxReuses = 0
    MaxRestarts = 1
SYMMETRY Symmetry
INVARIANTS
    UniqueSequences
    PreviewIsNewest
    RetryBudget
    PendingIsInFlight
    ShownIsStored
PROPERTIES
    IsALog
    SentIsFinal
CHECK_DEADLOCK FALSE
