SPECIFICATION FairSpec
CONSTANTS
    None = None
    c1 = c1
    Conversations = {c1}
    Tasks = {m1, m2}
    ConvOf <- OneConversation
    Workers = {w1, w2}
    Capacity = 1
    MaxFailures = 2
    MaxRestarts = 1
INVARIANTS
    Accounted
    AutoReplyOnce
    AckedAfterWork
PROPERTIES
    TaskIsTaken
CHECK_DEADLOCK FALSE
