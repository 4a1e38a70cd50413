SPECIFICATION FairSpec
CONSTANTS
    None = None
    Kinds = {"event", "message", "global", "presence"}
    MaxFrames = 3
    Clients = {u1, u2}
    Conversations = {c1}
    Broadcasts = {b1}
PROPERTIES
    BroadcastsEnd
    GoneClientsLeave
CHECK_DEADLOCK FALSE
