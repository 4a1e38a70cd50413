SPECIFICATION Spec
CONSTANTS
    None = None
    Kinds = {"message", "presence"}
    MaxFrames = 2
    Clients = {u1, u2, u3}
    Conversations = {c1}
    Broadcasts = {b1, b2}
SYMMETRY Symmetry
INVARIANTS
    ReachesTheSteady
    PresenceSound
PROPERTIES
    DropsOnlyTheGone
CHECK_DEADLOCK FALSE
