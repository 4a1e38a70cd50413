SPECIFICATION Spec
CONSTANTS
    None = None
    Convs = {c1, c2}
    Clients = {k1, k2}
    Known = k1
    Cached = c1
    MaxActs = 3
    MaxWork = 2
INVARIANTS
    ActiveIsInOrder
    FileGoesHome
    NewClientGoesHome
CHECK_DEADLOCK FALSE
