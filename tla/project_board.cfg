SPECIFICATION FairSpec
CONSTANTS
    None = None
    Projects = {p1, p2, p3}
    Existing = {p1, p2}
    Tasks = {t1, t2}
    Clients = {k1, k2}
    MaxActs = 3
INVARIANTS
    QuietBoardIsAccurate
    TasksOfProject
    ContactOfClient
PROPERTIES
    SpinnersStop
CHECK_DEADLOCK FALSE
