SPECIFICATION FairLoopSpec
CONSTANTS
    NoTask = NoTask
    a1 = a1
    a2 = a2
    p1 = p1
    p2 = p2
    ProjectTasks = {a1, a2}
    Projects = {p1, p2}
    ProjectOf <- OwnProjects
    Runners = {r1}
    MaxStops = 2
INVARIANTS
    AtMostOneMessage
    ProcessingIsExecuted
    CompletedIsDone
PROPERTIES
    DueIsExecuted
CHECK_DEADLOCK FALSE
