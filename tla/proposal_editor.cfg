SPECIFICATION FairSpec
CONSTANTS
    q1 = q1
    q2 = q2
    q3 = q3
    None = None
    Proposals <- MCProposals
    Existing <- MCExisting
    MaxActs = 2
INVARIANTS
    FormGoesHome
    BusyIsWorking
PROPERTIES
    LoadsEnd
CHECK_DEADLOCK FALSE
