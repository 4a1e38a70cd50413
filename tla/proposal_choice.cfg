SPECIFICATION FairSpec
CONSTANTS
    q1 = q1
    q2 = q2
    q3 = q3
    None = None
    Proposals <- MCProposals
    Existing <- MCExisting
    MaxActs = 2
PROPERTIES
    ChoiceIsKept
CHECK_DEADLOCK FALSE
