SPECIFICATION Spec
CONSTANTS
    None = None
    Convs = {c1, c2}
    Texts = {hello, thanks}
    Media = Media
    PageSize = 2
    CacheSize = 2
    MaxMessages = 2
    MaxBubbles = 2
    MaxCalls = 1
    MaxFrames = 1
    MaxActs = 2
INVARIANTS
    EachOnceInOrder
    SubscriptionsAgree
    ShownIsTracked
    
    BubbleIsHonest
SYMMETRY Symmetric
CHECK_DEADLOCK FALSE
