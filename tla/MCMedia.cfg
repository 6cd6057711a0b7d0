SPECIFICATION FairSpec
CONSTANTS
    t1 = t1
    t2 = t2
    Threads = {t1, t2}
    Sizes = {1, 2}
    MaxFrames = 3
    MaxLosses = 1
INVARIANTS
    MediaInv
PROPERTIES
    ImplementsStream
    ShownOrOvertaken
CHECK_DEADLOCK FALSE
