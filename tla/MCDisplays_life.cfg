SPECIFICATION FairSpec
CONSTANTS
    MaxDisplays = 2
    Csds = 2
    Slow = TRUE
    MaxResizes = 1
INVARIANTS DisplaysInv FramesDecodable
PROPERTIES ImplementsDisplays DestroyEnds
CHECK_DEADLOCK FALSE
