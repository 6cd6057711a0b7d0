SPECIFICATION FairSpec
CONSTANTS
    Options = {"a"}
    QueueLimit = 1
    MaxCalls = 2
    MaxChanges = 1
    WireLimit = 1
PROPERTIES ImplementsCalls Answered UiCurrent EndSeen
CHECK_DEADLOCK FALSE
