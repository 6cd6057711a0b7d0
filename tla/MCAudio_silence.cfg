SPECIFICATION StartSpec
CONSTANTS
    Codecs = {"aac"}
    NeedsConfig = {"aac"}
    MaxRetries = 3
    QueueLen = 1
    Faults = {"media"}
    MaxFaults = 1
    MaxChanges = 0
    MaxSlips = 0
    First = {"aac"}
PROPERTIES
    SilenceReported
CHECK_DEADLOCK FALSE
