SPECIFICATION StartSpec
CONSTANTS
    Codecs = {"opus", "aac"}
    NeedsConfig = {"aac"}
    MaxRetries = 1
    QueueLen = 1
    Faults = {"capture", "hang", "join", "media", "decode", "preempt"}
    MaxFaults = 1
    MaxChanges = 1
    MaxSlips = 1
    First = {"opus"}
INVARIANTS
    RevisionNamesCodec
    NoForeignAudio
    RuntimeHonest
PROPERTIES
    SwitchSettles
    Converges
    Plays
CHECK_DEADLOCK FALSE
