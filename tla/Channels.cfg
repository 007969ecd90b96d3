SPECIFICATION Spec
CONSTANTS
    MaxId = 2
    MaxChannelId = 2
    MaxTargetPid = 2
    MaxQueueSize = 2
    MaxMessageLen = 1
    Payloads = {a}
    MaxSends = 3
INVARIANTS
    TypeOK
    NothingLost
    SenderAuthentic
    MessagesHaveReader
PROPERTIES
    ImplementsLog
