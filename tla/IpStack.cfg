SPECIFICATION FairSpec
CONSTANTS
    Peers <- MCPeers
    Own = "own"
    Broadcast = "broadcast"
    Foreign = "foreign"
    Hw <- MCHw
    OwnHw = "ownhw"
    Blank = "blank"
    Frames <- MCFrames
    Configs <- MCConfigs
    FifoSize = 1
    MaxFrames = 2
    MaxWrites = 1
INVARIANTS TypeOK AnswerIsForQuestion SentToAnnounced CacheIsCurrent AtMostOneAnswer
PROPERTIES KnownIsSent Drains
CHECK_DEADLOCK FALSE
