SPECIFICATION FairSpec
CONSTANTS
    Sizes <- MCSizes
    SndBuf = 2
    MaxPerRead = 2
    MaxRequests = 3
INVARIANTS
    TypeOK
    InOrder
    WriteReqsOwned
    ConnOutlivesUse
    CloseAnnounced
    Answered
PROPERTIES
    StreamSpec
    AnswersSent
    Reclaimed
