SPECIFICATION Spec
CONSTANTS
    Sizes <- MCSizes
    SndBuf = 2
    MaxPerRead = 2
    MaxRequests = 2
INVARIANT
    ErrorAnswerSent
