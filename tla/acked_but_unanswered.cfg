\* All fragments of a request are acknowledged, its response is lost.
CONSTANTS
    I = I
    R = R
    Selective <- Both
    Additional = 1
    ReqFrags <- Intermediate2
    RespFrags <- Intermediate2
    Tries = 1
    Rekeyed = FALSE
    Endings = {}
    MaxRequests = 1
    AckBits = 64
SPECIFICATION FairSpec
CHECK_DEADLOCK FALSE
PROPERTY Resolved
