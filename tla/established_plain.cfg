\* An established IKE_SA, requests in both directions, no selective retransmission.
CONSTANTS
    I = I
    R = R
    Selective <- Neither
    Additional = 0
    ReqFrags <- Child2
    RespFrags <- Child2
    Tries = 1
    Rekeyed = TRUE
    Endings = {"close", "reject"}
    MaxRequests = 2
    AckBits = 64
SPECIFICATION FairSpec
CHECK_DEADLOCK FALSE
INVARIANTS WindowSync OutstandingSound AnswerRetained
PROPERTIES GiveUpWaitsForAnswer PromiseKept Resolved
