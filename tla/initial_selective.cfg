\* Initial exchanges, both peers with selective retransmission.
CONSTANTS
    I = I
    R = R
    Selective <- Both
    Additional = 1
    ReqFrags <- Intermediate3
    RespFrags <- Intermediate2
    Tries = 1
    Rekeyed = FALSE
    Endings = {"close"}
    MaxRequests = 1
    AckBits = 64
SPECIFICATION Spec
CHECK_DEADLOCK FALSE
INVARIANTS TypeOK TrackerCount ReassemblySound AckedWasReceived EstablishedAgreement
PROPERTIES ReassembledIsProcessed
