\* Worker threads and a flush, which meets no thread that destroys or adds an IKE_SA.
SPECIFICATION FairSpec
CONSTANTS
    Threads = {t1, t2, t3}
    Flusher = main
    SAs = {s1, s2}
    t1 = t1
    t2 = t2
    t3 = t3
    s1 = s1
    s2 = s2
    NoThread = NoThread
    NoSA = NoSA
    SegmentCount = 2
    Row <- OneRow
    Ops <- Graded
    QuietFlush = TRUE
CHECK_DEADLOCK FALSE
INVARIANTS EntriesSound
PROPERTIES WaitingEnds ExclusiveUse
