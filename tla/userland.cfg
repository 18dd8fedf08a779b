\* Packets in any order, repeated and with gaps larger than the window, up to the last number; three threads use, query, update and remove two SAs.
SPECIFICATION StackSpec
CONSTANTS
    Modulus = 16
    window_size = 4
    Threads = {t1, t2, t3}
    SAs = {x, y}
    NoThread = NoThread
    NoSA = NoSA
    Ops = {"use", "query", "remove", "flush"}
CHECK_DEADLOCK FALSE
INVARIANTS WindowSound ManagerSound
PROPERTIES ExclusiveUse RemovalEnds
