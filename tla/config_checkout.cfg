\* A thread that works and one that waits for each of two configurations.
SPECIFICATION Spec
CONSTANTS
    Threads = {t1, t2, t3, t4}
    Configs = {c1, c2}
    NoThread = NoThread
    NoConfig = NoConfig
    Entries = 2
    MaxCalls = 5
CHECK_DEADLOCK FALSE
INVARIANTS CheckoutSound
PROPERTIES CheckoutEnds
