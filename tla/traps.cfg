\* Threads install, replace, acquire and uninstall, and one of them flushes.
SPECIFICATION Spec
CONSTANTS
    t1 = t1
    t2 = t2
    t3 = t3
    Threads = {t1, t2, t3}
    Names = {n1, n2}
    Sas = {s1}
    NoName = NoName
    NoSa = NoSa
    Ops <- Mixed
    MaxEntries = 3
CHECK_DEADLOCK FALSE
INVARIANTS EntriesSound OnlyOnce
PROPERTIES WaitersGoOn
