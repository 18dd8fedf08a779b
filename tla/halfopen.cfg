\* Initial messages, retransmits and timeouts at the limits, while the address of a peer may change.
SPECIFICATION FairSpec
CONSTANTS
    Threads = {t1, t2}
    Ips = {ip1, ip2}
    Inits = {m1, m2}
    Source <- OnePeerEach
    Spis = {spi1, spi2}
    m1 = m1
    m2 = m2
    m3 = m3
    ip1 = ip1
    ip2 = ip2
    NoThread = NoThread
    NoSpi = NoSpi
    NoIp = NoIp
    NoInit = NoInit
    block_threshold = 2
    init_limit_half_open = 3
    ikesa_limit = 1
    MaxMoves = 1
    MaxJobs = 2
INVARIANTS BooksExact HalfOpenLimited
PROPERTIES HalfOpenEnds
