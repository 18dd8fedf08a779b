\* Three threads, two of them reserved for critical jobs, until all are canceled.
SPECIFICATION DispatchSpec
CONSTANTS
    Workers = {w1, w2, w3}
    Jobs = {scheduler, repeated, stuck, shared}
    SchedulerJob = scheduler
    repeated = repeated
    stuck = stuck
    shared = shared
    NoJob = NoJob
    Prios = 2
    Priority <- MCPriority
    Kind <- MCKind
    Direct = {shared}
    Cancelable = {scheduler, stuck, shared}
    PrioThreads <- Reserve
    Counts = {3}
    MaxTime = 1
    Scheduled = {repeated, stuck, shared}
    Queued = {stuck}
CHECK_DEADLOCK FALSE
INVARIANTS JobsSound NobodyOversleeps ReservedThreads
PROPERTIES FiresInOrder JobFires CancelCompletes
