\* One worker that is given its task again while goroutines of the last time are left.
SPECIFICATION FairSpec
CONSTANTS
    Nodes = {n1}
    NoNode = NoNode
    RetryLimit = 1
    Tasks = {t1}
    Runs = {i1, i2}
    NoTaskId = NoTaskId
    MaxEpoch = 1
INVARIANTS
    TypeOK
    OneRunPerTask
    SpecHasGoroutine
PROPERTIES
    ScheduledIsStarted
    StaleWorkerRegisters
    ImplementsLifecycle
