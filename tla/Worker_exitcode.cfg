\* A container is gone before its exit code is asked for.
SPECIFICATION Spec
CONSTANTS
    Nodes = {n1}
    NoNode = NoNode
    RetryLimit = 1
    Tasks = {t1}
    Runs = {i1, i2}
    NoTaskId = NoTaskId
    MaxEpoch = 2
PROPERTIES
    SucceededMeansExitZero
