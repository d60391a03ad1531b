\* A run of a former assignment reports after the worker has a new epoch.
SPECIFICATION Spec
CONSTANTS
    Nodes = {n1}
    NoNode = NoNode
    RetryLimit = 1
    Tasks = {t1}
    Runs = {i1, i2}
    NoTaskId = NoTaskId
    MaxEpoch = 2
PROPERTIES
    ResultsOfCurrentAssignment
