\* A node falls silent, and a big task that does not fit keeps no small one waiting.
SPECIFICATION FairSpec
CONSTANTS
    Replicas = {r1}
    Nodes = {n1}
    NoNode = NoNode
    Tasks = {1, 2}
    Jobs <- MCJobs
    Handlers = {h1}
    Sizes = {1}
    Request <- MCRequest
    RetryLimit = 0
    ClaimLimit = 2
    NotReadyAfter = 1
    DeadAfter = 2
    MaxEpoch = 0
PROPERTIES
    PendingIsPlaced
    SilentNodeDies
