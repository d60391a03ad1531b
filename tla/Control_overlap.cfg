\* Two replicas that both believe they lead run ticks and detectors at once.
SPECIFICATION Spec
CONSTANTS
    Replicas = {r1, r2}
    Nodes = {n1}
    NoNode = NoNode
    Tasks = {1, 2}
    Jobs <- MCJobs
    Handlers = {h1}
    Sizes = {2, 3}
    Request <- MCRequest
    RetryLimit = 0
    ClaimLimit = 2
    NotReadyAfter = 1
    DeadAfter = 1
    MaxEpoch = 2
SYMMETRY MCSymmetry
INVARIANTS
    TypeOK
PROPERTIES
    OvercommitExplained
