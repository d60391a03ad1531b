\* Two calls in flight race the failure detector over the epochs of a node, whose task fails and is retried.
SPECIFICATION Spec
CONSTANTS
    Replicas = {r1}
    Nodes = {n1}
    NoNode = NoNode
    Tasks = {1}
    Jobs <- MCJobs
    Handlers = {h1, h2}
    Sizes = {2}
    Request <- MCRequest
    RetryLimit = 1
    ClaimLimit = 1
    NotReadyAfter = 1
    DeadAfter = 2
    MaxEpoch = 2
SYMMETRY MCSymmetry
INVARIANTS
    DeadIsFenced
    IncarnationsDistinct
    AssignmentConsistent
PROPERTIES
    OnlyFailuresUseRetries
    ImplementsLifecycle
