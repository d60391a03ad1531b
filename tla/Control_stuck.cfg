\* What the design notes say of tasks on dead nodes.
SPECIFICATION FairSpec
CONSTANTS
    Replicas = {r1}
    Nodes = {n1}
    NoNode = NoNode
    Tasks = {1}
    Jobs <- MCJobs
    Handlers = {h1}
    Sizes = {2}
    Request <- MCRequest
    RetryLimit = 0
    ClaimLimit = 1
    NotReadyAfter = 1
    DeadAfter = 2
    MaxEpoch = 0
PROPERTIES
    NoTaskStuckOnDeadNode
