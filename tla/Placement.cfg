\* Batches of three tasks, in every order of the nodes.
SPECIFICATION Spec
CONSTANTS
    n1 = n1
    n2 = n2
    n3 = n3
    n4 = n4
    Nodes = {n1, n2, n3, n4}
    NoNode = NoNode
    Capacity <- MCCapacity
    Status <- MCStatus
    Labels <- MCLabels
    Hostname <- MCHostname
    Batches <- MCBatches
    Measurements <- MCMeasurements
    Lists <- MCLists
    Unit = 4
CHECK_DEADLOCK FALSE
INVARIANTS
    TypeOK
    Accounted
    NoTickOvercommit
    LeftOutFitsNowhere
PROPERTIES
    PlacedOnBest
    ImplementsBatch
