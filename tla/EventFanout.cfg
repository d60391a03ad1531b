\* A replica and one stream follow three events that commit in any order.
SPECIFICATION FairSpec
CONSTANTS
    Replicas = {r1}
    MaxEvent = 3
    BatchLimit = 2
    PollLimit = 1
    SnapshotLimit = 1
INVARIANTS
    TypeOK
    FanGapsExplained
    NoReplay
    StreamGapsExplained
PROPERTIES
    EventsFollow
    EventsShown
