\* One replica and two workers: launches, reclaims of either, and everything that fails in between.
SPECIFICATION FairSpec
CONSTANTS
    Replicas = {r1}
    Hosts = {1, 2}
    Worked = {1}
    PendingThreshold = 1
    SustainWindow = 2
    IdleWindow = 1
    Cooldown = 1
    MaxAutoscaledWorkers = 2
    MaxTasks = 1
INVARIANTS
    TypeOK
PROPERTIES
    ReclaimFinishes
    BacklogGetsWorker
