\* Three replicas of which two are configured; the heartbeat loop and a report.
SPECIFICATION Spec
CONSTANTS
    Replicas = {r1, r2, r3}
    Unknown = Unknown
    r1 = r1
    r2 = r2
    Addrs <- MCAddrs
    Main = hb
    Reporters = {rep}
    Attempts = 3
INVARIANTS
    TypeOK
    QuietCallSucceeds
    SubmitRepeatedOnlyOffSeed
