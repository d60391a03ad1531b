\* Two replicas, one with a fast clock; either may stop for good.
SPECIFICATION LiveSpec
CONSTANTS
    r1 = r1
    NoReplica = NoReplica
    Replicas = {r1, r2}
    TTL = 2
    MaxSkew = 1
    Skew <- MCSkew
    MaxEpoch = 4
INVARIANTS
    TypeOK
    UniqueLeaderPerEpoch
    DeposedLeaderOutlivedGrant
PROPERTIES
    EpochViewMonotone
    ImplementsLeadership
    LeadershipRecovers
