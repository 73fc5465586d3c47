\* Three heartbeats of a wallet with three members, two of which are a quorum.
\* The bound on heartbeats ends a behaviour, hence no deadlock check.
SPECIFICATION ClaimSpec
CONSTANTS
    Members = {m1, m2, m3}
    HonestThreshold = 2
    FailureThreshold = 2
    MinimumActive = 3
    m1 = m1
    m2 = m2
    InactiveSets <- MCInactiveSets
    None = None
    MaxSessions = 3
INVARIANTS
    OneClaimPerHeartbeat
    EveryClaimIsEarned
    AgreedClaimGoesThrough
CHECK_DEADLOCK FALSE
