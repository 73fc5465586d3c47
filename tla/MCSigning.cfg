\* Three members of which two sign, two attempts of two blocks.
CONSTANTS
    Members = {m1, m2, m3}
    HonestThreshold = 2
    AnnouncementDelayBlocks = 0
    AnnouncementActiveBlocks = 1
    MaximumProtocolBlocks = 1
    CoolDownBlocks = 0
    AttemptsLimit = 2
    Lag = 0
    MaxBlock = 4
SPECIFICATION Spec
INVARIANTS
    CountedSignersMadeTheSignature
    AttemptHasOneOutcome
    NoLoopIsStuck
SYMMETRY MemberSymmetry
CHECK_DEADLOCK FALSE
