CONSTANTS
    GroupSize = 6
    HonestThreshold = 3
    GroupQuorum = 3
    MaxAttempts = 12
    Assignments <- MCAssignments
    Seeds <- MCSeeds
    permutation <- MCPermutation
SPECIFICATION SelectionSpec
CHECK_DEADLOCK FALSE
INVARIANTS
    SigningSelectionIsExact
    SmallExclusionsKeepQuorum
    ExclusionsAreInOrder
