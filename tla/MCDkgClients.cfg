\* One creation carried out by the clients of three operators, two of which
\* keep up with the chain. A state without a successor, other than the end of
\* the creation or the bound on blocks, would be one in which the chain waits
\* for a client for ever.
SPECIFICATION ClientsSpec
CONSTANTS
    Operators = {1, 2, 3}
    Keys <- MCKeys
    Seeds = {s1}
    Parameters <- MCParameters
    None = None
    Outsider = Outsider
    MaxBlock = 9
    MaxNonce = 0
    MaxBeacon = 1
    GroupQuorum = 2
    ConfirmationBlocks = 0
    AnnouncementBlocks = 1
    MaximumProtocolBlocks = 2
    SubmissionDelayStepBlocks = 1
    ApprovalDelayStepBlocks = 1
    ChallengeConfirmationBlocks = 1
    Watchers = {1, 2}
    Faulty = {3}
    MaxInvalid = 1
    MaxLost = 1
INVARIANTS
    OneKeyPerCreation
    ApprovedInTurn

    
