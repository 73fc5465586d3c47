\* The beacon through two generations of groups, with retries and lost groups.
SPECIFICATION SpecFair
CONSTANTS
    MaxBlock = 9
    None = None
    Operators = {o1}
    Outsider = Outsider
    GroupKeys = {k1, k2}
    Members = {0, 1}
    Entries = {0, 1}
    Lifetimes = {1, 9}
    Frequencies = {1}
    DkgParameters <- MCDkgParameters
    RelayTimeouts <- MCRelayTimeouts
    offchainDkgTime = 1
    Consumers = {c1}
    MaxRequests = 2
    MaxNonce = 1
INVARIANTS
    NoResidue
    SeedHasRequest
    KeysAreUnique
    CallbacksReachRequester
PROPERTIES
    ChosenGroupIsActive
    ImplementsLifecycle
    
CHECK_DEADLOCK FALSE
