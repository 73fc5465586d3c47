\* Two providers that compete for an operator; weights that the pool's unit
\* divides and one that it does not.
CONSTANTS
    StakingProviders = {p1, p2}
    Operators = {o1}
    Weights = {0, 2, 3, 4}
    Parameters <- MCParameters
    PoolWeightDivisor = 2
    None = None
    Never = Never
    FirstTime = 2
    MaxTime = 5
    MaxLocks = 1
SPECIFICATION AuthorizationSpecFair
INVARIANTS
    PendingDecreasesAgree
    PoolWithinAuthorization
PROPERTIES
    DecreaseWaitsForThePool
    EntriesAreRepaired
