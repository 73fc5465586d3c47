\* Wallet creation under every interleaving of transactions, with the timeouts
\* notified and a result approved in the end. The bound on blocks ends a
\* behaviour, hence no deadlock check.
SPECIFICATION SpecFair
CONSTANTS
    Operators = {o1}
    Keys = {k1, k2}
    Seeds = {s1, s2}
    Parameters <- MCParameters
    None = None
    Outsider = Outsider
    MaxBlock = 8
    MaxNonce = 2
    MaxBeacon = 2
INVARIANTS
    NoResidue
    SubmittedKeyIsFree
    
PROPERTIES
    
    WindowIsNeverCutShort
    ClaimAcceptedOnce
    ImplementsLifecycle
CHECK_DEADLOCK FALSE
