\* Two windows, two nodes that lead and follow each other.
CONSTANTS
    A = A
    B = B
    Operators = {A, B}
    SeatsOf <- MCSeatsOf
    Seeds = {1, 2}
    LeaderOf <- MCLeaderOf
    DrawsHeartbeat = {2}
    CoordinationFrequencyBlocks = 2
    ActivePhaseDurationBlocks = 1
    FrequencyWindows = 2
    ActivationWindow = 3
    MaxWindows = 2
    MaxBlock = 5
SPECIFICATION SpecFair
INVARIANTS
    NoLeaderMistakes
    OneActionAtATime
PROPERTY EveryProcedureEnds
CHECK_DEADLOCK FALSE
