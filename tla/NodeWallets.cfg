\* Two wallets of two seats, each closed at most once and perhaps reverted,
\* and a crash at any point.
CONSTANTS
    Wallets = {w1, w2}
    Seats = {s1, s2}
    Executors = {signing}
    MaxClosures = 1
    MaxCrashes = 1
SPECIFICATION NodeSpecFair
INVARIANTS
    SharesAreDurable
PROPERTIES
    RunningNodeArchivesClosedWallets
    
CHECK_DEADLOCK FALSE
