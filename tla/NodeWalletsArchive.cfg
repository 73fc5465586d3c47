\* One wallet, a closure that may be reverted, a crash.
CONSTANTS
    Wallets = {w1}
    Seats = {s1, s2}
    Executors = {signing}
    MaxClosures = 2
    MaxCrashes = 1
SPECIFICATION NodeSpec
INVARIANT ArchivedWalletsWereClosed
CHECK_DEADLOCK FALSE
