\* Two workers and a clock that outlasts every interval: items expire, idle
\* out, are touched, pruned and flushed while codes are guessed and browsers
\* pair, revoke and come back, with failing saves and restarts.
SPECIFICATION Spec
CONSTANTS
    Browsers = {b1, b2}
    Threads = {t1, t2}
    NoBrowser = NoBrowser
    Capacity = 1
    JsmnTokens = 256
    MaxAge = 4
    IdleTimeout = 2
    TouchInterval = 1
    PruneInterval = 2
    FlushInterval = 2
    MaxFailures = 1
    Lockout = 2
    QrTtl = 1
    Lag = 1
    MaxClock = 5
    MaxIssued = 3
    MaxMinted = 2
SYMMETRY Symmetry
INVARIANTS
    TypeOK
    SingleUse
    RevokedStaysOut
    TrustIsDurable
    RefusedStaysOut
    GuessBudget
CHECK_DEADLOCK FALSE
