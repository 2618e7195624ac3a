\* The constants of the source; one worker.
SPECIFICATION FillSpec
CONSTANTS
    Threads = {t1}
    NoBrowser = 0
    Browsers = {1,2,3,4,5,6,7,8,9,10,11,12,13,14,15,16,17,18,19,20,21,22,23,24,25,26,27,28,29,30,31,32}
    Capacity = 32
    JsmnTokens = 256
    MaxAge = 2592000
    IdleTimeout = 86400
    TouchInterval = 60
    PruneInterval = 60
    FlushInterval = 60
    MaxFailures = 5
    Lockout = 30
    QrTtl = 120
    Lag = 0
    MaxClock = 1
    MaxIssued = 34
    MaxMinted = 32
INVARIANTS
    FileLoads
CHECK_DEADLOCK FALSE
