SPECIFICATION ServicesSpec
CONSTANTS
    handing = handing
    tailing = tailing
    scanning = scanning
    Pids = {p1, p2}
    NoPid = NoPid
    Ports = {first, fallback}
    Preferred = first
    NoPort = NoPort
    Tails = {t1, t2}
    MaxTails = 1
    Logs = {l1, l2}
    NoLog = NoLog
    Window = 1
    MaxPieces = 3
    Askers = {a1}
    MaxAttempts = 4
    MaxFailures = 2
INVARIANTS
    ServicesTypeOK
    SentInOrder
    OkMeansScanned
PROPERTIES
    WaitsEnd
    TailEnds
    RescanAnswers
