SPECIFICATION PartsSpec
CONSTANTS
    serving = serving
    Pids = {q1, q2, q3}
    NoPid = NoPid
    Ports = {first, fallback}
    Preferred = first
    NoPort = NoPort
    folders = folders
    browser = browser
    uploads = uploads
    pics = pics
    PICS = PICS
    deep = deep
    one = one
    Hands = {h1, h2}
    Spelt <- MCSpelt
    Fold <- MCFold
    Trees <- MCTrees
    Orders <- MCOrders
    NoReplace = {TRUE, FALSE}
    MaxNodes = 8
    Attempts = 2
    MaxNonce = 1
    MaxOrders = 3
    Platform <- MCPlatform
    Catalogs <- MCCatalogs
    Selections <- MCSelections
    TakenSets <- MCTakenSets
    CardSets <- MCCardSets
    Browsers = {b1, b2}
    Workers = {w1, w2}
    Nobody = Nobody
    Batch = 2
    MaxFaults = 1
    Aliases <- MCAliases
    Paths <- MCPaths
    Pages = {p1}
    ScanCap = 4
    MaxAsked = 3
SYMMETRY Symmetry
INVARIANTS
    PartsTypeOK
    OneServer
    ReadyIsNamed
    HiddenHasReason
    EachFileOnce
    LandedIsListed
    CompanionHasGame
    PreviewHolds
PROPERTIES
    GoesForReason
    ActsOnShown
