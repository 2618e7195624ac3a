SPECIFICATION RomUploadSpec
CONSTANTS
    Platform <- MCPlatform
    Catalogs <- MCCatalogs
    Selections <- MCSelections
    TakenSets <- MCTakenSets
    CardSets <- MCCardSets
    Browsers = {b1}
    Workers = {w1}
    Nobody = Nobody
    Batch = 3
    MaxFaults = 1
INVARIANT SummaryIsTrue
