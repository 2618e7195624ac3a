SPECIFICATION CardsSpec
CONSTANTS
    Aliases <- MCAliases
    Paths <- MCPaths
    Pages = {p1}
    ScanCap = 4
    MaxAsked = 3
PROPERTY HandleKeepsCard
