SPECIFICATION ContentSpec
CONSTANTS
    editing = editing
    saving = saving
    browsing = browsing
    title = title
    folder = folder
    cardTitle = cardTitle
    cardA = cardA
    cardB = cardB
    nes = nes
    fds = fds
    none = none
    junk = junk
    one = one
    two = two
    Slots = {title, folder, cardTitle}
    CardSlots = {cardTitle}
    FolderSlots = {folder}
    RankSlots = {folder}
    Cards = {cardA, cardB}
    NoCard = NoCard
    GameSystems = {nes, fds}
    NoSystem = NoSystem
    Values = {none, junk, one, two}
    NoValue = none
    Junk = junk
    Threads = {t1, t2}
    BulkThreads = {t1}
    NoThread = NoThread
    Stored <- MCStored
    Scans <- MCScans
    Requests <- MCRequests
    MaxAsked = 2
    Inodes = {i1, i2}
    NoInode = NoInode
    mgba = mgba
    nested = nested
    red = red
    StateCards = {1, 2}
    Flat = Flat
    Nested = nested
    StateDirs = {Flat, mgba, nested}
    StateFiles <- MCStateFiles
    Games = {red}
    MaxPaths = 2
    MaxEntries = 2
    MaxMoves = 2
    Catalog <- MCCatalog
    CanonicalIds <- MCCanonicalIds
    Identities <- MCIdentities
    StaticAliases <- MCStaticAliases
    Starts <- MCStarts
    RomCards = {1, 2}
    RomFolders <- MCRomFolders
    CoreFiles <- MCCoreFiles
    Ports = "ports"
    Lookers = {u1, u2}
    Tags = {"GBA", "NES", "HANDY"}
    NoTag = "none"
    MaxDirs = 3
    MaxShifts = 2
INVARIANTS
    ContentTypeOK
    UndoIsApplied
    WayBackWaits
    FoldersAreBrowsed
    TagsResolve
PROPERTIES
    LibraryIsEdited
    LockIsReleased
    EachStateListed
    DeleteSparesOthers
