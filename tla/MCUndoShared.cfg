SPECIFICATION Spec
CONSTANTS
    title = title
    folder = folder
    cardTitle = cardTitle
    cardA = cardA
    cardB = cardB
    nes = nes
    fds = fds
    none = none
    junk = junk
    one = one
    two = two
    Slots = {title, folder, cardTitle}
    CardSlots = {cardTitle}
    FolderSlots = {folder}
    RankSlots = {folder}
    Cards = {cardA, cardB}
    NoCard = NoCard
    GameSystems = {nes, fds}
    NoSystem = NoSystem
    Values = {none, junk, one, two}
    NoValue = none
    Junk = junk
    Threads = {t1, t2}
    BulkThreads = {t1, t2}
    NoThread = NoThread
    Stored <- MCStored
    Scans <- MCScans
    Requests <- MCRequests
    MaxAsked = 2
    Inodes = {i1, i2, i3}
    NoInode = NoInode
SYMMETRY Symmetry
INVARIANT UndoIsApplied
