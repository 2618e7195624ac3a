SPECIFICATION Spec
CONSTANTS
    a = a
    b = b
    c = c
    d = d
    png = png
    jpg = jpg
    Threads = {t1, t2, t3}
    Names = {a, b, c, d}
    NoFile = NoFile
    Spellings <- MCCover
    Requests <- MCApart
    Native = {TRUE, FALSE}
    MaxFiles = 4
SYMMETRY Symmetry
INVARIANTS
    TypeOK
    NothingLeftBehind
PROPERTY KeptUntilAsked
