SPECIFICATION Spec
CONSTANTS
    a = a
    b = b
    c = c
    d = d
    png = png
    jpg = jpg
    Threads = {t1, t2}
    Names = {png, jpg}
    NoFile = NoFile
    Spellings <- MCSpellings
    Requests <- MCArt
    Native = {TRUE}
    MaxFiles = 3
SYMMETRY Symmetry
PROPERTY ArtStays
