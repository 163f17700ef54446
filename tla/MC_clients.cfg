\* Two callers over two frames and three pages: a kept pointer survives one
\* other page, not two.
CONSTANTS
    Data = {a}
    Blank = Blank
    Hole = Hole
    NoPage = NoPage
    FILE_CAPACITY = 4
    MetaEntries = 3
    BUFFER_SIZE = 2
    MaxPages = 3
    Clients = {c1, c2}
SYMMETRY Callers
SPECIFICATION ClientsSpec
INVARIANTS WindowIsSafe AstrayHurtsTwo
CHECK_DEADLOCK FALSE
