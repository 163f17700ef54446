\* One caller over two frames and three pages: two other pages take both frames,
\* and with them the one the caller's pointer leads to.
CONSTANTS
    Data = {a}
    Blank = Blank
    Hole = Hole
    NoPage = NoPage
    FILE_CAPACITY = 4
    MetaEntries = 3
    BUFFER_SIZE = 2
    MaxPages = 3
    Clients = {c1}
SPECIFICATION ClientsSpec
PROPERTY HeldWritesHitTheirPage
CHECK_DEADLOCK FALSE
