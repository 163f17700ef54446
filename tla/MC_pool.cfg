\* Two frames and three pages, so that most fetches evict; the file grows once.
CONSTANTS
    Data = {a, b}
    Blank = Blank
    Hole = Hole
    NoPage = NoPage
    FILE_CAPACITY = 2
    MetaEntries = 3
    BUFFER_SIZE = 2
    MaxPages = 3
SPECIFICATION Spec
INVARIANTS TypeOK PoolConsistent DirectoryOrderly CleanMatchesDisk
PROPERTY ImplementsPageStore
