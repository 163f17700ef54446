\* B+ trees: up to two insertions and two removals from trees of up to six entries.
\* Hash indexes: up to four tuples over two buckets, which become twenty; keys 0
\* and 20 collide in both, 0 and 1 in neither.
CONSTANTS
    r1 = r1
    r2 = r2
    t = 2
    TreeKeys = {1, 2, 3, 4, 5}
    Values = {r1, r2}
    Starts <- MCStarts
    MaxInserts = 2
    MaxRemoves = 2
    Keys = {0, 1, 20}
    TableSize = 2
    PerPage = 2
    MaxTuples = 4
    MaxChanges = 2
    MaxRestarts = 1
SPECIFICATION IndexSpec
INVARIANTS
    Ordered
    Balanced
    PagesMatch
    RangeExact
    FindsKeys
    LookupExact
    CountCovers
    PagesChained
PROPERTIES
    StepsKeepEntries
    HashKeepsEntries
    ReloadsTable
\* A removal may end the process, and the bounds end the rest.
CHECK_DEADLOCK FALSE
