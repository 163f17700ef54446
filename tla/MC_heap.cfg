\* Up to four calls of insertTuple over pages of two short tuples.
CONSTANTS
    short = short
    long = long
    oversize = oversize
    PAGE_SIZE = 12
    HeaderSize = 2
    SlotSize = 1
    Values = {short, long, oversize}
    Texts = {short, long}
    Length <- MCLength
    Predicates = {{short}, {short, long}}
    MaxInserts = 4
    MaxStatements = 2
    MaxEvictions = 1
SPECIFICATION Spec
INVARIANTS
    PagesWellFormed
    ChainComplete
    StructureOnDisk
PROPERTIES
    ScanReturnsLive
    UpdateConserves
    StatementEnds
CHECK_DEADLOCK FALSE
