\* The instance of MC_heap: one statement, then a restart.
CONSTANTS
    short = short
    long = long
    oversize = oversize
    PAGE_SIZE = 12
    HeaderSize = 2
    SlotSize = 1
    Values = {short, long, oversize}
    Texts = {short, long}
    Length <- MCLength
    Predicates = {{short}, {short, long}}
    MaxInserts = 4
    MaxStatements = 2
    MaxEvictions = 1
SPECIFICATION Spec
PROPERTY ChangesSurvive
CHECK_DEADLOCK FALSE
