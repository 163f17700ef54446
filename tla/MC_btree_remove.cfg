\* The smallest tree with a separator.
CONSTANTS
    r1 = r1
    r2 = r2
    t = 2
    Keys = {1, 2, 3, 4, 5}
    Values = {r1}
    Starts <- MCStarts
    MaxInserts = 2
    MaxRemoves = 1
SPECIFICATION Spec
PROPERTY RemoveTakesKey
CHECK_DEADLOCK FALSE
