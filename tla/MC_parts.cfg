\* The list: one key more than the capacity, so that a put on a full list drops
\* one.  The disk: one page beyond the initial capacity, so that the file is
\* resized, and one directory entry more than the metadata page holds.
CONSTANTS
    Frames = {f0, f1, f2, f3}
    Capacity = 3
    D_head = D_head
    D_tail = D_tail
    Null = Null
    Data = {a}
    Blank = Blank
    Hole = Hole
    FILE_CAPACITY = 2
    MetaEntries = 2
    Ids = {1, 2, 3}
    MaxPages = 3
    MaxDeleted = 2
    Garbage = {5}
SPECIFICATION PartSpec
INVARIANTS WellLinked SlotsInFile IdsAreSlots ReadsBack
PROPERTIES EvictsLeastRecent ImplementsRecency
\* A disk whose metadata was misread is followed no further.
CHECK_DEADLOCK FALSE
