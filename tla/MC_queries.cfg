CONSTANTS
  KeyFields <- MCFields
  MaxOuter = 2
  MaxInner = 3
  MaxOpens = 3
  PerPage = 2
  Cells <- MCFields
  Numbers <- MCNumbers
  MaxRows = 3
  MaxPair = 2
SPECIFICATION QuerySpec
INVARIANTS
  JoinSound
  JoinComplete
  SortedRows
  MergeSound
  GroupsAccount
CHECK_DEADLOCK FALSE
