CONSTANTS
  Columns <- MCColumns
  BoolColumns <- MCBoolColumns
  Statements <- MCStatements
  MaxRows = 3
SPECIFICATION Spec
INVARIANTS
  SelectExact
PROPERTIES
  WritesExact
CHECK_DEADLOCK FALSE
