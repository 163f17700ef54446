CONSTANTS
  Columns <- MCColumns
  BoolColumns <- MCBoolColumns
  Statements <- MCStatements
  MaxRows = 3
SPECIFICATION Spec
INVARIANTS
  JoinAnswers
CHECK_DEADLOCK FALSE
