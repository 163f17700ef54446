\* The catalog's two pages, three tables or attempts, and a page more.
CONSTANTS
  Statements <- MCStatements
  MaxPages = 9
SPECIFICATION Spec
INVARIANTS
  PagesApart
  ReferencesResolve
PROPERTIES
  CreateAllOrNothing
CHECK_DEADLOCK FALSE
