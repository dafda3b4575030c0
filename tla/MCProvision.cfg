SPECIFICATION Spec
CONSTANTS
  Runs = {1, 2}
  MaxMigrations = 4
  MaxApiCalls = 3
INVARIANTS CodeFitsSchema SeededOnce
PROPERTIES SuccessMeansComplete
CHECK_DEADLOCK FALSE
