SPECIFICATION PlanSpec
CONSTANT Scripts <- MCScripts
INVARIANTS IdsFresh TablesFill
CHECK_DEADLOCK FALSE
