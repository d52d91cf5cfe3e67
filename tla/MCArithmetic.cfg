CONSTANTS
  Narrow = 2
  Wide = 4
  None = None
  Error = Error
SPECIFICATION Spec
INVARIANTS
  TypeOK
  GuardsAreExact
  ComparisonIsExact
  RejectedFoldsErr
CHECK_DEADLOCK FALSE
