CONSTANTS
  Narrow = 2
  Wide = 4
  None = None
  Error = Error
SPECIFICATION Spec
INVARIANT DivisionAgrees
CHECK_DEADLOCK FALSE
