CONSTANTS
  a = a
  b = b
  Char = {a, b}
  Pattern <- MCPattern
  ProgOf <- MCProgOf
  Input <- MCInput
SPECIFICATION Spec
INVARIANTS
  TypeOK
  SetIsReached
  AnswersAcceptance
PROPERTY ImplementsThreadSets
CHECK_DEADLOCK FALSE
