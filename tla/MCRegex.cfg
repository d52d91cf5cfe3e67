CONSTANTS
  a = a
  b = b
  Unbounded = Unbounded
  Depth = 10
  Char = {a, b}
  Pattern <- MCPattern
  ProgOf <- MCProgOf
  Input <- MCInput
SPECIFICATION Spec
INVARIANTS
  MatchesLanguage
  FuelSuffices
  LinearWork
CHECK_DEADLOCK FALSE
