CONSTANTS
  Leaf = Leaf
  Node = Node
  Tree = Tree
  none = none
  id = id
  kind = kind
  a = a
  b = b
  child = child
  base = base
  items = items
  count = count
  pick = pick
  required = required
  r1 = r1
  r2 = r2
  m1 = m1
  Malformed = Malformed
  NoName = none
  Required = required
  Name = {none, id, kind, a, b, child, base, items, count, pick}
  Rule = {required, r1, r2, m1}
  Type = {Leaf, Node, Tree}
  FieldUnits <- MCFieldUnits
  OneofUnits <- MCOneofUnits
  MessageRules <- MCMessageRules
  Message <- MCMessage
  TypeOf <- MCTypeOf
  Contents <- MCContents
  Valid <- MCValid
  ViolationOf <- MCViolationOf
SPECIFICATION FairSpec
INVARIANTS
  TypeOK
  DecidesValidPred
PROPERTIES
  Promise
  Answers
CHECK_DEADLOCK FALSE
