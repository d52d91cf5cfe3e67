CONSTANTS
  LambdaBodies = "any"
  Node <- MCNode
  Root <- MCRoot
  Env <- E
  Op <- MCOp
  Kids <- MCKids
  Res <- MCRes
  Own <- MCOwn
  Holds <- MCHolds
  Errs <- MCErrs
  Elem <- MCElem
  Apply <- MCApply
  Fails <- MCFails
SPECIFICATION Spec
INVARIANT NeverProvesAnError
CHECK_DEADLOCK FALSE
