CONSTANTS
  LambdaBodies = "strict"
  Node <- MCNode
  Root <- MCRoot
  Env <- E
  Op <- MCOp
  Kids <- MCKids
  Res <- MCRes
  Own <- MCOwn
  Holds <- MCHolds
  Errs <- MCErrs
  Elem <- MCElem
  Apply <- MCApply
  Fails <- MCFails
SPECIFICATION Spec
INVARIANTS
  TypeOK
  Sound
  Complete
  NegDepthBalanced
  NoClosedGuardUnderNegation
CHECK_DEADLOCK FALSE
