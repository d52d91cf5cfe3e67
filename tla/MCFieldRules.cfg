CONSTANTS
  MaxBound = 2
  CharLimit = 1024
  Surrogates <- MCSurrogates
  ForeignAlnum = {"eacute"}
  Numbers <- MCNumbers
  FieldsOf <- MCFieldsOf
  Depth = 8
  Round <- MCRound
  Unprintable <- Infinite
  Decls <- MCDecls
  ValuesOf <- MCValuesOf
  PathAttrs <- ResolvedAttrs
SPECIFICATION Spec
INVARIANTS
  TypeOK
  AcceptsOnlyDeclared
  AcceptsAllDeclared
  GateSound
  GateExact
  ViewsAsDeclared
  RejectsOnlyEnumSelects
  BindersDenote
  BaseTextDenotes
CHECK_DEADLOCK FALSE
