CONSTANTS
  MaxBound = 2
  CharLimit = 1024
  Surrogates <- MCSurrogates
  ForeignAlnum = {"eacute"}
  Numbers <- MCNumbers
  FieldsOf <- MCFieldsOf
  Depth = 8
  Round <- MCRound
  Unprintable <- Infinite
  Decls <- StandardDecls
  ValuesOf <- MCValuesOf
  PathAttrs <- ResolvedAttrs
SPECIFICATION Spec
INVARIANT OrderedBoundsEnclose
CHECK_DEADLOCK FALSE
