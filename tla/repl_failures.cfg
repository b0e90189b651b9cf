SPECIFICATION Spec
CONSTANTS
  x = x
  y = y
  None = None
  Temp = Temp
  Builtin = Builtin
  Names <- TwoNames
  FeatureSets <- Failing
  MaxStmts = 2
  NumRegs = 4
INVARIANTS
  TypeOK
  KnownIffExecuted
  VariablesIntact
  EarlierLinesKept
  RejectedLineUndone
  NoStaleDeclaration
SYMMETRY Symmetry
