SPECIFICATION Spec
CONSTANTS
  a = a
  b = b
  Nil = Nil
  Vals <- NoValues
  Leaves <- AllLeaves
  NumRegs = 6
  MaxDepth = 1
  MaxVars = 3
  MaxCells = 2
  MaxClosures = 2
  MaxCaptures = 1
  MaxScopes = 2
INVARIANTS
  SortedActive
  ActiveIffOpen
  NeverClosedEarly
  OneCellPerVariable
  RegistersDisjoint
PROPERTIES
  ReturnClosesFrame
