SPECIFICATION Spec
CONSTANTS
  a = a
  b = b
  Nil = Nil
  Vals <- TwoValues
  Leaves <- NoLeaves
  NumRegs = 6
  MaxDepth = 1
  MaxVars = 2
  MaxCells = 2
  MaxClosures = 2
  MaxCaptures = 1
  MaxScopes = 2
INVARIANTS
  TypeOK
PROPERTIES
  IterationsIndependent
  ImplementsVariables
SYMMETRY Symmetry
