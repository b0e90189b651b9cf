SPECIFICATION Spec
VIEW LiveState
CONSTANTS
  NoFun = NoFun
  Funs <- FewFuns
  Types <- FewTypes
  Globals = 1
  Width = 6
  NumRegs = 30
  MaxDepth = 2
  MaxTemps <- Temps
  MaxInsts = 1
  MaxScopes = 0
INVARIANTS
  TypeOK
PROPERTIES
  ImplementsCallStack
