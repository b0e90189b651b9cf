SPECIFICATION Spec
VIEW LiveState
CONSTANTS
  NoFun = NoFun
  Funs <- NoArgs
  Types <- WithMethod
  Globals = 1
  Width = 6
  NumRegs = 18
  MaxDepth = 1
  MaxTemps <- MethodTemps
  MaxInsts = 2
  MaxScopes = 0
PROPERTIES
  CalledUpon
