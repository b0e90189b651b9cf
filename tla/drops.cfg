SPECIFICATION Spec
VIEW DropState
CONSTANTS
  NoFun = NoFun
  Funs <- NoArgs
  Types <- DropTypes
  Globals = 1
  Width = 6
  NumRegs = 30
  MaxDepth = 2
  MaxTemps <- DropTemps
  MaxInsts = 2
  MaxScopes = 2
INVARIANTS
  DroppedOnceUnlessMissed
  AllDropped
  NoneLeft
  ImplicitWhileNative
