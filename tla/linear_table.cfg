SPECIFICATION Spec
CONSTANTS
  a = a
  b = b
  c = c
  v = v
  w = w
  Absent = Absent
  Keys <- ThreeKeys
  Values <- TwoValues
  Hash <- Collisions
  MaxCapacity = 8
INVARIANTS
  TypeOK
  ProbesEnd
  LoopsVisitAll
PROPERTIES
  ImplementsMap
SYMMETRY ValueSymmetry
