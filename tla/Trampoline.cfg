SPECIFICATION Spec
CONSTANTS
  MaxDepth = 3
  MaxTemps = 2
INVARIANTS
  TypeOK
  WrittenMeansSet
  FailureSurfaces
PROPERTIES
  ImplementsStack
