SPECIFICATION Spec
CONSTANTS
  Prims = {p1, p2, p3}
  Names = {n1, n2}
  Values = {v1, v2}
  States = {s1, s2}
  None = None
  MaxRefs = 2
SYMMETRY Symmetry
INVARIANTS
  TypeOK
  NoUseAfterFree
  NoOrphanClosure
  UniqueBuiltins
PROPERTIES
  ImplementsMemory
