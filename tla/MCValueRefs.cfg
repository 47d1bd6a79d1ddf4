SPECIFICATION Spec
CONSTANTS
  Cells = {c1, c2, c3}
  None = None
  MaxWrappers = 2
  MaxStrings = 1
SYMMETRY Symmetry
INVARIANTS
  TypeOK
  LedgerBalanced
  NothingDangling
  StringsFreed
PROPERTIES
  ImplementsGraph
