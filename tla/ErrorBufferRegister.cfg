SPECIFICATION Spec
CONSTANTS
  c1 = c1
  c2 = c2
  Contexts = {c1, c2}
  None = None
  MaxDepth = 2
  MaxCalls = 3
CHECK_DEADLOCK FALSE
INVARIANT RegisterSaysWhy
