SPECIFICATION Spec
CONSTANTS
  a1 = a1
  a2 = a2
  b1 = b1
  A = A
  B = B
  Payloads = {a1, a2, b1}
  Types = {A, B}
  TypeId <- MCTypeId
  Externals = {x1, x2, x3}
  Handles = {h1, h2}
  Null = Null
  Stranger = Stranger
  None = None
SYMMETRY Symmetry
INVARIANTS
  TypeOK
  PayloadSound
PROPERTIES
  ImplementsOwnership
