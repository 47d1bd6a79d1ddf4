SPECIFICATION Spec
CONSTANTS
  Contexts = {c1}
  Stores = {s1}
  StorePaths = {p1, p2, p3}
  Derivations = {d1}
  Builders = {b1}
  States = {e1}
  Settings = {f1}
  Fetchers = {t1}
  ParseFlags = {g1}
  LockFlags = {l1}
  References = {r1}
  LockedFlakes = {k1}
  Values = {v1}
  None = None
  MaxAlive = 8
  MaxDropping = 1
SYMMETRY Symmetry
INVARIANTS
  TypeOK
  NoUseAfterFree
  NothingLeft
PROPERTIES
  ImplementsOwnership
