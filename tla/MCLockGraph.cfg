SPECIFICATION Spec
CONSTANTS
  k1 = k1
  k2 = k2
  k3 = k3
  n1 = n1
  n2 = n2
  n3 = n3
  p1 = p1
  p2 = p2
  p3 = p3
  FS = FS
  Mounted = Mounted
  Absent = Absent
  Follows = Follows
  NoPath = NoPath
  NoNode = NoNode
  None = None
  Nodes = {n1, n2, n3}
  Keys = {k1, k2, k3}
  Inputs = {i1, i2}
  Root = n1
  Paths = {p1, p2, p3}
  Accessors = {FS, Mounted}
  KeyOf <- MCKeyOf
  MadeFor <- MCMadeFor
  Sources <- MCSources
  Documents <- MCDocuments
  MaxDepth = 4
INVARIANTS
  TypeOK
  WalkAgrees
  RoundTrip
  PathsAccounted
  DepthBounded
PROPERTIES
  Ends
  WalkDescends
