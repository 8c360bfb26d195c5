\* One pusher of two images that share a layer, with two upload goroutines; and two pushers of two
\* images that share a blob, to one leaf.
SPECIFICATION MCSpec
CONSTANTS
  p1 = p1
  p2 = p2
  u1 = u1
  u2 = u2
  u3 = u3
  la = la
  cfg1 = cfg1
  cfg2 = cfg2
  m1 = m1
  m2 = m2
  n1 = n1
  n2 = n2
  x = x
  y = y
  d1 = d1
  Pushers = {p1, p2}
  Callers = {p1, p2, u1, u2, u3}
  Uploaders <- OneOrTwo
  Resolved <- Sets
  Blobs = {la, cfg1, cfg2, m1, m2, n1, n2}
  Manifests <- AllImages
  Leaves = {x, y}
  DiffIds = {d1}
  None = None
  Layers <- AllLayers
  ConfigOf <- Configs
  DiffIdsOf <- DiffIdLists
  Foreign = {}
  Fits <- FitsAll
  HasDirs = FALSE
INVARIANTS
  PushTypeOK
  SilenceMeansCommitted
  AbsentIsBlamed
  PushInv
PROPERTIES
  PushEnds
