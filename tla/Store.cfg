\* Two callers on fsdir: two images that share a layer, a leaf either may take; and images that
\* Commit must refuse, next to one that it takes.
SPECIFICATION MCSpec
CONSTANTS
  c1 = c1
  c2 = c2
  la = la
  lb = lb
  cfg1 = cfg1
  cfg2 = cfg2
  m1 = m1
  m2 = m2
  n1 = n1
  n2 = n2
  x = x
  y = y
  d1 = d1
  d2 = d2
  Callers = {c1, c2}
  Blobs = {la, lb, cfg1, cfg2, m1, m2, n1, n2}
  Manifests <- AllImages
  Leaves = {x, y}
  DiffIds = {d1, d2}
  None = None
  Layers <- AllLayers
  ConfigOf <- Configs
  DiffIdsOf <- DiffIdLists
  Foreign = {n2}
  Fits <- FitsAll
  HasDirs = TRUE
INVARIANTS
  TypeOK
  LeafComplete
  AnswersTrue
  IInv
PROPERTIES
  ImplementsCatalog
