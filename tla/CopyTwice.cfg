\* A copy of one image for one platform that the request names twice.
SPECIFICATION TwiceSpec
CONSTANTS
  a = a
  b = b
  p = p
  q = q
  w1 = w1
  w2 = w2
  i1 = i1
  i2 = i2
  i3 = i3
  ix = ix
  iz = iz
  ma = ma
  mb = mb
  mc = mc
  la = la
  lb = lb
  ca = ca
  cb = cb
  cc = cc
  None = None
  Nil = Nil
  Bad = Bad
  Refs = {a, b}
  Platforms = {p, q}
  Requests <- AllRequests
  Segments <- Strings
  Images <- TwoImages
  Digests <- TwoDigests
  DiffIds <- TwoDigests
  Names <- ThreeNames
  Writers = {w1, w2}
  Inodes = {i1, i2, i3}
  Bodies <- Chunks
  Jobs <- Puts
  Pinned <- Digested
  Order <- InOrder
  Layouts <- BothLayouts
  Type <- TypeOf
  Depth <- Depths
  AsRef <- Annotations
  Queries <- Calls
INVARIANTS
  FailuresCounted
CHECK_DEADLOCK FALSE
