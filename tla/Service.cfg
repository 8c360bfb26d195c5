\* The copy command, the filesystem backend under it, and the readers of image layouts.
SPECIFICATION MCSpec
CONSTANTS
  a = a
  b = b
  p = p
  q = q
  w1 = w1
  w2 = w2
  i1 = i1
  i2 = i2
  i3 = i3
  ix = ix
  iz = iz
  ma = ma
  mb = mb
  mc = mc
  la = la
  lb = lb
  ca = ca
  cb = cb
  cc = cc
  None = None
  Nil = Nil
  Bad = Bad
  Refs = {a, b}
  Platforms = {p, q}
  Requests <- AllRequests
  Segments <- Strings
  Images <- TwoImages
  Digests <- TwoDigests
  DiffIds <- TwoDigests
  Names <- ThreeNames
  Writers = {w1, w2}
  Inodes = {i1, i2, i3}
  Bodies <- Chunks
  Jobs <- Puts
  Pinned <- Digested
  Order <- InOrder
  Layouts <- BothLayouts
  Type <- TypeOf
  Depth <- Depths
  AsRef <- Annotations
  Queries <- Calls
VIEW View
SYMMETRY Symmetry
INVARIANTS
  TypesOK
  EntryShows
  ExitTells
  EntriesChecked
  ListedIsWritten
  BlobsInOrder
  AnswersRight
PROPERTIES
  TouchesOnlyAsked
  ImplementsBackend
CHECK_DEADLOCK FALSE
