\* The build without flock.
SPECIFICATION Spec
CONSTANTS
  w1 = w1
  w2 = w2
  p1 = p1
  p2 = p2
  Workers = {w1, w2}
  Processes = {p1, p2}
  ProcessOf <- TwoProcesses
  Inodes = {i1, i2, i3, i4}
  None = None
  BlobSize = 2
  DescSizes = {1, 2}
  Locking = FALSE
VIEW FilesView
INVARIANTS
  CollisionsCaught
