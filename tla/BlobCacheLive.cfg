\* A process with two goroutines next to one with one; three calls in all.
SPECIFICATION LiveSpec
CONSTANTS
  w1 = w1
  w2 = w2
  w3 = w3
  p1 = p1
  p2 = p2
  Workers = {w1, w2, w3}
  Processes = {p1, p2}
  ProcessOf <- TwoAndOne
  Inodes = {1, 2, 3, 4, 5}
  None = None
  BlobSize = 1
  DescSizes = {1}
  Locking = TRUE
  MaxCalls = 3
PROPERTIES
  CallsReturn
CHECK_DEADLOCK FALSE
