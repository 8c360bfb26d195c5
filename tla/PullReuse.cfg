\* Two pulls, one of an image whose layer is not what its config says.
SPECIFICATION WrongSpec
CONSTANTS
  w1 = w1
  w2 = w2
  s1 = s1
  ca = ca
  cb = cb
  cx = cx
  b1 = b1
  b2 = b2
  z1 = z1
  z2 = z2
  d1 = d1
  d2 = d2
  ra = ra
  rb = rb
  rp = rp
  rx = rx
  None = None
  Toc = Toc
  Refs = {ra, rb, rp, rx}
  Pin <- Pins
  Configs = {ca, cb, cx}
  Blobs = {b1, b2, z1, z2}
  DiffIds = {d1, d2}
  DiffIdsOf <- Chains
  Content <- Contents
  Zstd <- Zstds
  Tocs = {ca}
  Pullers = {w1, w2}
  Requests <- Asks
  Registry <- Upstream
  Writable = TRUE
  Pushers = {s1}
  Wanted <- Pushes
  Listable = TRUE
  Local <- Builds
INVARIANTS
  RecordsAgree
