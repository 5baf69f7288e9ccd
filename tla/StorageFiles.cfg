SPECIFICATION FilesSpec
CONSTANTS
  p1 = p1
  p2 = p2
  p3 = p3
  a = a
  b = b
  c = c
  v1 = v1
  v2 = v2
  None = None
  Procs = {p1, p2, p3}
  Items = {a, b, c}
  Batches <- MCBatches
  Primary = p1
  Chunks <- MCChunks
  MaxClaimAttempts = 2
  Threads = {p1, p2, p3}
  ProcOf <- OneEach
  Values = {v1, v2}
  Inodes = {1, 2, 3, 4}
SYMMETRY Symmetry
INVARIANTS
  CursorStrandsNothing
  ValuesAreWhole
CHECK_DEADLOCK FALSE
