SPECIFICATION ScanSpec
CONSTANTS
  p1 = p1
  p2 = p2
  p3 = p3
  a = a
  b = b
  c = c
  Procs = {p1, p2, p3}
  Items = {a, b, c}
  Batches <- ScanBatches
  Primary = p1
  Chunks <- ScanChunks
  MaxClaimAttempts = 2
INVARIANTS
  FinishedMeansDrained
PROPERTIES
  ScanCompletes
CHECK_DEADLOCK FALSE
