SPECIFICATION SerialSpec
CONSTANTS
  p1 = p1
  p2 = p2
  p3 = p3
  a = a
  b = b
  c = c
  Procs = {p1, p2}
  Items = {a, b, c}
  Batches <- SerialBatches
  Primary = p1
  Chunks <- SerialChunks
  MaxClaimAttempts = 2
PROPERTIES
  PushedIsPopped
CHECK_DEADLOCK FALSE
