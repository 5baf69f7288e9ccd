SPECIFICATION Spec
CONSTANTS
  p1 = p1
  p2 = p2
  p3 = p3
  a = a
  b = b
  c = c
  Procs = {p1, p2}
  Items = {a, b, c}
  Batches <- MCBatches
  MaxClaimAttempts = 2
SYMMETRY Symmetry
INVARIANTS CursorStrandsNothing
CHECK_DEADLOCK FALSE
