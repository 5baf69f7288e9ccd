SPECIFICATION Spec
CONSTANTS
  Registrations <- MCRegistrations
  Inputs <- MCInputs
  PageSizes = {1, 2}
  MaxInputs = 2
  Executions = {"q1", "q2"}
  Processes = {"p1", "p2"}
  Batches = {1, 2}
  Null = Null
  Threads = {"t1", "t2"}
  Updates <- MCUpdates
  Windows <- MCWindows
  Frames <- MCFrames
  Chunks <- MCChunks
  MaxCalls = 3
  ScanPages <- MCScanPages
  Snapshots <- MCSnapshots
  Deltas <- MCDeltas
  MaxIds = 2
INVARIANT
  InitServesWhatBindBound
CHECK_DEADLOCK FALSE
