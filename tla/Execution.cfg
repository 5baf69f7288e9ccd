SPECIFICATION FairSpec
CONSTANTS
  Registrations <- MCRegistrations
  Inputs <- MCInputs
  PageSizes = {1, 2}
  MaxInputs = 2
  Executions = {"q1", "q2"}
  Processes = {"p1", "p2"}
  Batches = {1, 2}
  Null = Null
  Threads = {"t1", "t2"}
  Updates <- MCUpdates
  Windows <- MCWindows
  Frames <- MCFrames
  Chunks <- MCChunks
  MaxCalls = 3
  ScanPages <- MCScanPages
  Snapshots <- MCSnapshots
  Deltas <- MCDeltas
  MaxIds = 2
INVARIANTS
  WriterAndReaderApart
  OutputIsWhole
  DeliversWhatWasSunk
  QueriesAreApart
  AggregatesAreRight
  InForce
  RowsAreRight
PROPERTIES
  OutputEnds
  QueryEnds
\* Every call ends, answered, refused or abandoned.
CHECK_DEADLOCK FALSE
