SPECIFICATION Spec
CONSTANTS
  Day = 3
  Sweepers = {1}
INVARIANTS
  LiveNeverSwept
