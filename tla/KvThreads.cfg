SPECIFICATION Spec
CONSTANTS
  t1 = t1
  t2 = t2
  v1 = v1
  v2 = v2
  None = None
  Threads = {t1, t2}
  ProcOf <- OneProcess
  Values = {v1, v2}
  Inodes = {1, 2, 3, 4}
INVARIANTS NameIsWhole
