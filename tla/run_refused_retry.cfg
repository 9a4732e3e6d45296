SPECIFICATION Spec
CONSTANTS
  r1 = r1
  i1 = i1
  i2 = i2
  b1 = b1
  b2 = b2
  Runners = {w1, w2}
  Runs = {r1}
  Items = {i1, i2}
  Bodies = {b1, b2}
  Requests <- OneRun
  BadLine = BadLine
  NoJob = NoJob
  NoLock = NoLock
  NoRecord = NoRecord
  Unreadable = Unreadable
  Faults = {}
  LinesPerTTL = 3
  MaxSubmits = 2
  MaxCrashes = 0
INVARIANT FailedRunPaidNothing
CHECK_DEADLOCK FALSE
