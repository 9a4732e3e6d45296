SPECIFICATION Spec
CONSTANTS
  r1 = r1
  i1 = i1
  i2 = i2
  b1 = b1
  b2 = b2
  Runners = {w1, w2}
  Runs = {r1}
  Items = {i1, i2}
  Bodies = {b1, b2}
  Requests <- MixedRequests
  BadLine = BadLine
  NoJob = NoJob
  NoLock = NoLock
  NoRecord = NoRecord
  Unreadable = Unreadable
  Faults = {"crash", "power_loss", "item_error", "write_failed"}
  LinesPerTTL = 1
  MaxSubmits = 3
  MaxCrashes = 1
INVARIANTS
  TypeOK
  RunLockExcludes
  ReportedLinesAreExecuted
  OkRunPaidEveryLine
  FinalRunIsSettled
PROPERTY FinalRunIsKept
SYMMETRY RunnerSymmetry
CHECK_DEADLOCK FALSE
