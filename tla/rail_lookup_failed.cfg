SPECIFICATION Spec
CONSTANTS
  Workers = {w1, w2}
  Ids = {r1}
  Bodies = {b1}
  Hashes = {h1}
  NoHash = NoHash
  NoLock = NoLock
  NoRecord = NoRecord
  Unreadable = Unreadable
  NoTx = NoTx
  NoJob = NoJob
  Faults = {"lookup_failed"}
  MaxSubmits = 1
  MaxCrashes = 0
INVARIANT FailedMeansUnpaid
CHECK_DEADLOCK FALSE
