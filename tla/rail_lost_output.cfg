SPECIFICATION Spec
CONSTANTS
  Workers = {w1, w2}
  Ids = {r1}
  Bodies = {b1}
  Hashes = {h1, h2}
  NoHash = NoHash
  NoLock = NoLock
  NoRecord = NoRecord
  Unreadable = Unreadable
  NoTx = NoTx
  NoJob = NoJob
  Faults = {"output_lost"}
  MaxSubmits = 2
  MaxCrashes = 0
INVARIANT NeverPaidTwice
CHECK_DEADLOCK FALSE
