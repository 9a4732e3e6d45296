SPECIFICATION FairSpec
CONSTANTS
  Workers = {w1, w2}
  Ids = {r1}
  Bodies = {b1}
  Hashes = {h1, h2}
  NoHash = NoHash
  NoLock = NoLock
  NoRecord = NoRecord
  Unreadable = Unreadable
  NoTx = NoTx
  NoJob = NoJob
  Faults = {"crash", "crash_in_flight", "power_loss", "output_lost", "write_failed", "holder_stalls"}
  MaxSubmits = 2
  MaxCrashes = 1
INVARIANT FailedMeansUnpaid
PROPERTY EveryAttemptEnds
CHECK_DEADLOCK FALSE
