SPECIFICATION Spec
CONSTANTS
  c1 = c1
  i1 = i1
  i2 = i2
  i3 = i3
  ann = ann
  NoJob = NoJob
  NoLock = NoLock
  NoRecord = NoRecord
  Unreadable = Unreadable
  Settlers = {s1}
  Ids = {c1}
  Items = {i1, i2}
  Deposits <- AllDeposits
  Requests <- OneRequest
  AutoTopUp = TRUE
  Floor = 1
  EscrowFloor = 1
  Fee = 1
  FixedFee = 1
  PayoutStart = 9
  EscrowStart = 9
  Faults = {"lookup_failed"}
  MaxSubmits = 2
  MaxCrashes = 0
INVARIANTS
  ConflictMeansOtherPayload
CHECK_DEADLOCK FALSE
