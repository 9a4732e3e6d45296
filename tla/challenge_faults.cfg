SPECIFICATION Spec
CONSTANTS
  c1 = c1
  i1 = i1
  i2 = i2
  i3 = i3
  ann = ann
  NoJob = NoJob
  NoLock = NoLock
  NoRecord = NoRecord
  Unreadable = Unreadable
  Settlers = {s1, s2}
  Ids = {c1}
  Items = {i1, i2, i3}
  Deposits <- AllDeposits
  Requests <- FaultRequests
  AutoTopUp = TRUE
  Floor = 1
  EscrowFloor = 1
  Fee = 1
  FixedFee = 1
  PayoutStart = 3
  EscrowStart = 9
  Faults = {"crash", "power_loss", "item_error", "write_failed", "slow", "refusals", "confirm_failed"}
  MaxSubmits = 2
  MaxCrashes = 1
SYMMETRY FullSymmetry
INVARIANTS
  TypeOK
  ReportedTransfersAreExecuted
  EscrowTopsUpOnce
PROPERTY FinalChallengeIsKept
CHECK_DEADLOCK FALSE
