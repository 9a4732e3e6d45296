SPECIFICATION Spec
CONSTANTS
  Workers = {w1, w2}
  Requests <- MCRequests
  FeeHeadroom <- MCFeeHeadroom
  MinBalance <- MCMinBalance
  Start <- MCStart
  Fee = 1
  FixedFee = 1
  Modulus = 18
  Supply <- MCSupply
  MaxAmount = 2
  NoJob = NoJob
  NoTx = NoTx
SYMMETRY FullSymmetry
INVARIANTS
  TypeOK
  DipBound
  ReserveDip
  FundedRunIsCovered
PROPERTIES
  QuietPaymentKeepsReserve
