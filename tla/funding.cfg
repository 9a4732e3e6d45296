SPECIFICATION Spec
CONSTANTS
  ann = ann
  bob = bob
  app = app
  ch = ch
  east = east
  west = west
  escrow = escrow
  payout = payout
  collector = collector
  uwolo = uwolo
  other = other
  Empty = Empty
  NoMemo = NoMemo
  Escrow = escrow
  Payout = payout
  BaseDenom = uwolo
  Txs <- MCTxs
  Filters <- AllFilters
  Limit = 1
  SearchFactor = 2
  SearchCap = 100
  Modulus = 8
  MaxTxs = 4
INVARIANTS
  TypeOK
  ListedFundingVerifies
  PollingFindsEveryDeposit
  VerifiedFundingIsBacked
