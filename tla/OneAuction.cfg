SPECIFICATION Spec
CONSTANTS
  Creators = {carol}
  Bidders = {bob, dave}
  Receivers = {treasury}
  Donors = {}
  NoOwner = NoOwner
  CreatorPurse = 1
  BidderPurse = 3
  DonorPurse = 0
  InitialWallet <- MCInitialWallet
  MaxWinners = 2
  MaxFeeBps = 2
  BpsDenominator = 4
  AntisnipeWindow = 2
  MinAntisnipeCap = 1
  MaxAntisnipeCap = 2
  MaxDuration = 2
  CloseGrace = 1
  CreatorDeposit = 1
  U64Max = 100
  FeeRates = {1}
  MinBids = {0, 2}
  Durations = {0, 1, 2, 3}
  WinnerCounts = {0, 1, 2, 3}
  Extensions = {0, 1, 2, 3}
  Amounts = {0, 1, 2}
  StrayAmounts = {}
  LegacySchemas = {}
  MaxAuctions = 1
  MaxProposals = 3
  LastCreate = 0
  MaxTime = 6
SYMMETRY BidderSymmetry
INVARIANTS
  TypeOK
  VaultBacksBids
  TotalsMatchBids
  WinnersAreTop
  AntisnipeHolds
  PayoutsNeverBlocked
PROPERTY PartitionFrozen
