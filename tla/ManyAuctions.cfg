SPECIFICATION Spec
CONSTANTS
  Creators = {carol}
  Bidders = {bob}
  Receivers = {treasury}
  Donors = {}
  NoOwner = NoOwner
  CreatorPurse = 2
  BidderPurse = 3
  DonorPurse = 0
  InitialWallet <- MCInitialWallet
  MaxWinners = 2
  MaxFeeBps = 2
  BpsDenominator = 4
  AntisnipeWindow = 2
  MinAntisnipeCap = 1
  MaxAntisnipeCap = 2
  MaxDuration = 2
  CloseGrace = 1
  CreatorDeposit = 1
  U64Max = 100
  FeeRates = {1}
  MinBids = {0}
  Durations = {1}
  WinnerCounts = {1}
  Extensions = {1}
  Amounts = {1}
  StrayAmounts = {}
  LegacySchemas = {1, 2}
  MaxAuctions = 2
  MaxProposals = 2
  LastCreate = 1
  MaxTime = 5
INVARIANTS
  DepositConserved
  VaultBacksBids
  BiddersWhole
  NobodyStranded
PROPERTIES
  NeverReopened
  ImplementsSettlement
