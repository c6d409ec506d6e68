SPECIFICATION Spec
CONSTANTS
  Creators = {carol}
  Bidders = {bob}
  Receivers = {treasury, annex}
  Donors = {}
  NoOwner = NoOwner
  CreatorPurse = 1
  BidderPurse = 3
  DonorPurse = 2
  InitialWallet <- MCInitialWallet
  MaxWinners = 2
  MaxFeeBps = 2
  BpsDenominator = 4
  AntisnipeWindow = 2
  MinAntisnipeCap = 1
  MaxAntisnipeCap = 2
  MaxDuration = 2
  CloseGrace = 1
  CreatorDeposit = 1
  U64Max = 100
  FeeRates = {0, 2, 3}
  MinBids = {0}
  Durations = {1}
  WinnerCounts = {1}
  Extensions = {1}
  Amounts = {1, 2}
  StrayAmounts = {1}
  LegacySchemas = {}
  MaxAuctions = 1
  MaxProposals = 2
  LastCreate = 0
  MaxTime = 4
INVARIANT ForceCloseRecovers
