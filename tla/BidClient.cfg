SPECIFICATION FairClientSpec
CONSTANTS
  ann = ann
  bob = bob
  Creators = {carol}
  Bidders = {ann, bob}
  Receivers = {treasury}
  Donors = {}
  NoOwner = NoOwner
  InitialWallet <- MCInitialWallet
  Requests <- MCRequests
  MaxSends = 3
  MaxFaults = 1
  MaxWinners = 1
  MaxFeeBps = 0
  BpsDenominator = 4
  AntisnipeWindow = 1
  MinAntisnipeCap = 1
  MaxAntisnipeCap = 1
  MaxDuration = 1
  CloseGrace = 1
  CreatorDeposit = 1
  U64Max = 100
  FeeRates = {0}
  MinBids = {1}
  Durations = {1}
  WinnerCounts = {1}
  Extensions = {1}
  Amounts = {1, 2}
  StrayAmounts = {}
  LegacySchemas = {}
  MaxAuctions = 1
  MaxProposals = 2
  LastCreate = 0
  MaxTime = 1
INVARIANTS
  ClientTypeOK
  StakedAsAsked
PROPERTY
  RaisesLand
CHECK_DEADLOCK FALSE
