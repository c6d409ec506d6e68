SPECIFICATION FairSpec
CONSTANTS
  Keys <- MCKeys
  MaxAuctions = 1
  EndTimes = {1}
  MaxTime = 1
  Slots = {interval, resolve}
  MaxBehind = 0
  MaxAhead = 0
  NoAta = {"dave"}
  Unindexed <- MCUnindexed
  Unseen = {0}
  MaxFaults = 1
INVARIANTS
  TypeOK
  DoneUnlessLapsed
  NeverPaidBlindly
PROPERTIES
  SettledForGood
  AllSettled
