SPECIFICATION Spec
CONSTANTS
  Keys <- MCKeys
  MaxAuctions = 1
  EndTimes = {1}
  MaxTime = 1
  Slots = {interval, resolve}
  MaxBehind = 0
  MaxAhead = 0
  NoAta = {"dave"}
  Unindexed <- MCUnindexed
  Unseen = {}
  MaxFaults = 0
INVARIANTS
  RestIsUnpayable
