SPECIFICATION Spec
CONSTANTS
  Keys <- MCKeys
  MaxAuctions = 1
  EndTimes = {1, 2}
  MaxTime = 2
  Slots = {interval, resolve}
  MaxBehind = 0
  MaxAhead = 1
  NoAta = {"dave"}
  Unindexed = {}
  Unseen = {}
  MaxFaults = 0
INVARIANTS
  DoneWhenOver
