SPECIFICATION FairSpec
CONSTANTS
  Operator = {1, 3}
  Page = 2
  MaxAuctions = 2
  MaxUpdates = 3
  MaxRestarts = 2
  MaxFaults = 2
INVARIANTS
  AnnouncedOnce
  AnsweredOnce
  CommandsKept
PROPERTIES
  NoneSkipped
  CreationsAnnounced
  CommandsAnswered
