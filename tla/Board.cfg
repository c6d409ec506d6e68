SPECIFICATION Spec
CONSTANTS
  MaxWinners = 3
  WinnerCounts = {0, 1, 2, 3, 4}
  Raises = {1, 2, 3}
  MaxProposals = 4
  MaxTotal = 5
INVARIANT BoardIsTop
PROPERTIES
  ChangeReported
  ImplementsTopSet
CHECK_DEADLOCK FALSE
