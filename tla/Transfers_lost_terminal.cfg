CONSTANTS
  Capacity = 2
  Sizes = {1}
  Totals = {0, 1, 2, 3, 4, 5, 6}
  MaxSeq = 3
  Count = 3
  Ceiling = 1
SPECIFICATION FairTransfersSpec
CHECK_DEADLOCK FALSE
PROPERTY CancelledStillCompletes
