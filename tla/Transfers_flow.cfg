CONSTANTS
  Capacity = 4
  Sizes = {1}
  Totals = {0, 1, 2, 3, 4, 5, 6}
  MaxSeq = 6
  Count = 6
  Ceiling = 1
SPECIFICATION FairTransfersSpec
INVARIANT TransferTypeOK
INVARIANT GaplessInOrder
INVARIANT VerifiedIsComplete
INVARIANT SuccessIsWhole
INVARIANT OutcomeHasItsCause
INVARIANT OverflowNeedsALostPause
INVARIANT OldOrWhole
PROPERTY EveryTransferEnds
CHECK_DEADLOCK FALSE
