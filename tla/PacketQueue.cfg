SPECIFICATION FairRingSpec
CONSTANTS
  CAP = 2
  Word = 16
  MaxPackets = 4
INVARIANTS CountExact PacketsInOrder
PROPERTY UpdateReturns
