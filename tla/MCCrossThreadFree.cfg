SPECIFICATION FairSpec
CONSTANTS
  MaxPairs = 2
  Rounds = 2
  Batches = 4
  BatchSize = 2
  FirstChunk = 1
  SizeMax = 15
CHECK_DEADLOCK FALSE
INVARIANT EveryNodeBack
PROPERTIES FootprintBounded SweepEnds
