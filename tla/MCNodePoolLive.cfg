SPECIFICATION FairSpec
CONSTANTS
  Threads = {o, r1, r2}
  Owner = o
  Modes = {"fixed", "dynamic"}
  PoolSizes = {1, 2}
  MaxNodes = 3
  SizeMax = 7
  Null = Null
  Junk = Junk
  Nobody = Nobody
PROPERTIES CallsReturn PushesProgress
