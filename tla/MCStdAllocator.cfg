SPECIFICATION FairSpec
CONSTANTS
  t1 = t1
  t2 = t2
  e1 = e1
  Null = Null
  Threads = {t1, t2}
  Explicit = {e1}
  Home <- MCHome
  Blocks = {b1, b2}
  Counts = {1, 2}
  MaxSize = 2
INVARIANTS OneThreadInside BlocksGoHome RegistryComplete
PROPERTIES CallsReturn ContractSpec
