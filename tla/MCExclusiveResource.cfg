SPECIFICATION Spec
CONSTANTS
  Types <- MCTypes
  Capacities = {1, 2, 3, 5}
  Spaces = {1, 7, 13, 19}
  Counts = {0, 1, 2, 3, 4, 6, 8, 16, 30}
  MinBytes = {0, 5, 9, 14, 20, 30, 41}
  MaxAlign = 4
  SizeMax = 31
  NoBlock = NoBlock
INVARIANTS LedgerInv MaxSizeExact
PROPERTY ClaimOnlyWidens
