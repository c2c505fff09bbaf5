SPECIFICATION Spec
CONSTANTS
  Pools = {a, b}
  PoolSizes = {1, 2}
  MaxNodes = 4
CHECK_DEADLOCK FALSE
INVARIANT AssertOnlyOutstanding
