SPECIFICATION Spec
CONSTANTS
  Threads = {o, r1, r2}
  Owner = o
  Modes = {"fixed", "dynamic", "noheap"}
  PoolSizes = {1, 2, 3, 4}
  MaxNodes = 4
  SizeMax = 7
  Null = Null
  Junk = Junk
  Nobody = Nobody
SYMMETRY Symmetry
INVARIANTS PoolInv ListsExact HandoutSafe DestructorAssert
PROPERTIES DrainBeforeFail FixedBudget ContractSpec
