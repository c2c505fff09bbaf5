SPECIFICATION Spec
CONSTANTS
  Null = Null
  Chunks = {c1, c2, c3}
  Pools = {p1, p2}
  ListNodes = {n1, n2}
  NodeTypes <- MCTypes
  Sysconf = {0, 32}
  SlotCounts = {1, 3, 400}
  ByteCounts = {0, 40, 100, 500}
  Alignments = {4, 16, 24, 128}
  RunAlignment = 16
  DefaultPage = 64
  HugeBytes = 64
  MemBytes = 1024
  WordBits = 9
SYMMETRY MCSymmetry
INVARIANTS OwnedOnce LayoutExact
