--------------------------- MODULE MCStdAllocator ---------------------------
EXTENDS StdAllocator
CONSTANTS t1, t2, e1
MCHome == [e \in {e1} |-> t1]
=============================================================================
