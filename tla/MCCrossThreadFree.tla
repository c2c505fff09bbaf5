------------------------ MODULE MCCrossThreadFree ------------------------
EXTENDS CrossThreadFree
=============================================================================
