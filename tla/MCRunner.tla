------------------------------ MODULE MCRunner ------------------------------
EXTENDS Runner
=============================================================================
