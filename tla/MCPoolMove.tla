----------------------------- MODULE MCPoolMove -----------------------------
EXTENDS PoolMove
=============================================================================
