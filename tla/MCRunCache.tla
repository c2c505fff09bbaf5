----------------------------- MODULE MCRunCache -----------------------------
EXTENDS RunCache
MCSymmetry == Permutations(Threads) \cup Permutations(Slots)
=============================================================================
