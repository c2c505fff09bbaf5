----------------------------- MODULE MCBacking -----------------------------
EXTENDS Backing, TLC
MCTypes == {[size |-> 4, align |-> 4], [size |-> 24, align |-> 8],
            [size |-> 20, align |-> 32], [size |-> 100, align |-> 4]}
MCSymmetry == Permutations(Chunks) \cup Permutations(Pools) \cup Permutations(ListNodes)
=============================================================================
