------------------------ MODULE MCExclusiveResource ------------------------
EXTENDS ExclusiveResource

(* A byte, an int, a record whose size divides few capacities, and a type  *)
(* aligned beyond max_align_t.                                             *)
MCTypes == {[size |-> 1, align |-> 1], [size |-> 4, align |-> 4],
            [size |-> 6, align |-> 2], [size |-> 8, align |-> 8]}
=============================================================================
