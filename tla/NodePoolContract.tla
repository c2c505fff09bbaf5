------------------------- MODULE NodePoolContract -------------------------
(***************************************************************************)
(* What the node pool of lib/allocazam.hpp promises its callers, without   *)
(* lists, links or atomics.  A pool is a collection of slots.  A slot that *)
(* is idle may be handed to the thread that allocates; a held slot can     *)
(* change hands between threads; it goes back either at once (the owner    *)
(* frees it) or by way of a "returning" state (any thread pushes it), from *)
(* which only the owner takes it back.  Nothing else ever happens to a     *)
(* slot: in particular a held or returning slot is never handed out.  The  *)
(* pool's size() counts the slots that are out, returning ones included.   *)
(***************************************************************************)
EXTENDS Integers

CONSTANTS Slots, Threads, Owner, Nobody

VARIABLES slot,   \* what each slot is doing
          user,   \* the thread that holds it
          out     \* what size() returns

vars == <<slot, user, out>>

Init == /\ slot = [n \in Slots |-> "raw"]
        /\ user = [n \in Slots |-> Nobody]
        /\ out = 0

(* New backing memory: a set of raw slots becomes available.               *)
AddSlots == \E S \in SUBSET {n \in Slots : slot[n] = "raw"} :
               /\ slot' = [n \in Slots |-> IF n \in S THEN "idle" ELSE slot[n]]
               /\ UNCHANGED <<user, out>>

Take(n) == /\ slot[n] = "idle"
           /\ slot' = [slot EXCEPT ![n] = "held"]
           /\ user' = [user EXCEPT ![n] = Owner]
           /\ out' = out + 1

Pass(n, t) == /\ slot[n] = "held"
              /\ user' = [user EXCEPT ![n] = t]
              /\ UNCHANGED <<slot, out>>

FreeHere(n) == /\ slot[n] = "held"
               /\ user[n] = Owner
               /\ slot' = [slot EXCEPT ![n] = "idle"]
               /\ user' = [user EXCEPT ![n] = Nobody]
               /\ out' = out - 1

FreeElsewhere(n) == /\ slot[n] = "held"
                    /\ slot' = [slot EXCEPT ![n] = "returning"]
                    /\ user' = [user EXCEPT ![n] = Nobody]
                    /\ UNCHANGED out

Reclaim(n) == /\ slot[n] = "returning"
              /\ slot' = [slot EXCEPT ![n] = "idle"]
              /\ out' = out - 1
              /\ UNCHANGED user

Next == \/ AddSlots
        \/ \E n \in Slots : \/ Take(n)
                            \/ FreeHere(n)
                            \/ FreeElsewhere(n)
                            \/ Reclaim(n)
                            \/ \E t \in Threads : Pass(n, t)

Spec == Init /\ [][Next]_vars
===========================================================================
