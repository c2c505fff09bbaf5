------------------------- MODULE AllocatorContract -------------------------
(***************************************************************************)
(* What the suballocated std allocator of lib/allocazam.hpp promises the   *)
(* threads of a program, without pools, headers, registries or caches.     *)
(*                                                                         *)
(* Memory is carved, by the thread that asks for it, in one of the places  *)
(* that this thread may work in, and from then on belongs there: a block   *)
(* that is handed out belongs to a place of the thread that asked for it   *)
(* and is in nobody's hands.  While it is in somebody's hands it belongs   *)
(* where it did, whoever has it.  Any thread may give it back; only a      *)
(* thread that may work in its place unmakes or reuses it.                 *)
(*                                                                         *)
(* The actions are relations between two states.  What a thread does with  *)
(* memory that nobody has, in its own places, is left to it.               *)
(***************************************************************************)
EXTENDS Integers

CONSTANTS Threads, Blocks,
          Places,   \* the places that each thread may work in
          None

VARIABLES has,      \* the blocks in the hands of each thread
          origin    \* where each block belongs, None if it is not carved

vars == <<has, origin>>

Init == /\ has = [t \in Threads |-> {}]
        /\ origin = [b \in Blocks |-> None]

InUse == UNION {has[t] : t \in Threads}

(* Thread t carves, reuses and unmakes blocks of its own places that are   *)
(* in nobody's hands, or that it gives back in this step.                  *)
Works(t) ==
  \A b \in Blocks : origin'[b] # origin[b] =>
     /\ {origin[b], origin'[b]} \subseteq Places[t] \cup {None}
     /\ b \notin InUse \/ b \in has[t] \ has'[t]

(* A block that nobody has is handed out.                                  *)
Serve(t, b) == /\ has' = [has EXCEPT ![t] = @ \cup {b}]
               /\ origin'[b] \in Places[t]
               /\ Works(t)

(* What t has it gives back, or passes on.                                 *)
GiveBack(t, b) == /\ has' = [has EXCEPT ![t] = @ \ {b}]
                  /\ Works(t)

Pass(t, u, b) == /\ has' = [has EXCEPT ![t] = @ \ {b}, ![u] = @ \cup {b}]
                 /\ UNCHANGED origin

(* Refills, drains and flushes.                                            *)
Tend(t) == /\ UNCHANGED has
           /\ Works(t)

Next == \E t \in Threads :
           \/ Tend(t)
           \/ \E b \in Blocks \ InUse : Serve(t, b)
           \/ \E b \in has[t] : \/ GiveBack(t, b)
                                \/ \E u \in Threads : Pass(t, u, b)

Spec == Init /\ [][Next]_vars
=============================================================================
