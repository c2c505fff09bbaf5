--------------------------- MODULE RunnerContract ---------------------------
(***************************************************************************)
(* What runner::allocator of lib/runner.hpp promises its callers, without  *)
(* headers, footers or bins.  Memory comes in chunks, mapped apart from    *)
(* each other.  A run is memory in a chunk that a caller may use: it has   *)
(* at least the room that was asked for, and no two runs share a byte.  A  *)
(* run stays where it is; it may become larger at its caller's request;    *)
(* it ends when the owner's thread frees it or, having been handed back by *)
(* any other thread, when the owner reclaims it.  live_bytes is the room   *)
(* of all runs, those on their way back included.                          *)
(*                                                                         *)
(* The actions are relations between two states: where a run is placed and *)
(* how much more room than needed it gets is left open.                    *)
(***************************************************************************)
EXTENDS Integers

CONSTANT Align      \* every run is a multiple of Align from address 0

VARIABLES chunk,    \* the chunks: [begin, bytes]
          run,      \* by address: [room, asked, back]
          live      \* what stats() reports as live_bytes

vars == <<chunk, run, live>>

Init == /\ run = [a \in {} |-> 0]
        /\ live = 0

Others(a) == [b \in DOMAIN run \ {a} |-> run[b]]

(* In the next state, the run at a has its place to itself.                *)
Placed(a) ==
  LET end == a + run'[a].room
  IN  /\ a % Align = 0
      /\ run'[a].room >= run'[a].asked
      /\ \E c \in chunk : c.begin <= a /\ end <= c.begin + c.bytes
      /\ \A b \in DOMAIN run \ {a} : end <= b \/ b + run[b].room <= a

AddChunk ==
  /\ \E c \in chunk' \ chunk :
        /\ chunk' = chunk \cup {c}
        /\ \A d \in chunk : \/ c.begin + c.bytes <= d.begin
                            \/ d.begin + d.bytes <= c.begin
  /\ UNCHANGED <<run, live>>

Take(a) ==
  /\ a \notin DOMAIN run
  /\ DOMAIN run' = DOMAIN run \cup {a}
  /\ \A b \in DOMAIN run : run'[b] = run[b]
  /\ ~run'[a].back
  /\ Placed(a)
  /\ live' = live + run'[a].room
  /\ UNCHANGED chunk

Widen(a) ==
  /\ a \in DOMAIN run /\ ~run[a].back
  /\ run' = [run EXCEPT ![a] = run'[a]]
  /\ ~run'[a].back /\ run'[a].asked > run[a].room
  /\ Placed(a)
  /\ live' = live + run'[a].room - run[a].room
  /\ UNCHANGED chunk

FreeHere(a) ==
  /\ a \in DOMAIN run /\ ~run[a].back
  /\ run' = Others(a)
  /\ live' = live - run[a].room
  /\ UNCHANGED chunk

FreeElsewhere(a) ==
  /\ a \in DOMAIN run /\ ~run[a].back
  /\ run' = [run EXCEPT ![a] = [room |-> @.room, asked |-> 0, back |-> TRUE]]
  /\ UNCHANGED <<chunk, live>>

Reclaim(a) ==
  /\ a \in DOMAIN run /\ run[a].back
  /\ run' = Others(a)
  /\ live' = live - run[a].room
  /\ UNCHANGED chunk

Next == \/ AddChunk
        \/ \E a \in DOMAIN run' : Take(a) \/ Widen(a)
        \/ \E a \in DOMAIN run : FreeHere(a) \/ FreeElsewhere(a) \/ Reclaim(a)

Spec == Init /\ [][Next]_vars
=============================================================================
