------------------------------ MODULE PoolMove ------------------------------
(***************************************************************************)
(* Moves of node pools without owner headers (class allocazam).  The move  *)
(* operations are defaulted: the chunks change hands (chunk_t's own move   *)
(* leaves its source empty, see Backing), while the numbers and the head   *)
(* of the free list are copied and stay in the source.                     *)
(*                                                                         *)
(* The program is a careful one: it gives a node back to the pool that has *)
(* its chunk, assigns over or destroys a pool only when nobody has a node  *)
(* of it, and does nothing else with a pool it has moved from.             *)
(***************************************************************************)
EXTENDS Integers, FiniteSets

CONSTANTS Pools, PoolSizes, MaxNodes

Node == 0 .. MaxNodes - 1

VARIABLES pool,    \* the pool objects
          carved,  \* nodes that exist
          held,    \* nodes the program has
          aborted  \* the pool whose destructor's assertion failed

vars == <<pool, carved, held, aborted>>

NoPool == [state |-> "unborn", size |-> 0, capacity |-> 0, growth |-> 0,
           free |-> {}, chunks |-> {}]

Init ==
  /\ pool = [p \in Pools |-> NoPool]
  /\ carved = 0
  /\ held = {}
  /\ aborted = {}

Nodes(p) == UNION pool[p].chunks
Outstanding(p) == Nodes(p) \cap held
Fresh(k) == carved .. carved + k - 1

Construct(p, k) ==
  /\ pool[p].state = "unborn" /\ carved + k <= MaxNodes
  /\ pool' = [pool EXCEPT ![p] = [state |-> "ready", size |-> 0, capacity |-> k,
                                  growth |-> k, free |-> Fresh(k), chunks |-> {Fresh(k)}]]
  /\ carved' = carved + k
  /\ UNCHANGED <<held, aborted>>

Allocate(p) ==
  /\ pool[p].state = "ready"
  /\ \E n \in pool[p].free :
        /\ pool' = [pool EXCEPT ![p].free = @ \ {n}, ![p].size = @ + 1]
        /\ held' = held \cup {n}
  /\ UNCHANGED <<carved, aborted>>

(* _grow, and the node that is handed out from the new chunk.              *)
AllocateGrowing(p) ==
  LET k == 2 * pool[p].growth
  IN  /\ pool[p].state = "ready" /\ pool[p].free = {}
      /\ carved + k <= MaxNodes
      /\ pool' = [pool EXCEPT ![p].growth = k, ![p].capacity = @ + k,
                              ![p].chunks = @ \cup {Fresh(k)}, ![p].size = @ + 1,
                              ![p].free = Fresh(k) \ {carved + k - 1}]
      /\ held' = held \cup {carved + k - 1}
      /\ carved' = carved + k
      /\ UNCHANGED aborted

Deallocate(p, n) ==
  /\ pool[p].state = "ready" /\ n \in Outstanding(p)
  /\ pool' = [pool EXCEPT ![p].free = @ \cup {n}, ![p].size = @ - 1]
  /\ held' = held \ {n}
  /\ UNCHANGED <<carved, aborted>>

(* What the defaulted move leaves behind: everything but the chunks.       *)
MovedFrom(q) == [pool[q] EXCEPT !.state = "moved", !.chunks = {}]

MoveConstruct(p, q) ==
  /\ pool[p].state = "unborn" /\ pool[q].state = "ready"
  /\ pool' = [pool EXCEPT ![p] = pool[q], ![q] = MovedFrom(q)]
  /\ UNCHANGED <<carved, held, aborted>>

MoveAssign(p, q) ==
  /\ p # q /\ pool[p].state \in {"ready", "moved"} /\ pool[q].state = "ready"
  /\ Outstanding(p) = {}
  /\ pool' = [pool EXCEPT ![p] = pool[q], ![q] = MovedFrom(q)]
  /\ UNCHANGED <<carved, held, aborted>>

Destroy(p) ==
  /\ pool[p].state \in {"ready", "moved"}
  /\ Outstanding(p) = {}
  /\ aborted' = IF pool[p].size = 0 THEN aborted ELSE aborted \cup {p}
  /\ pool' = [pool EXCEPT ![p] = [NoPool EXCEPT !.state = "dead"]]
  /\ UNCHANGED <<carved, held>>

Next == \E p \in Pools :
  \/ \E k \in PoolSizes : Construct(p, k)
  \/ Allocate(p) \/ AllocateGrowing(p) \/ Destroy(p)
  \/ \E n \in Node : Deallocate(p, n)
  \/ \E q \in Pools : MoveConstruct(p, q) \/ MoveAssign(p, q)

Spec == Init /\ [][Next]_vars

(* What the destructor's assertion says, "outstanding objects at pool      *)
(* destruction": it fails only for a pool of which somebody has a node.    *)
(* The program above never destroys such a pool.                           *)
AssertOnlyOutstanding == aborted = {}
=============================================================================
