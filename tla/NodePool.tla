------------------------------ MODULE NodePool ------------------------------
(***************************************************************************)
(* The fixed-size node pool, class allocazam of lib/allocazam.hpp.         *)
(*                                                                         *)
(* One thread, Owner, allocates and deallocates; it keeps an intrusive     *)
(* free list whose link word is the first word of the node's own storage.  *)
(* In a pool with owner headers any thread may free a node by pushing it   *)
(* on a lock-free "remote" stack (remote_push), which the owner takes over *)
(* with one exchange when its free list runs empty, and once more in the   *)
(* destructor.  Each atomic access to the remote head, and each iteration  *)
(* of the owner's drain loop, is a step of its own; everything between two *)
(* of them touches only memory that no other thread may touch.             *)
(*                                                                         *)
(* A node is named by the order in which it was carved out of a chunk, so  *)
(* the nodes in existence are 0 .. capacity-1.                             *)
(***************************************************************************)
EXTENDS Integers, FiniteSets

CONSTANTS Threads,     \* the threads of the program
          Owner,       \* the thread the pool belongs to
          Modes,       \* the memory modes considered
          PoolSizes,   \* constructor arguments considered
          MaxNodes,    \* nodes that fit in the memory there is
          SizeMax,     \* numeric_limits<size_t>::max()
          Null,        \* nullptr
          Junk,        \* a link word overwritten by the user's object
          Nobody       \* not a thread

Node == 0 .. MaxNodes - 1

ASSUME OwnerAssumption == Owner \in Threads /\ Nobody \notin Threads
ASSUME BoundAssumption == MaxNodes \in Nat /\ SizeMax \in Nat \ {0}
ASSUME ModeAssumption == Modes \subseteq {"fixed", "dynamic", "noheap"}
ASSUME SizesAssumption == PoolSizes \subseteq 1 .. SizeMax
ASSUME NullAssumption == /\ Null \notin Node
                         /\ Junk \notin Node
                         /\ Null # Junk

VARIABLES
  phase,       \* lifetime of the pool object
  mode,        \* template parameter Mode
  headers,     \* template parameter OwnerHeaders
  size,        \* _size
  capacity,    \* _capacity
  nextGrowth,  \* _next_growth
  freeHead,    \* _free_head
  next,        \* the link word of each node
  remoteHead,  \* _remote.head
  opc,         \* where the owner is inside allocate() or ~allocazam()
  cursor,      \* the local n of _drain_remote
  push,        \* where each thread is inside remote_push
  holder,      \* the thread that has the node in use (the callers' state)
  where,       \* history: the place a node is in; no guard reads it
  owed         \* history: nodes parked when the current allocate() missed

poolVars == <<phase, mode, headers>>
sizeVars == <<size, capacity, nextGrowth>>
vars == <<poolVars, sizeVars, freeHead, next, remoteHead, opc, cursor, push,
          holder, where, owed>>

Places == {"raw", "free", "held", "pushing", "parked", "walk"}
Placed(p) == {n \in Node : where[n] = p}
Listed == {"free", "parked", "walk"}

IdlePush == [pc |-> "idle", node |-> Null, head |-> Null]
Pushing(t) == push[t].pc # "idle"

TypeOK ==
  /\ phase \in {"unborn", "ready", "closing", "dead", "aborted"}
  /\ mode \in {"fixed", "dynamic", "noheap"}
  /\ headers \in BOOLEAN
  /\ size \in 0 .. MaxNodes
  /\ capacity \in 0 .. MaxNodes
  /\ nextGrowth \in 0 .. SizeMax
  /\ freeHead \in Node \cup {Null}
  /\ next \in [Node -> Node \cup {Null, Junk}]
  /\ remoteHead \in Node \cup {Null}
  /\ opc \in {"idle", "miss", "walk", "drained", "empty"}
  /\ cursor \in Node \cup {Null}
  /\ push \in [Threads -> [pc : {"idle", "link", "cas"},
                           node : Node \cup {Null}, head : Node \cup {Null}]]
  /\ holder \in [Node -> Threads \cup {Nobody}]
  /\ where \in [Node -> Places]
  /\ owed \in SUBSET Node

-----------------------------------------------------------------------------
(* Construction.                                                           *)

HasSingleBit(k) == \E e \in 0 .. k : k = 2 ^ e

Init ==
  /\ phase = "unborn"
  /\ mode \in Modes
  /\ headers \in (IF mode = "noheap" THEN {FALSE} ELSE BOOLEAN)
  /\ size = 0 /\ capacity = 0 /\ nextGrowth = 0
  /\ freeHead = Null /\ remoteHead = Null /\ cursor = Null
  /\ next = [n \in Node |-> Junk]
  /\ opc = "idle"
  /\ push = [t \in Threads |-> IdlePush]
  /\ holder = [n \in Node |-> Nobody]
  /\ where = [n \in Node |-> "raw"]
  /\ owed = {}

(* _add_chunk and _add_external_chunk: the k new nodes are pushed on the   *)
(* free list in order, so the last one ends up as its head.  The memory    *)
(* request is the guard CanAdd; when it is refused, bad_alloc leaves the   *)
(* pool as it was before the call.                                         *)
CanAdd(k) == capacity + k <= MaxNodes

AddChunk(k) ==
  LET new == capacity .. capacity + k - 1
  IN  /\ CanAdd(k)
      /\ next' = [n \in Node |-> IF n \notin new THEN next[n]
                                 ELSE IF n = capacity THEN freeHead
                                 ELSE n - 1]
      /\ freeHead' = capacity + k - 1
      /\ capacity' = capacity + k
      /\ where' = [n \in Node |-> IF n \in new THEN "free" ELSE where[n]]

(* The eager constructor.  A pool size that is not a power of two throws,  *)
(* and so does a refused chunk: no pool comes into existence.              *)
ConstructEager(k) ==
  /\ phase = "unborn"
  /\ mode # "noheap"
  /\ HasSingleBit(k)
  /\ nextGrowth' = k
  /\ AddChunk(k)
  /\ phase' = "ready"
  /\ UNCHANGED <<mode, headers, size, remoteHead, opc, cursor, push, holder, owed>>

(* The lazy_init constructor defers the first chunk to allocate().         *)
ConstructLazy(k) ==
  /\ phase = "unborn"
  /\ mode # "noheap"
  /\ HasSingleBit(k)
  /\ nextGrowth' = k
  /\ phase' = "ready"
  /\ UNCHANGED <<mode, headers, size, capacity, freeHead, next, remoteHead, opc,
                 cursor, push, holder, where, owed>>

(* The noheap constructor: k whole nodes fit in the caller's buffer; the   *)
(* caller's buffer need not hold a power of two of them.                   *)
ConstructNoHeap(k) ==
  /\ phase = "unborn"
  /\ mode = "noheap"
  /\ AddChunk(k)
  /\ phase' = "ready"
  /\ UNCHANGED <<mode, headers, size, nextGrowth, remoteHead, opc, cursor, push,
                 holder, owed>>

-----------------------------------------------------------------------------
(* The owner: allocate().                                                  *)

OwnerMayCall == /\ phase = "ready"
                /\ opc = "idle"
                /\ ~ Pushing(Owner)

(* _pop_free_node, then ++_size: the owner now holds the head node, whose  *)
(* link word belongs to the user from here on.                             *)
HandOut ==
  /\ freeHead # Null
  /\ freeHead' = next[freeHead]
  /\ size' = size + 1
  /\ next' = [next EXCEPT ![freeHead] = Junk]
  /\ holder' = [holder EXCEPT ![freeHead] = Owner]
  /\ where' = [where EXCEPT ![freeHead] = "held"]
  /\ opc' = "idle"
  /\ owed' = {}
  /\ UNCHANGED <<poolVars, capacity, nextGrowth, remoteHead, cursor, push>>

AllocateHit == OwnerMayCall /\ HandOut

(* Mutant: the slow path goes on without draining.                         *)
MissWithoutDrain ==
  /\ OwnerMayCall
  /\ freeHead = Null
  /\ opc' = "empty"
  /\ owed' = Placed("parked")
  /\ UNCHANGED <<poolVars, sizeVars, freeHead, next, remoteHead, cursor, push,
                 holder, where>>

(* The free list is empty: the slow path begins.                           *)
AllocateMiss ==
  /\ OwnerMayCall
  /\ freeHead = Null
  /\ opc' = IF headers THEN "miss" ELSE "empty"
  /\ owed' = Placed("parked")
  /\ UNCHANGED <<poolVars, sizeVars, freeHead, next, remoteHead, cursor, push,
                 holder, where>>

(* _drain_remote: take the whole stack over in one exchange.               *)
DrainExchange ==
  /\ opc = "miss"
  /\ remoteHead' = Null
  /\ cursor' = remoteHead
  /\ where' = [n \in Node |-> IF where[n] = "parked" THEN "walk" ELSE where[n]]
  /\ opc' = IF remoteHead = Null THEN "empty" ELSE "walk"
  /\ UNCHANGED <<poolVars, sizeVars, freeHead, next, push, holder, owed>>

(* Mutants of the loop body: the link is read after _push_free_node has    *)
(* overwritten it; and --_size is forgotten.                               *)
SpliceThenAdvance ==
  /\ cursor # Null
  /\ cursor' = freeHead
  /\ next' = [next EXCEPT ![cursor] = freeHead]
  /\ freeHead' = cursor
  /\ size' = size - 1
  /\ where' = [where EXCEPT ![cursor] = "free"]
  /\ UNCHANGED <<poolVars, capacity, nextGrowth, remoteHead, push, holder, owed>>

SpliceUncounted ==
  /\ cursor # Null
  /\ cursor' = next[cursor]
  /\ next' = [next EXCEPT ![cursor] = freeHead]
  /\ freeHead' = cursor
  /\ where' = [where EXCEPT ![cursor] = "free"]
  /\ UNCHANGED <<poolVars, sizeVars, remoteHead, push, holder, owed>>

(* One iteration of its loop: read the link, then push the node on the     *)
(* free list (which overwrites that link), --_size, advance.               *)
Splice ==
  /\ cursor # Null
  /\ cursor' = next[cursor]
  /\ next' = [next EXCEPT ![cursor] = freeHead]
  /\ freeHead' = cursor
  /\ size' = size - 1
  /\ where' = [where EXCEPT ![cursor] = "free"]
  /\ UNCHANGED <<poolVars, capacity, nextGrowth, remoteHead, push, holder, owed>>

DrainStep ==
  /\ phase = "ready"
  /\ opc = "walk"
  /\ Splice
  /\ opc' = IF next[cursor] = Null THEN "drained" ELSE "walk"

AllocateDrained == opc = "drained" /\ HandOut

(* Mutant: the test for an empty pool is forgotten.                        *)
NeedsChunkAgain == mode # "noheap" /\ nextGrowth # 0

(* The first chunk of a lazily constructed pool, then _pop_free_node.      *)
NeedsFirstChunk == /\ mode # "noheap"
                   /\ capacity = 0
                   /\ nextGrowth # 0

FirstChunk ==
  /\ opc = "empty"
  /\ NeedsFirstChunk
  /\ AddChunk(nextGrowth)
  /\ opc' = "drained"
  /\ UNCHANGED <<poolVars, size, nextGrowth, remoteHead, cursor, push, holder, owed>>

(* A call that ends without a node: nullptr or an exception.               *)
AllocateFails ==
  /\ opc' = "idle"
  /\ owed' = {}
  /\ UNCHANGED <<poolVars, size, capacity, freeHead, next, remoteHead, cursor,
                 push, holder, where>>

(* operator new refuses the first chunk: bad_alloc leaves allocate().      *)
FirstChunkFails ==
  /\ opc = "empty"
  /\ NeedsFirstChunk
  /\ AllocateFails
  /\ UNCHANGED nextGrowth

(* Fixed and noheap pools report exhaustion by returning nullptr.          *)
Exhausted ==
  /\ opc = "empty"
  /\ mode # "dynamic"
  /\ ~ NeedsFirstChunk
  /\ AllocateFails
  /\ UNCHANGED nextGrowth

(* _grow: the doubling is checked, then stored before the chunk is asked   *)
(* for.                                                                    *)
MulUnchecked(a, b) == FALSE   \* mutant: an unchecked multiplication
MulOverflows(a, b) == a # 0 /\ b # 0 /\ a > SizeMax \div b
NextDoubled == IF 2 * nextGrowth > 1 THEN 2 * nextGrowth ELSE 1

Grow ==
  /\ opc = "empty"
  /\ mode = "dynamic"
  /\ ~ NeedsFirstChunk
  /\ ~ MulOverflows(nextGrowth, 2)
  /\ nextGrowth' = NextDoubled
  /\ AddChunk(NextDoubled)
  /\ opc' = "drained"
  /\ UNCHANGED <<poolVars, size, remoteHead, cursor, push, holder, owed>>

(* Mutant: a refused chunk is asked for again instead of giving up.        *)
GrowRetries ==
  /\ opc = "empty"
  /\ mode = "dynamic"
  /\ ~ NeedsFirstChunk
  /\ nextGrowth' = IF MulOverflows(nextGrowth, 2) THEN nextGrowth ELSE NextDoubled
  /\ UNCHANGED <<poolVars, size, capacity, freeHead, next, remoteHead, opc,
                 cursor, push, holder, where, owed>>

(* The doubling overflows, or the doubled chunk is refused after the new   *)
(* growth size has been stored.                                            *)
GrowFails ==
  /\ opc = "empty"
  /\ mode = "dynamic"
  /\ ~ NeedsFirstChunk
  /\ nextGrowth' = IF MulOverflows(nextGrowth, 2) THEN nextGrowth ELSE NextDoubled
  /\ AllocateFails

-----------------------------------------------------------------------------
(* deallocate(), and the callers passing nodes between threads.            *)

Deallocate(n) ==
  /\ OwnerMayCall
  /\ holder[n] = Owner
  /\ next' = [next EXCEPT ![n] = freeHead]
  /\ freeHead' = n
  /\ size' = size - 1
  /\ holder' = [holder EXCEPT ![n] = Nobody]
  /\ where' = [where EXCEPT ![n] = "free"]
  /\ UNCHANGED <<poolVars, capacity, nextGrowth, remoteHead, opc, cursor, push, owed>>

(* The program hands an object to another thread.                          *)
Handoff(n, t) ==
  /\ phase = "ready"
  /\ holder[n] \in Threads \ {t}
  /\ holder' = [holder EXCEPT ![n] = t]
  /\ UNCHANGED <<poolVars, sizeVars, freeHead, next, remoteHead, opc, cursor,
                 push, where, owed>>

-----------------------------------------------------------------------------
(* remote_push, by any thread: the owner's own thread uses it too when an  *)
(* allocator frees into a pool that is not the thread's own.               *)

PushLoad(t, n) ==
  /\ phase = "ready"
  /\ headers
  /\ ~ Pushing(t)
  /\ t = Owner => opc = "idle"
  /\ holder[n] = t
  /\ holder' = [holder EXCEPT ![n] = Nobody]
  /\ where' = [where EXCEPT ![n] = "pushing"]
  /\ push' = [push EXCEPT ![t] = [pc |-> "link", node |-> n, head |-> remoteHead]]
  /\ UNCHANGED <<poolVars, sizeVars, freeHead, next, remoteHead, opc, cursor, owed>>

(* The loop body stores the expected head in the node's link word.         *)
PushLink(t) ==
  /\ push[t].pc = "link"
  /\ next' = [next EXCEPT ![push[t].node] = push[t].head]
  /\ push' = [push EXCEPT ![t].pc = "cas"]
  /\ UNCHANGED <<poolVars, sizeVars, freeHead, remoteHead, opc, cursor, holder,
                 where, owed>>

(* Mutant: a plain store in place of the compare-exchange.                 *)
PushStore(t) ==
  /\ push[t].pc = "cas"
  /\ remoteHead' = push[t].node
  /\ where' = [where EXCEPT ![push[t].node] = "parked"]
  /\ push' = [push EXCEPT ![t] = IdlePush]
  /\ UNCHANGED <<poolVars, sizeVars, freeHead, next, opc, cursor, holder, owed>>

(* compare_exchange_weak succeeds ...                                      *)
PushCas(t) ==
  /\ push[t].pc = "cas"
  /\ remoteHead = push[t].head
  /\ remoteHead' = push[t].node
  /\ where' = [where EXCEPT ![push[t].node] = "parked"]
  /\ push' = [push EXCEPT ![t] = IdlePush]
  /\ UNCHANGED <<poolVars, sizeVars, freeHead, next, opc, cursor, holder, owed>>

(* Mutants of the failed compare-exchange: the link is not written again;  *)
(* and the expected head is not reloaded.                                  *)
CasFailKeepsLink(t) ==
  /\ push[t].pc = "cas"
  /\ push' = [push EXCEPT ![t].head = remoteHead]
  /\ UNCHANGED <<poolVars, sizeVars, freeHead, next, remoteHead, opc, cursor,
                 holder, where, owed>>

CasFailKeepsHead(t) ==
  /\ push[t].pc = "cas"
  /\ push' = [push EXCEPT ![t].pc = "link"]
  /\ UNCHANGED <<poolVars, sizeVars, freeHead, next, remoteHead, opc, cursor,
                 holder, where, owed>>

(* ... or fails, possibly spuriously, and reloads the expected head.       *)
PushCasFail(t) ==
  /\ push[t].pc = "cas"
  /\ push' = [push EXCEPT ![t].pc = "link", ![t].head = remoteHead]
  /\ UNCHANGED <<poolVars, sizeVars, freeHead, next, remoteHead, opc, cursor,
                 holder, where, owed>>

-----------------------------------------------------------------------------
(* ~allocazam(): single-threaded by contract, so no push is in flight; it  *)
(* drains once (with headers), then asserts _size == 0.                    *)

DestroyWithoutDrain ==   \* mutant: the remote stack is not drained
  /\ OwnerMayCall
  /\ \A t \in Threads : ~ Pushing(t)
  /\ phase' = "closing"
  /\ UNCHANGED <<mode, headers, sizeVars, freeHead, next, remoteHead, opc, cursor,
                 push, holder, where, owed>>

BeginDestroy ==
  /\ OwnerMayCall
  /\ \A t \in Threads : ~ Pushing(t)
  /\ phase' = "closing"
  /\ remoteHead' = Null
  /\ cursor' = remoteHead
  /\ where' = [n \in Node |-> IF where[n] = "parked" THEN "walk" ELSE where[n]]
  /\ UNCHANGED <<mode, headers, sizeVars, freeHead, next, opc, push, holder, owed>>

DestroyStep == phase = "closing" /\ Splice /\ UNCHANGED opc

FinishDestroy ==
  /\ phase = "closing"
  /\ cursor = Null
  /\ phase' = IF size = 0 THEN "dead" ELSE "aborted"
  /\ UNCHANGED <<mode, headers, sizeVars, freeHead, next, remoteHead, opc, cursor,
                 push, holder, where, owed>>

(* Nothing happens to a pool after its destructor.                         *)
Gone == phase \in {"dead", "aborted"} /\ UNCHANGED vars

-----------------------------------------------------------------------------
Construct == \E k \in PoolSizes : \/ ConstructEager(k)
                                  \/ ConstructLazy(k)
                                  \/ ConstructNoHeap(k)

(* The steps the owner takes by itself once it has entered a call.         *)
OwnerContinues == \/ DrainExchange \/ DrainStep \/ AllocateDrained
                  \/ FirstChunk \/ FirstChunkFails \/ Exhausted
                  \/ Grow \/ GrowFails
                  \/ DestroyStep \/ FinishDestroy

PushSteps(t) == PushLink(t) \/ PushCas(t) \/ PushCasFail(t)

Next == \/ Construct
        \/ AllocateHit \/ AllocateMiss
        \/ OwnerContinues
        \/ \E n \in Node : \/ Deallocate(n)
                           \/ \E t \in Threads : Handoff(n, t) \/ PushLoad(t, n)
        \/ \E t \in Threads : PushSteps(t)
        \/ BeginDestroy
        \/ Gone

Spec == Init /\ [][Next]_vars

(* A thread inside a call keeps running it; a weak compare-exchange that   *)
(* could succeed again and again does not fail spuriously for ever.        *)
Fairness == /\ WF_vars(OwnerContinues)
            /\ \A t \in Threads : WF_vars(PushSteps(t)) /\ SF_vars(PushCas(t))

FairSpec == Spec /\ Fairness

-----------------------------------------------------------------------------
(* Properties.                                                             *)

(* The words reached from h by following links, the final null included.   *)
Reach(h) ==
  LET R[k \in 0 .. MaxNodes] ==
        IF k = 0 THEN {h}
        ELSE R[k - 1] \cup {next[n] : n \in R[k - 1] \cap Node}
  IN  R[MaxNodes]

(* No node is ever lost or listed twice: the free list, the remote stack   *)
(* and the chain being drained are null-terminated and hold exactly the    *)
(* nodes freed by the owner or drained, the nodes whose push has taken     *)
(* effect, and the rest of the exchanged stack.  This is what makes the    *)
(* pusher's link-then-CAS, the single exchange and the read of the link    *)
(* before _push_free_node overwrites it work together.                     *)
ListsExact ==
  /\ Reach(freeHead) = Placed("free") \cup {Null}
  /\ Reach(remoteHead) = Placed("parked") \cup {Null}
  /\ Reach(cursor) = Placed("walk") \cup {Null}

(* The node the next allocate() would hand out is in nobody's hands: no    *)
(* thread uses it, and none is still inside remote_push with it; the same  *)
(* holds of the node the drain loop is about to splice.                    *)
HandoutSafe ==
  \A h \in {freeHead, cursor, remoteHead} \ {Null} :
     /\ holder[h] = Nobody
     /\ \A t \in Threads : Pushing(t) => push[t].node # h

(* _size counts the nodes that are not on the free list: those in use,     *)
(* those being pushed and those parked or half drained.  free_count() =    *)
(* _capacity - _size is therefore exactly the length of the free list.     *)
SizeExact ==
  size = Cardinality({n \in Node : where[n] \notin {"raw", "free"}})

(* The assertion of the destructor fires exactly when some node is still   *)
(* in use: routed frees that were never drained do not trip it.            *)
DestructorAssert ==
  phase \in {"dead", "aborted"} =>
     (phase = "aborted" <=> \E n \in Node : holder[n] # Nobody)

(* "exhaustion is not real until the remote stack is drained": a call that *)
(* missed while nodes were parked neither fails nor grows the pool.        *)
DrainBeforeFail ==
  [][(opc \in {"miss", "empty"} /\ owed # {})
        => /\ opc' = "idle" => size' = size + 1
           /\ capacity' = capacity]_vars

(* A fixed or noheap pool never gets a second chunk.                       *)
FixedBudget ==
  [][(mode # "dynamic" /\ capacity > 0) => capacity' = capacity]_vars

(* Every allocate() and every destructor returns.                          *)
CallsReturn ==
  (opc # "idle" \/ phase = "closing") ~> (opc = "idle" /\ phase # "closing")

(* remote_push is lock-free: while pushes are pending, pushes complete.    *)
PushesProgress ==
  []<>(\A t \in Threads : ~ Pushing(t)) \/ []<><<\E t \in Threads : PushCas(t)>>_vars

(* The pool implements its contract; "pushing", "parked" and "walk" are    *)
(* the contract's "returning".                                             *)
Contract == INSTANCE NodePoolContract WITH
  Slots <- Node,
  user <- holder,
  out <- size,
  slot <- [n \in Node |-> CASE where[n] = "free" -> "idle"
                            [] where[n] \in {"raw", "held"} -> where[n]
                            [] OTHER -> "returning"]

ContractSpec == Contract!Spec
-----------------------------------------------------------------------------
(* The inductive invariant behind the theorems of NodePoolProofs.          *)

(* Chunks are carved in order, an object not yet built has none, and only  *)
(* a live one is inside allocate().                                        *)
CarvedInOrder ==
  /\ \A n \in Node : where[n] = "raw" <=> n >= capacity
  /\ phase = "unborn" => capacity = 0
  /\ opc # "idle" => phase = "ready"

(* Each list head is a node of its own list.                               *)
HeadsPlaced ==
  /\ freeHead # Null => where[freeHead] = "free"
  /\ remoteHead # Null => where[remoteHead] = "parked"
  /\ cursor # Null => where[cursor] = "walk"

(* Links never leave their list, no two meet, and none leads to a head.    *)
LinksDisjoint ==
  \A n \in Node : where[n] \in Listed =>
     \/ next[n] = Null
     \/ /\ next[n] \in Node
        /\ where[next[n]] = where[n]
        /\ next[n] \notin {freeHead, remoteHead, cursor}
        /\ \A m \in Node : where[m] \in Listed /\ next[m] = next[n] => m = n

(* A node has a user exactly while it is handed out.                       *)
HeldHasHolder == \A n \in Node : holder[n] # Nobody <=> where[n] = "held"

(* A thread inside remote_push is alone with its node, and a node about to *)
(* be published links to the head the compare-exchange expects.            *)
PushersApart ==
  \A t \in Threads : Pushing(t) =>
     /\ headers
     /\ push[t].node \in Node
     /\ where[push[t].node] = "pushing"
     /\ push[t].pc = "cas" => next[push[t].node] = push[t].head
     /\ \A u \in Threads : Pushing(u) /\ push[u].node = push[t].node => u = t

(* What is parked is reachable at all, and what was parked when a call     *)
(* missed is still parked until that call drains.                          *)
OwedParked ==
  /\ remoteHead = Null => Placed("parked") = {}
  /\ ~ headers => remoteHead = Null
  /\ opc = "miss" => owed \subseteq Placed("parked")
  /\ opc = "empty" => owed = {}

(* Everything above together: where every node is, and that the program's  *)
(* pointers agree with it, through every interleaving of pushes and the    *)
(* owner's drain.                                                          *)
PoolInv == /\ TypeOK
           /\ CarvedInOrder
           /\ HeadsPlaced
           /\ LinksDisjoint
           /\ HeldHasHolder
           /\ PushersApart
           /\ OwedParked
           /\ SizeExact
=============================================================================
