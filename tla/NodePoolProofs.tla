--------------------------- MODULE NodePoolProofs ---------------------------
(***************************************************************************)
(* Proofs about the node pool for any number of threads, any pool sizes    *)
(* and any amount of memory: its invariant, the safety of hand-outs, the   *)
(* exactness of _size, the two promises about growth and exhaustion, that  *)
(* it implements NodePoolContract, that its three lists hold exactly their *)
(* nodes, and when the destructor's assertion fires.                       *)
(***************************************************************************)
EXTENDS NodePool, LinkedListProofs

(* The nodes counted by _size.                                             *)
Out == {n \in Node : where[n] \notin {"raw", "free"}}

(* There are finitely many nodes, MaxNodes of them.                        *)
LEMMA NodesFinite ==
  /\ IsFiniteSet(Node)
  /\ Cardinality(Node) = MaxNodes
<1>1. MaxNodes - 1 \in Int /\ 0 \in Int
  BY BoundAssumption
<1>2. /\ IsFiniteSet(0 .. MaxNodes - 1)
      /\ Cardinality(0 .. MaxNodes - 1) =
           IF 0 > MaxNodes - 1 THEN 0 ELSE (MaxNodes - 1) - 0 + 1
  BY <1>1, FS_Interval
<1> QED
  BY <1>2, BoundAssumption DEF Node

(* Any set of nodes is finite and no larger than the memory.               *)
LEMMA NodeSubsets ==
  ASSUME NEW S \in SUBSET Node
  PROVE  /\ IsFiniteSet(S)
         /\ Cardinality(S) \in 0 .. MaxNodes
<1>1. IsFiniteSet(S) /\ Cardinality(S) <= Cardinality(Node)
  BY NodesFinite, FS_Subset
<1>2. Cardinality(S) \in Nat
  BY <1>1, FS_CardinalityType
<1> QED
  BY <1>1, <1>2, NodesFinite, BoundAssumption

(* Counting: one node more in the set is one more in its cardinality.      *)
LEMMA OneMore ==
  ASSUME NEW S \in SUBSET Node, NEW n \in Node, n \notin S
  PROVE  Cardinality(S \cup {n}) = Cardinality(S) + 1
BY NodeSubsets, FS_AddElement

(* ... and one node fewer is one less.                                     *)
LEMMA OneLess ==
  ASSUME NEW S \in SUBSET Node, NEW n \in S
  PROVE  Cardinality(S \ {n}) = Cardinality(S) - 1
BY NodeSubsets, FS_RemoveElement

-----------------------------------------------------------------------------
(* The pool before its constructor has run satisfies the invariant.        *)
LEMMA InitInv == Init => PoolInv
<1> SUFFICES ASSUME Init PROVE PoolInv
  OBVIOUS
<1>1. TypeOK
  <2>1. headers \in BOOLEAN
    BY DEF Init
  <2>2. mode \in {"fixed", "dynamic", "noheap"}
    BY ModeAssumption DEF Init
  <2>3. /\ size \in 0 .. MaxNodes
        /\ capacity \in 0 .. MaxNodes
        /\ nextGrowth \in 0 .. SizeMax
    BY BoundAssumption DEF Init
  <2>4. push \in [Threads -> [pc : {"idle", "link", "cas"},
                            node : Node \cup {Null}, head : Node \cup {Null}]]
    BY DEF Init, IdlePush
  <2> QED
    BY <2>1, <2>2, <2>3, <2>4 DEF Init, TypeOK, Places
<1>2. SizeExact
  <2>1. {n \in Node : where[n] \notin {"raw", "free"}} = {}
    BY DEF Init
  <2> QED
    BY <2>1, FS_EmptySet DEF SizeExact, Init
<1>3. CarvedInOrder
  BY DEF Init, CarvedInOrder, Node
<1>4. /\ HeadsPlaced
      /\ LinksDisjoint
      /\ HeldHasHolder
      /\ OwedParked
  BY DEF Init, HeadsPlaced, LinksDisjoint, HeldHasHolder, OwedParked, Placed, Listed
<1>5. PushersApart
  BY DEF Init, PushersApart, Pushing, IdlePush
<1> QED
  BY <1>1, <1>2, <1>3, <1>4, <1>5 DEF PoolInv

(* Carving a chunk of k new nodes keeps every list apart and exact.        *)
LEMMA AddChunkInv ==
  ASSUME PoolInv, NEW k \in Nat \ {0}, AddChunk(k),
         UNCHANGED <<size, remoteHead, cursor, push, holder>>
  PROVE  /\ freeHead' \in Node
         /\ next' \in [Node -> Node \cup {Null, Junk}]
         /\ capacity' \in 1 .. MaxNodes
         /\ where' \in [Node -> Places]
         /\ \A n \in Node : where'[n] = "raw" <=> n >= capacity'
         /\ HeadsPlaced'
         /\ LinksDisjoint'
         /\ HeldHasHolder'
         /\ \A n \in Node : where[n] # "raw" => where'[n] = where[n] /\ next'[n] = next[n]
         /\ Placed("parked")' = Placed("parked")
         /\ SizeExact'
<1> DEFINE new == capacity .. capacity + k - 1
<1> USE BoundAssumption, NullAssumption
<1>1. /\ TypeOK /\ capacity \in Nat /\ capacity + k <= MaxNodes
      /\ freeHead' = capacity + k - 1 /\ capacity' = capacity + k
      /\ next' = [n \in Node |-> IF n \notin new THEN next[n]
                                 ELSE IF n = capacity THEN freeHead ELSE n - 1]
      /\ where' = [n \in Node |-> IF n \in new THEN "free" ELSE where[n]]
  BY DEF PoolInv, TypeOK, AddChunk, CanAdd
<1>2. /\ freeHead' \in Node
      /\ capacity' \in 1 .. MaxNodes
      /\ new \subseteq Node
  BY <1>1 DEF Node
<1>3. where' \in [Node -> Places]
  BY <1>1 DEF TypeOK, Places
<1>4. next' \in [Node -> Node \cup {Null, Junk}]
  <2>1. \A n \in new : n # capacity => n - 1 \in Node
    BY <1>1 DEF Node
  <2> QED
    BY <1>1, <2>1 DEF TypeOK
<1>5. \A n \in Node : where[n] = "raw" <=> n >= capacity
  BY DEF PoolInv, CarvedInOrder
<1>6. \A n \in Node : where'[n] = "raw" <=> n >= capacity'
  BY <1>1, <1>5 DEF Node
<1>7. \A n \in Node : n \in new => where[n] = "raw"
  BY <1>1, <1>5
<1>8. \A n \in Node : where[n] # "raw" =>
          n \notin new /\ where'[n] = where[n] /\ next'[n] = next[n]
  BY <1>1, <1>7
<1>9. HeadsPlaced'
  <2>1. where'[freeHead'] = "free"
    BY <1>1, <1>2
  <2>2. remoteHead # Null => remoteHead \in Node /\ where[remoteHead] = "parked"
    BY DEF PoolInv, HeadsPlaced, TypeOK
  <2>3. cursor # Null => cursor \in Node /\ where[cursor] = "walk"
    BY DEF PoolInv, HeadsPlaced, TypeOK
  <2> QED
    BY <1>8, <2>1, <2>2, <2>3 DEF HeadsPlaced
<1>10. LinksDisjoint'
  <2>1. freeHead # Null => freeHead \in Node /\ where[freeHead] = "free"
    BY DEF PoolInv, HeadsPlaced, TypeOK
  <2>2. remoteHead # Null => remoteHead \in Node /\ where[remoteHead] = "parked"
    BY DEF PoolInv, HeadsPlaced, TypeOK
  <2>3. cursor # Null => cursor \in Node /\ where[cursor] = "walk"
    BY DEF PoolInv, HeadsPlaced, TypeOK
  <2>4. \A n \in Node : where[n] \in Listed =>
          \/ next[n] = Null
          \/ /\ next[n] \in Node
             /\ where[next[n]] = where[n]
             /\ next[n] \notin {freeHead, remoteHead, cursor}
             /\ \A m \in Node : where[m] \in Listed /\ next[m] = next[n] => m = n
    BY DEF PoolInv, LinksDisjoint
  <2> SUFFICES ASSUME NEW n \in Node, where'[n] \in Listed, next'[n] # Null
               PROVE  /\ next'[n] \in Node
                      /\ where'[next'[n]] = where'[n]
                      /\ next'[n] \notin {freeHead', remoteHead', cursor'}
                      /\ \A m \in Node : where'[m] \in Listed /\ next'[m] = next'[n]
                                           => m = n
    BY DEF LinksDisjoint
  <2>5. \A m \in Node : where'[m] \in Listed => m \in new \/ where[m] \in Listed
    BY <1>1
  <2>6. \A m \in Node : where[m] \in Listed => where[m] # "raw"
    BY DEF Listed
  <2>7. CASE n \in new /\ n # capacity
    <3>1. next'[n] = n - 1 /\ n - 1 \in new /\ n - 1 # freeHead'
      BY <1>1, <2>7
    <3>2. next'[n] \in Node /\ where'[next'[n]] = where'[n]
      BY <1>1, <1>2, <2>7, <3>1
    <3>3. n - 1 # remoteHead /\ n - 1 # cursor
      BY <1>2, <1>7, <2>2, <2>3, <3>1
    <3>4. ASSUME NEW m \in Node, where'[m] \in Listed, next'[m] = n - 1
          PROVE  m = n
      <4>1. CASE m \in new /\ m # capacity
        BY <1>1, <4>1, <3>4, <2>7
      <4>2. CASE m = capacity
        BY <1>1, <1>2, <1>7, <2>1, <4>2, <3>4, <3>1
      <4>3. CASE m \notin new
        BY <1>2, <1>7, <1>8, <2>4, <2>5, <2>6, <4>3, <3>4, <3>1
      <4> QED
        BY <4>1, <4>2, <4>3
    <3> QED
      BY <3>1, <3>2, <3>3, <3>4
  <2>8. CASE n = capacity
    <3>1. next'[n] = freeHead /\ n \in new /\ where'[n] = "free"
      BY <1>1, <2>8
    <3>2. next'[n] \in Node /\ where'[next'[n]] = where'[n]
      BY <1>8, <2>1, <3>1
    <3>3. freeHead # freeHead' /\ freeHead # remoteHead /\ freeHead # cursor
      BY <1>1, <1>7, <2>1, <2>2, <2>3, <3>1
    <3>4. ASSUME NEW m \in Node, where'[m] \in Listed, next'[m] = freeHead
          PROVE  m = n
      <4>1. CASE m \in new /\ m # capacity
        <5>1. m - 1 \in new /\ next'[m] = m - 1
          BY <1>1, <4>1
        <5> QED
          BY <1>2, <1>7, <2>1, <3>1, <3>4, <5>1
      <4>2. CASE m \notin new
        BY <1>8, <2>4, <2>5, <2>6, <3>1, <3>4, <4>2
      <4> QED
        BY <4>1, <4>2, <2>8
    <3> QED
      BY <3>1, <3>2, <3>3, <3>4
  <2>9. CASE n \notin new
    <3>1. where[n] \in Listed /\ where'[n] = where[n] /\ next'[n] = next[n]
      BY <1>8, <2>5, <2>6, <2>9
    <3>2. /\ next[n] \in Node
          /\ where[next[n]] = where[n]
          /\ next[n] \notin {freeHead, remoteHead, cursor}
          /\ \A m \in Node : where[m] \in Listed /\ next[m] = next[n] => m = n
      BY <2>4, <3>1
    <3>3. next[n] \notin new /\ where'[next[n]] = where[n]
      BY <1>8, <2>6, <3>1, <3>2
    <3>4. next[n] # freeHead'
      BY <1>1, <3>3
    <3>5. ASSUME NEW m \in Node, where'[m] \in Listed, next'[m] = next[n]
          PROVE  m = n
      <4>1. CASE m \in new /\ m # capacity
        <5>1. m - 1 \in new /\ next'[m] = m - 1
          BY <1>1, <4>1
        <5> QED
          BY <3>3, <3>5, <5>1
      <4>2. CASE m = capacity
        BY <1>1, <3>2, <3>5, <4>2
      <4>3. CASE m \notin new
        BY <1>8, <2>5, <2>6, <3>2, <3>5, <4>3
      <4> QED
        BY <4>1, <4>2, <4>3
    <3> QED
      BY <3>1, <3>2, <3>3, <3>4, <3>5
  <2> QED
    BY <2>7, <2>8, <2>9
<1>11. HeldHasHolder'
  BY <1>1, <1>7, <1>8 DEF PoolInv, HeldHasHolder
<1>12. Placed("parked")' = Placed("parked")
  BY <1>1, <1>7 DEF Placed
<1>13. SizeExact'
  <2>1. {n \in Node : where'[n] \notin {"raw", "free"}}
          = {n \in Node : where[n] \notin {"raw", "free"}}
    BY <1>1, <1>7
  <2> QED
    BY <2>1 DEF PoolInv, SizeExact
<1> QED
  BY <1>2, <1>3, <1>4, <1>6, <1>8, <1>9, <1>10, <1>11, <1>12, <1>13

-----------------------------------------------------------------------------
(* Steps that leave every node, link and head alone: a lazy construction,  *)
(* the beginning and the failures of allocate(), the end of destruction.   *)
LEMMA NodesUntouched ==
  ASSUME PoolInv,
         UNCHANGED <<headers, size, capacity, freeHead, next, remoteHead, cursor,
                     push, holder, where>>,
         phase' \in {"ready", "closing", "dead", "aborted"} \/ phase' = phase,
         mode' = mode,
         nextGrowth' \in 0 .. SizeMax,
         opc' \in {"idle", "miss", "walk", "drained", "empty"},
         opc' # "idle" => phase' = "ready",
         owed' \subseteq Node,
         opc' = "miss" => owed' \subseteq Placed("parked"),
         opc' = "empty" => owed' = {}
  PROVE  PoolInv'
<1>1. TypeOK'
  BY DEF PoolInv, TypeOK, Placed
<1>2. CarvedInOrder'
  BY DEF PoolInv, CarvedInOrder
<1>3. HeadsPlaced' /\ LinksDisjoint' /\ HeldHasHolder'
  BY DEF PoolInv, HeadsPlaced, LinksDisjoint, HeldHasHolder
<1>4. PushersApart'
  BY DEF PoolInv, PushersApart, Pushing
<1>5. OwedParked'
  BY DEF PoolInv, OwedParked, Placed
<1>6. SizeExact'
  BY DEF PoolInv, SizeExact
<1> QED
  BY <1>1, <1>2, <1>3, <1>4, <1>5, <1>6 DEF PoolInv

(* Steps that carve a chunk: the eager and noheap constructors, the first  *)
(* chunk of a lazy pool, and growth.                                       *)
LEMMA ChunkStep ==
  ASSUME PoolInv, NEW k \in Nat \ {0}, AddChunk(k),
         UNCHANGED <<mode, headers, size, remoteHead, cursor, push, holder, owed>>,
         phase' = "ready",
         nextGrowth' \in 0 .. SizeMax,
         opc' = "drained" \/ opc' = opc
  PROVE  PoolInv'
<1>0. /\ freeHead' \in Node
      /\ next' \in [Node -> Node \cup {Null, Junk}]
      /\ capacity' \in 1 .. MaxNodes
      /\ where' \in [Node -> Places]
      /\ \A n \in Node : where'[n] = "raw" <=> n >= capacity'
      /\ HeadsPlaced'
      /\ LinksDisjoint'
      /\ HeldHasHolder'
      /\ \A n \in Node : where[n] # "raw" => where'[n] = where[n] /\ next'[n] = next[n]
      /\ Placed("parked")' = Placed("parked")
      /\ SizeExact'
  BY AddChunkInv
<1>1. TypeOK'
  <2>1. capacity' \in 0 .. MaxNodes
    BY <1>0, BoundAssumption
  <2> QED
    BY <1>0, <2>1 DEF PoolInv, TypeOK
<1>2. CarvedInOrder'
  BY <1>0 DEF CarvedInOrder
<1>3. PushersApart'
  BY <1>0 DEF PoolInv, PushersApart, Pushing
<1>4. OwedParked'
  BY <1>0 DEF PoolInv, OwedParked
<1> QED
  BY <1>0, <1>1, <1>2, <1>3, <1>4 DEF PoolInv

(* Popping the head of the free list.                                      *)
LEMMA HandOutInv ==
  ASSUME PoolInv, HandOut
  PROVE  PoolInv'
<1> USE NullAssumption, BoundAssumption, OwnerAssumption
<1> DEFINE h == freeHead
<1>0. /\ TypeOK
      /\ h \in Node /\ where[h] = "free"
      /\ h # remoteHead /\ h # cursor
  BY DEF PoolInv, TypeOK, HeadsPlaced, HandOut
<1>1. /\ where' = [where EXCEPT ![h] = "held"]
      /\ next' = [next EXCEPT ![h] = Junk]
      /\ holder' = [holder EXCEPT ![h] = Owner]
      /\ freeHead' = next[h]
      /\ size' = size + 1
      /\ opc' = "idle" /\ owed' = {}
      /\ UNCHANGED <<phase, mode, headers, capacity, nextGrowth, remoteHead, cursor, push>>
  BY DEF HandOut, poolVars
<1>2. \/ next[h] = Null
      \/ /\ next[h] \in Node
         /\ where[next[h]] = "free"
         /\ next[h] \notin {freeHead, remoteHead, cursor}
         /\ \A m \in Node : where[m] \in Listed /\ next[m] = next[h] => m = h
  BY <1>0 DEF PoolInv, LinksDisjoint, Listed
<1>3. SizeExact' /\ size' \in 0 .. MaxNodes
  <2>1. Out' = Out \cup {h} /\ h \notin Out /\ Out \in SUBSET Node /\ Out' \in SUBSET Node
    BY <1>0, <1>1 DEF Out, TypeOK
  <2>2. Cardinality(Out') = Cardinality(Out) + 1
    BY <1>0, <2>1, OneMore
  <2>3. size = Cardinality(Out)
    BY DEF PoolInv, SizeExact, Out
  <2>4. Cardinality(Out') \in 0 .. MaxNodes
    BY <2>1, NodeSubsets
  <2> QED
    BY <1>1, <2>2, <2>3, <2>4 DEF SizeExact, Out
<1>4. TypeOK'
  <2>1. where' \in [Node -> Places]
    BY <1>0, <1>1 DEF TypeOK, Places
  <2>2. freeHead' \in Node \cup {Null}
    BY <1>1, <1>2
  <2>3. next' \in [Node -> Node \cup {Null, Junk}]
    BY <1>0, <1>1 DEF TypeOK
  <2>4. holder' \in [Node -> Threads \cup {Nobody}]
    BY <1>0, <1>1 DEF TypeOK
  <2> QED
    BY <1>0, <1>1, <1>3, <2>1, <2>2, <2>3, <2>4 DEF TypeOK
<1>5. CarvedInOrder'
  BY <1>0, <1>1 DEF PoolInv, CarvedInOrder, TypeOK
<1>6. HeadsPlaced'
  BY <1>0, <1>1, <1>2 DEF PoolInv, HeadsPlaced, TypeOK
<1>7. LinksDisjoint'
  <2> SUFFICES ASSUME NEW n \in Node, where'[n] \in Listed, next'[n] # Null
               PROVE  /\ next'[n] \in Node
                      /\ where'[next'[n]] = where'[n]
                      /\ next'[n] \notin {freeHead', remoteHead', cursor'}
                      /\ \A m \in Node : where'[m] \in Listed /\ next'[m] = next'[n]
                                           => m = n
    BY DEF LinksDisjoint
  <2>1. n # h /\ where'[n] = where[n] /\ next'[n] = next[n]
    BY <1>0, <1>1 DEF TypeOK, Listed
  <2>2. /\ next[n] \in Node
        /\ where[next[n]] = where[n]
        /\ next[n] \notin {freeHead, remoteHead, cursor}
        /\ \A m \in Node : where[m] \in Listed /\ next[m] = next[n] => m = n
    BY <2>1 DEF PoolInv, LinksDisjoint
  <2>3. \A m \in Node : where'[m] \in Listed => m # h /\ where'[m] = where[m] /\ next'[m] = next[m]
    BY <1>0, <1>1 DEF TypeOK, Listed
  <2>4. next[n] # freeHead'
    BY <1>0, <1>1, <2>1, <2>2 DEF Listed
  <2> QED
    BY <1>0, <1>1, <2>1, <2>2, <2>3, <2>4 DEF TypeOK
<1>8. HeldHasHolder'
  BY <1>0, <1>1 DEF PoolInv, HeldHasHolder, TypeOK
<1>9. PushersApart'
  BY <1>0, <1>1 DEF PoolInv, PushersApart, Pushing, TypeOK
<1>10. OwedParked'
  <2>1. Placed("parked")' = Placed("parked")
    BY <1>0, <1>1 DEF Placed, TypeOK
  <2> QED
    BY <1>1, <2>1 DEF PoolInv, OwedParked
<1> QED
  BY <1>3, <1>4, <1>5, <1>6, <1>7, <1>8, <1>9, <1>10 DEF PoolInv

(* _push_free_node and --_size, for the owner's deallocate() of a held     *)
(* node and for one iteration of the drain loop.                           *)
LEMMA ToFreeList ==
  ASSUME PoolInv, NEW x \in Node,
         \/ where[x] = "held" /\ cursor' = cursor
         \/ x = cursor /\ cursor' = next[x],
         next' = [next EXCEPT ![x] = freeHead],
         freeHead' = x,
         size' = size - 1,
         where' = [where EXCEPT ![x] = "free"],
         holder' \in [Node -> Threads \cup {Nobody}],
         \A n \in Node : holder'[n] = IF n = x THEN Nobody ELSE holder[n],
         UNCHANGED <<phase, mode, headers, capacity, nextGrowth, remoteHead, push, owed>>,
         opc' \in {"idle", "walk", "drained"},
         opc' # "idle" => phase' = "ready"
  PROVE  PoolInv'
<1> USE NullAssumption, BoundAssumption
<1>0. /\ TypeOK
      /\ where[x] = "held" \/ where[x] = "walk"
      /\ x # freeHead /\ x # remoteHead
      /\ freeHead # Null => freeHead \in Node /\ where[freeHead] = "free"
      /\ remoteHead # Null => remoteHead \in Node /\ where[remoteHead] = "parked"
      /\ cursor # Null => cursor \in Node /\ where[cursor] = "walk"
  BY DEF PoolInv, TypeOK, HeadsPlaced
<1>1. ASSUME NEW n \in Node, where[n] \in Listed, next[n] # Null
      PROVE  /\ next[n] \in Node
             /\ where[next[n]] = where[n]
             /\ next[n] \notin {freeHead, remoteHead, cursor}
             /\ \A m \in Node : where[m] \in Listed /\ next[m] = next[n] => m = n
  BY <1>1 DEF PoolInv, LinksDisjoint
<1>2. \/ cursor' = Null
      \/ /\ cursor' \in Node /\ cursor' # x /\ where[cursor'] = "walk"
         /\ \A m \in Node : where[m] \in Listed /\ next[m] = cursor' => m = x
  <2>1. CASE where[x] = "held" /\ cursor' = cursor
    BY <1>0, <1>1, <2>1
  <2>2. CASE x = cursor /\ cursor' = next[x]
    <3>1. where[x] = "walk" /\ where[x] \in Listed
      BY <1>0, <2>2 DEF Listed
    <3> QED
      BY <1>1, <2>2, <3>1
  <2> QED
    BY <2>1, <2>2
<1>3. SizeExact' /\ size' \in 0 .. MaxNodes
  <2>1. Out' = Out \ {x} /\ x \in Out /\ Out \in SUBSET Node /\ Out' \in SUBSET Node
    BY <1>0 DEF Out, TypeOK
  <2>2. Cardinality(Out') = Cardinality(Out) - 1
    BY <2>1, OneLess
  <2>3. size = Cardinality(Out)
    BY DEF PoolInv, SizeExact, Out
  <2>4. Cardinality(Out') \in 0 .. MaxNodes
    BY <2>1, NodeSubsets
  <2> QED
    BY <2>2, <2>3, <2>4 DEF SizeExact, Out
<1>4. TypeOK'
  <2>1. where' \in [Node -> Places]
    BY <1>0 DEF TypeOK, Places
  <2>2. next' \in [Node -> Node \cup {Null, Junk}]
    BY <1>0 DEF TypeOK
  <2> QED
    BY <1>0, <1>2, <1>3, <2>1, <2>2 DEF TypeOK
<1>5. CarvedInOrder'
  BY <1>0 DEF PoolInv, CarvedInOrder, TypeOK
<1>6. HeadsPlaced'
  BY <1>0, <1>2 DEF HeadsPlaced, TypeOK
<1>7. LinksDisjoint'
  <2> SUFFICES ASSUME NEW n \in Node, where'[n] \in Listed, next'[n] # Null
               PROVE  /\ next'[n] \in Node
                      /\ where'[next'[n]] = where'[n]
                      /\ next'[n] \notin {freeHead', remoteHead', cursor'}
                      /\ \A m \in Node : where'[m] \in Listed /\ next'[m] = next'[n]
                                           => m = n
    BY DEF LinksDisjoint
  <2>1. \A m \in Node : m # x => where'[m] = where[m] /\ next'[m] = next[m]
    BY <1>0 DEF TypeOK
  <2>2. where'[x] = "free" /\ next'[x] = freeHead
    BY <1>0 DEF TypeOK
  <2>3. CASE n = x
    <3>1. freeHead \in Node /\ where'[freeHead] = "free"
      BY <1>0, <2>1, <2>2, <2>3
    <3>2. freeHead # x /\ freeHead # remoteHead /\ freeHead # cursor'
      BY <1>0, <1>2, <3>1
    <3>3. \A m \in Node : where[m] \in Listed => next[m] # freeHead
      BY <1>0, <1>1, <2>2, <2>3
    <3> QED
      BY <2>1, <2>2, <2>3, <3>1, <3>2, <3>3
  <2>4. CASE n # x
    <3>1. /\ next[n] \in Node
          /\ where[n] \in Listed
          /\ where[next[n]] = where[n]
          /\ next[n] \notin {freeHead, remoteHead, cursor}
          /\ \A m \in Node : where[m] \in Listed /\ next[m] = next[n] => m = n
      BY <1>1, <2>1, <2>4
    <3>2. next[n] # x
      BY <1>0, <3>1 DEF Listed
    <3>3. next[n] # cursor'
      BY <1>2, <2>4, <3>1
    <3> QED
      BY <2>1, <2>2, <2>4, <3>1, <3>2, <3>3
  <2> QED
    BY <2>3, <2>4
<1>8. HeldHasHolder'
  BY <1>0 DEF PoolInv, HeldHasHolder, TypeOK
<1>9. PushersApart'
  BY <1>0 DEF PoolInv, PushersApart, Pushing, TypeOK
<1>10. OwedParked'
  <2>1. Placed("parked")' = Placed("parked")
    BY <1>0 DEF Placed, TypeOK
  <2> QED
    BY <2>1 DEF PoolInv, OwedParked
<1> QED
  BY <1>3, <1>4, <1>5, <1>6, <1>7, <1>8, <1>9, <1>10 DEF PoolInv

(* The exchange that takes the whole remote stack over.                    *)
LEMMA ExchangeInv ==
  ASSUME PoolInv,
         remoteHead' = Null,
         cursor' = remoteHead,
         where' = [n \in Node |-> IF where[n] = "parked" THEN "walk" ELSE where[n]],
         UNCHANGED <<mode, headers, size, capacity, nextGrowth, freeHead, next, push,
                     holder, owed>>,
         phase' \in {"ready", "closing"},
         opc' \in {"idle", "walk", "empty"},
         opc' # "idle" => phase' = "ready",
         opc' = "empty" => opc = "miss" /\ remoteHead = Null
  PROVE  PoolInv'
<1> USE NullAssumption
<1>0. TypeOK /\ phase' # "unborn"
  BY DEF PoolInv
<1>1. TypeOK'
  BY DEF PoolInv, TypeOK, Places
<1>2. CarvedInOrder'
  BY DEF PoolInv, CarvedInOrder
<1>3. HeadsPlaced'
  BY <1>0 DEF PoolInv, HeadsPlaced, TypeOK
<1>4. LinksDisjoint'
  <2>1. \A n \in Node : where'[n] \in Listed <=> where[n] \in Listed
    BY DEF Listed
  <2>2. \A m, n \in Node : where[m] = where[n] => where'[m] = where'[n]
    OBVIOUS
  <2> QED
    BY <2>1, <2>2 DEF PoolInv, LinksDisjoint
<1>5. HeldHasHolder'
  BY DEF PoolInv, HeldHasHolder
<1>6. PushersApart'
  BY DEF PoolInv, PushersApart, Pushing
<1>7. OwedParked'
  <2>1. Placed("parked")' = {}
    BY DEF Placed
  <2>2. opc' = "empty" => owed' = {}
    BY DEF PoolInv, OwedParked
  <2> QED
    BY <2>1, <2>2 DEF OwedParked
<1>8. SizeExact'
  <2>1. {n \in Node : where'[n] \notin {"raw", "free"}}
          = {n \in Node : where[n] \notin {"raw", "free"}}
    OBVIOUS
  <2> QED
    BY <2>1 DEF PoolInv, SizeExact
<1> QED
  BY <1>1, <1>2, <1>3, <1>4, <1>5, <1>6, <1>7, <1>8 DEF PoolInv

(* A node passed from one thread to another.                               *)
LEMMA HandoffInv ==
  ASSUME PoolInv, NEW n \in Node, NEW t \in Threads, Handoff(n, t)
  PROVE  PoolInv'
<1> USE OwnerAssumption
<1>0. /\ TypeOK
      /\ holder[n] # Nobody
      /\ holder' = [holder EXCEPT ![n] = t]
      /\ UNCHANGED <<phase, mode, headers, size, capacity, nextGrowth, freeHead, next,
                     remoteHead, opc, cursor, push, where, owed>>
  BY DEF PoolInv, Handoff, poolVars, sizeVars
<1>1. TypeOK'
  BY <1>0 DEF TypeOK
<1>2. HeldHasHolder'
  BY <1>0 DEF PoolInv, HeldHasHolder, TypeOK
<1>3. CarvedInOrder' /\ HeadsPlaced' /\ LinksDisjoint' /\ SizeExact'
  BY <1>0 DEF PoolInv, CarvedInOrder, HeadsPlaced, LinksDisjoint, SizeExact
<1>4. PushersApart' /\ OwedParked'
  BY <1>0 DEF PoolInv, PushersApart, Pushing, OwedParked, Placed
<1> QED
  BY <1>1, <1>2, <1>3, <1>4 DEF PoolInv

-----------------------------------------------------------------------------
(* The four steps of remote_push.  Its node is on no list, so writing its  *)
(* link disturbs nothing, and publishing it adds one node to one list.     *)
LEMMA PushLoadInv ==
  ASSUME PoolInv, NEW t \in Threads, NEW n \in Node, PushLoad(t, n)
  PROVE  PoolInv'
<1> USE NullAssumption, OwnerAssumption
<1>0. /\ TypeOK /\ headers
      /\ where[n] = "held"
      /\ n # freeHead /\ n # remoteHead /\ n # cursor
      /\ ~ Pushing(t)
      /\ holder' = [holder EXCEPT ![n] = Nobody]
      /\ where' = [where EXCEPT ![n] = "pushing"]
      /\ push' = [push EXCEPT ![t] = [pc |-> "link", node |-> n, head |-> remoteHead]]
      /\ UNCHANGED <<phase, mode, headers, size, capacity, nextGrowth, freeHead, next,
                     remoteHead, opc, cursor, owed>>
  BY DEF PoolInv, PushLoad, poolVars, sizeVars, HeldHasHolder, HeadsPlaced
<1>1. TypeOK'
  <2>1. where' \in [Node -> Places]
    BY <1>0 DEF TypeOK, Places
  <2>2. push' \in [Threads -> [pc : {"idle", "link", "cas"},
                               node : Node \cup {Null}, head : Node \cup {Null}]]
    BY <1>0 DEF TypeOK
  <2> QED
    BY <1>0, <2>1, <2>2 DEF TypeOK
<1>2. CarvedInOrder' /\ HeadsPlaced' /\ HeldHasHolder'
  BY <1>0 DEF PoolInv, CarvedInOrder, HeadsPlaced, HeldHasHolder, TypeOK
<1>3. LinksDisjoint'
  <2>1. \A m \in Node : where'[m] \in Listed <=> where[m] \in Listed
    BY <1>0 DEF Listed, TypeOK
  <2>2. \A m \in Node : where[m] \in Listed => where'[m] = where[m]
    BY <1>0 DEF Listed, TypeOK
  <2> QED
    BY <1>0, <2>1, <2>2 DEF PoolInv, LinksDisjoint, TypeOK
<1>4. PushersApart'
  <2>1. push'[t] = [pc |-> "link", node |-> n, head |-> remoteHead]
    BY <1>0 DEF TypeOK
  <2>2. \A u \in Threads : u # t => push'[u] = push[u]
    BY <1>0 DEF TypeOK
  <2>3. \A u \in Threads : Pushing(u) => push[u].node # n /\ push[u].node \in Node
    BY <1>0 DEF PoolInv, PushersApart
  <2>4. where'[n] = "pushing" /\ \A m \in Node : m # n => where'[m] = where[m]
    BY <1>0 DEF TypeOK
  <2>5. ASSUME NEW u \in Threads, Pushing(u)'
        PROVE  /\ headers'
               /\ push'[u].node \in Node
               /\ where'[push'[u].node] = "pushing"
               /\ push'[u].pc = "cas" => next'[push'[u].node] = push'[u].head
               /\ \A v \in Threads : Pushing(v)' /\ push'[v].node = push'[u].node => v = u
    <3>1. CASE u = t
      BY <1>0, <2>1, <2>2, <2>3, <2>4, <2>5, <3>1 DEF Pushing
    <3>2. CASE u # t
      BY <1>0, <2>1, <2>2, <2>3, <2>4, <2>5, <3>2 DEF Pushing, PoolInv, PushersApart
    <3> QED
      BY <3>1, <3>2
  <2> QED
    BY <2>5 DEF PushersApart
<1>5. OwedParked'
  <2>1. Placed("parked")' = Placed("parked")
    BY <1>0 DEF Placed, TypeOK
  <2> QED
    BY <1>0, <2>1 DEF PoolInv, OwedParked
<1>6. SizeExact'
  <2>1. {m \in Node : where'[m] \notin {"raw", "free"}}
          = {m \in Node : where[m] \notin {"raw", "free"}}
    BY <1>0 DEF TypeOK
  <2> QED
    BY <1>0, <2>1 DEF PoolInv, SizeExact
<1> QED
  BY <1>1, <1>2, <1>3, <1>4, <1>5, <1>6 DEF PoolInv

(* The loop body: the expected head goes into the pushed node's link.      *)
LEMMA PushLinkInv ==
  ASSUME PoolInv, NEW t \in Threads, PushLink(t)
  PROVE  PoolInv'
<1> DEFINE n == push[t].node
<1>0. /\ TypeOK /\ headers
      /\ push[t].pc = "link"
      /\ n \in Node /\ where[n] = "pushing"
      /\ \A u \in Threads : Pushing(u) /\ push[u].node = n => u = t
      /\ next' = [next EXCEPT ![n] = push[t].head]
      /\ push' = [push EXCEPT ![t].pc = "cas"]
      /\ UNCHANGED <<phase, mode, headers, size, capacity, nextGrowth, freeHead,
                     remoteHead, opc, cursor, holder, where, owed>>
  BY DEF PoolInv, PushLink, poolVars, sizeVars, PushersApart, Pushing
<1>1. TypeOK'
  BY <1>0 DEF TypeOK
<1>2. CarvedInOrder' /\ HeadsPlaced' /\ HeldHasHolder' /\ SizeExact' /\ OwedParked'
  BY <1>0 DEF PoolInv, CarvedInOrder, HeadsPlaced, HeldHasHolder, SizeExact, OwedParked,
              Placed
<1>3. LinksDisjoint'
  <2>1. \A m \in Node : where[m] \in Listed => next'[m] = next[m]
    BY <1>0 DEF Listed, TypeOK
  <2> QED
    BY <1>0, <2>1 DEF PoolInv, LinksDisjoint
<1>4. PushersApart'
  <2>1. /\ push'[t].pc = "cas" /\ push'[t].node = n /\ push'[t].head = push[t].head
        /\ next'[n] = push[t].head
    BY <1>0 DEF TypeOK
  <2>2. \A u \in Threads : u # t => push'[u] = push[u]
    BY <1>0 DEF TypeOK
  <2>3. \A u \in Threads : Pushing(u)' <=> Pushing(u)
    BY <1>0, <2>1, <2>2 DEF Pushing
  <2>4. \A u \in Threads : push'[u].node = push[u].node
    BY <2>1, <2>2
  <2>5. \A u \in Threads : u # t /\ Pushing(u) =>
           push[u].node # n /\ next'[push[u].node] = next[push[u].node]
    BY <1>0 DEF TypeOK, PoolInv, PushersApart
  <2> QED
    BY <1>0, <2>1, <2>2, <2>3, <2>4, <2>5 DEF PoolInv, PushersApart
<1> QED
  BY <1>1, <1>2, <1>3, <1>4 DEF PoolInv

(* The compare-exchange that publishes the node.                           *)
LEMMA PushCasInv ==
  ASSUME PoolInv, NEW t \in Threads, PushCas(t)
  PROVE  PoolInv'
<1> USE NullAssumption
<1> DEFINE n == push[t].node
<1>0. /\ TypeOK /\ headers
      /\ push[t].pc = "cas"
      /\ n \in Node /\ where[n] = "pushing"
      /\ next[n] = remoteHead
      /\ \A u \in Threads : Pushing(u) /\ push[u].node = n => u = t
      /\ remoteHead' = n
      /\ where' = [where EXCEPT ![n] = "parked"]
      /\ push' = [push EXCEPT ![t] = IdlePush]
      /\ UNCHANGED <<phase, mode, headers, size, capacity, nextGrowth, freeHead, next,
                     opc, cursor, holder, owed>>
  BY DEF PoolInv, PushCas, poolVars, sizeVars, PushersApart, Pushing
<1>1. /\ freeHead # Null => freeHead \in Node /\ where[freeHead] = "free"
      /\ remoteHead # Null => remoteHead \in Node /\ where[remoteHead] = "parked"
      /\ cursor # Null => cursor \in Node /\ where[cursor] = "walk"
  BY <1>0 DEF PoolInv, HeadsPlaced, TypeOK
<1>2. where'[n] = "parked" /\ \A m \in Node : m # n => where'[m] = where[m]
  BY <1>0 DEF TypeOK
<1>3. TypeOK'
  <2>1. where' \in [Node -> Places]
    BY <1>0 DEF TypeOK, Places
  <2>2. push' \in [Threads -> [pc : {"idle", "link", "cas"},
                               node : Node \cup {Null}, head : Node \cup {Null}]]
    BY <1>0 DEF TypeOK, IdlePush
  <2> QED
    BY <1>0, <2>1, <2>2 DEF TypeOK
<1>4. CarvedInOrder' /\ HeldHasHolder'
  BY <1>0, <1>2 DEF PoolInv, CarvedInOrder, HeldHasHolder
<1>5. HeadsPlaced'
  BY <1>0, <1>1, <1>2 DEF HeadsPlaced
<1>6. LinksDisjoint'
  <2>1. ASSUME NEW m \in Node, where[m] \in Listed, next[m] # Null
        PROVE  /\ next[m] \in Node /\ next[m] # n
               /\ where[next[m]] = where[m]
               /\ next[m] \notin {freeHead, remoteHead, cursor}
               /\ \A l \in Node : where[l] \in Listed /\ next[l] = next[m] => l = m
    BY <1>0, <2>1 DEF PoolInv, LinksDisjoint, Listed
  <2> SUFFICES ASSUME NEW m \in Node, where'[m] \in Listed, next'[m] # Null
               PROVE  /\ next'[m] \in Node
                      /\ where'[next'[m]] = where'[m]
                      /\ next'[m] \notin {freeHead', remoteHead', cursor'}
                      /\ \A l \in Node : where'[l] \in Listed /\ next'[l] = next'[m]
                                           => l = m
    BY DEF LinksDisjoint
  <2>2. \A l \in Node : where'[l] \in Listed => l = n \/ where[l] \in Listed
    BY <1>2
  <2>3. CASE m = n
    BY <1>0, <1>1, <1>2, <2>1, <2>2, <2>3
  <2>4. CASE m # n
    BY <1>0, <1>1, <1>2, <2>1, <2>2, <2>4
  <2> QED
    BY <2>3, <2>4
<1>7. PushersApart'
  <2>1. \A u \in Threads : u # t => push'[u] = push[u]
    BY <1>0 DEF TypeOK
  <2>2. ~ Pushing(t)'
    BY <1>0 DEF Pushing, IdlePush, TypeOK
  <2> QED
    BY <1>0, <1>2, <2>1, <2>2 DEF PoolInv, PushersApart, Pushing
<1>8. OwedParked'
  <2>1. Placed("parked") \subseteq Placed("parked")'
    BY <1>2 DEF Placed
  <2> QED
    BY <1>0, <2>1 DEF PoolInv, OwedParked
<1>9. SizeExact'
  <2>1. {m \in Node : where'[m] \notin {"raw", "free"}}
          = {m \in Node : where[m] \notin {"raw", "free"}}
    BY <1>0, <1>2
  <2> QED
    BY <1>0, <2>1 DEF PoolInv, SizeExact
<1> QED
  BY <1>3, <1>4, <1>5, <1>6, <1>7, <1>8, <1>9 DEF PoolInv

(* A failed compare-exchange reloads the head and goes round again.        *)
LEMMA PushCasFailInv ==
  ASSUME PoolInv, NEW t \in Threads, PushCasFail(t)
  PROVE  PoolInv'
<1>0. /\ TypeOK
      /\ push[t].pc = "cas"
      /\ push' = [push EXCEPT ![t].pc = "link", ![t].head = remoteHead]
      /\ UNCHANGED <<phase, mode, headers, size, capacity, nextGrowth, freeHead, next,
                     remoteHead, opc, cursor, holder, where, owed>>
  BY DEF PoolInv, PushCasFail, poolVars, sizeVars
<1>1. TypeOK'
  <2>1. push' \in [Threads -> [pc : {"idle", "link", "cas"},
                               node : Node \cup {Null}, head : Node \cup {Null}]]
    <3>1. /\ push[t].node \in Node \cup {Null} /\ remoteHead \in Node \cup {Null}
          /\ push[t] = [pc |-> push[t].pc, node |-> push[t].node, head |-> push[t].head]
          /\ push \in [Threads -> [pc : {"idle", "link", "cas"},
                                    node : Node \cup {Null}, head : Node \cup {Null}]]
      BY <1>0 DEF TypeOK
    <3>2. push' = [push EXCEPT ![t] = [pc |-> "link", node |-> push[t].node,
                                       head |-> remoteHead]]
      <4>1. push' = [push EXCEPT ![t] = [[push[t] EXCEPT !.pc = "link"]
                                           EXCEPT !.head = remoteHead]]
        BY <1>0, <3>1, Zenon
      <4>2. PICK p, m, h : push[t] = [pc |-> p, node |-> m, head |-> h] /\ push[t].node = m
        BY <3>1
      <4>3. [[pc |-> p, node |-> m, head |-> h] EXCEPT !.pc = "link"]
              = [pc |-> "link", node |-> m, head |-> h]
        OBVIOUS
      <4>4. [[pc |-> "link", node |-> m, head |-> h] EXCEPT !.head = remoteHead]
              = [pc |-> "link", node |-> m, head |-> remoteHead]
        OBVIOUS
      <4> QED
        BY <4>1, <4>2, <4>3, <4>4, Zenon
    <3>3. [pc |-> "link", node |-> push[t].node, head |-> remoteHead]
            \in [pc : {"idle", "link", "cas"},
                 node : Node \cup {Null}, head : Node \cup {Null}]
      BY <3>1
    <3> QED
      BY <3>1, <3>2, <3>3, Zenon
  <2> QED
    BY <1>0, <2>1 DEF TypeOK
<1>2. CarvedInOrder' /\ HeadsPlaced' /\ HeldHasHolder' /\ SizeExact' /\ OwedParked'
      /\ LinksDisjoint'
  BY <1>0 DEF PoolInv, CarvedInOrder, HeadsPlaced, HeldHasHolder, SizeExact, OwedParked,
              Placed, LinksDisjoint
<1>3. PushersApart'
  <2>1. push'[t].pc = "link" /\ push'[t].node = push[t].node
    BY <1>0 DEF TypeOK
  <2>2. \A u \in Threads : u # t => push'[u] = push[u]
    BY <1>0 DEF TypeOK
  <2>3. \A u \in Threads : (Pushing(u)' <=> Pushing(u)) /\ push'[u].node = push[u].node
    BY <1>0, <2>1, <2>2 DEF Pushing
  <2>4. ASSUME NEW u \in Threads, Pushing(u)'
        PROVE  /\ headers'
               /\ push'[u].node \in Node
               /\ where'[push'[u].node] = "pushing"
               /\ \A v \in Threads : Pushing(v)' /\ push'[v].node = push'[u].node => v = u
    BY <1>0, <2>3, <2>4 DEF PoolInv, PushersApart
  <2>5. ASSUME NEW u \in Threads, Pushing(u)', push'[u].pc = "cas"
        PROVE  next'[push'[u].node] = push'[u].head
    <3>1. u # t /\ push'[u] = push[u] /\ Pushing(u)
      BY <2>1, <2>2, <2>3, <2>5
    <3> QED
      BY <1>0, <2>5, <3>1 DEF PoolInv, PushersApart
  <2> QED
    BY <2>4, <2>5 DEF PushersApart
<1> QED
  BY <1>1, <1>2, <1>3 DEF PoolInv

-----------------------------------------------------------------------------
(* Every step of the pool preserves the invariant.                         *)
LEMMA StepInv == PoolInv /\ [Next]_vars => PoolInv'
<1> SUFFICES ASSUME PoolInv, [Next]_vars PROVE PoolInv'
  OBVIOUS
<1> USE BoundAssumption
<1>0. /\ TypeOK
      /\ nextGrowth \in 0 .. SizeMax
      /\ opc = "empty" => owed = {}
      /\ opc = "miss" => owed \subseteq Placed("parked")
      /\ opc # "idle" => phase = "ready"
  BY DEF PoolInv, TypeOK, OwedParked, CarvedInOrder
<1>1. ASSUME NEW k \in PoolSizes, ConstructEager(k) \/ ConstructNoHeap(k)
      PROVE  PoolInv'
  <2>1. k \in Nat \ {0} /\ k \in 0 .. SizeMax
    BY SizesAssumption
  <2>2. /\ AddChunk(k) /\ phase' = "ready" /\ nextGrowth' \in 0 .. SizeMax
        /\ UNCHANGED <<mode, headers, size, remoteHead, opc, cursor, push, holder, owed>>
    BY <1>0, <1>1, <2>1 DEF ConstructEager, ConstructNoHeap
  <2> QED
    BY <2>1, <2>2, ChunkStep
<1>2. ASSUME NEW k \in PoolSizes, ConstructLazy(k)
      PROVE  PoolInv'
  <2>1. k \in 0 .. SizeMax
    BY SizesAssumption
  <2>2. /\ phase' = "ready" /\ nextGrowth' = k
        /\ UNCHANGED <<mode, headers, size, capacity, freeHead, next, remoteHead, opc,
                       cursor, push, holder, where, owed>>
    BY <1>2 DEF ConstructLazy
  <2> QED
    BY <1>0, <2>1, <2>2, NodesUntouched DEF TypeOK
<1>3. ASSUME AllocateHit \/ AllocateDrained
      PROVE  PoolInv'
  BY <1>3, HandOutInv DEF AllocateHit, AllocateDrained
<1>4. ASSUME AllocateMiss
      PROVE  PoolInv'
  <2>1. /\ phase = "ready"
        /\ \/ opc' = "miss"
           \/ opc' = "empty" /\ ~ headers
        /\ owed' = Placed("parked")
        /\ UNCHANGED <<phase, mode, headers, size, capacity, nextGrowth, freeHead, next,
                       remoteHead, cursor, push, holder, where>>
    <3>1. CASE headers
      BY <1>4, <3>1 DEF AllocateMiss, OwnerMayCall, poolVars, sizeVars
    <3>2. CASE ~ headers
      BY <1>4, <3>2 DEF AllocateMiss, OwnerMayCall, poolVars, sizeVars
    <3> QED
      BY <3>1, <3>2
  <2>2. opc' = "empty" => owed' = {}
    BY <2>1 DEF PoolInv, OwedParked
  <2>3. owed' \subseteq Node
    BY <2>1 DEF Placed
  <2> QED
    BY <1>0, <2>1, <2>2, <2>3, NodesUntouched
<1>5. ASSUME DrainExchange
      PROVE  PoolInv'
  <2>1. phase = "ready" /\ phase' = phase
    BY <1>0, <1>5 DEF DrainExchange, poolVars
  <2>2. UNCHANGED <<mode, headers, size, capacity, nextGrowth, freeHead, next, push,
                    holder, owed>>
    BY <1>5 DEF DrainExchange, poolVars, sizeVars
  <2>3. /\ opc' \in {"walk", "empty"}
        /\ opc' = "empty" => opc = "miss" /\ remoteHead = Null
    BY <1>5 DEF DrainExchange
  <2> QED
    BY <1>5, <2>1, <2>2, <2>3, ExchangeInv DEF DrainExchange
<1>6. ASSUME DrainStep \/ DestroyStep
      PROVE  PoolInv'
  <2>1. /\ cursor \in Node
        /\ cursor' = next[cursor]
        /\ next' = [next EXCEPT ![cursor] = freeHead]
        /\ freeHead' = cursor
        /\ size' = size - 1
        /\ where' = [where EXCEPT ![cursor] = "free"]
        /\ UNCHANGED <<phase, mode, headers, capacity, nextGrowth, remoteHead, push,
                       holder, owed>>
    BY <1>0, <1>6 DEF DrainStep, DestroyStep, Splice, poolVars, TypeOK
  <2>2. \A n \in Node : holder'[n] = IF n = cursor THEN Nobody ELSE holder[n]
    BY <2>1, NullAssumption DEF PoolInv, HeldHasHolder, HeadsPlaced
  <2>3. /\ opc' \in {"idle", "walk", "drained"}
        /\ opc' # "idle" => phase' = "ready"
    BY <1>0, <1>6, <2>1 DEF DrainStep, DestroyStep
  <2> QED
    BY <1>0, <2>1, <2>2, <2>3, ToFreeList DEF TypeOK
<1>7. ASSUME FirstChunk \/ Grow
      PROVE  PoolInv'
  <2>1. /\ nextGrowth' \in 1 .. SizeMax
        /\ AddChunk(nextGrowth')
    <3>1. CASE FirstChunk
      BY <1>0, <3>1 DEF FirstChunk, NeedsFirstChunk
    <3>2. CASE Grow
      BY <1>0, <3>2 DEF Grow, NextDoubled, MulOverflows
    <3> QED
      BY <1>7, <3>1, <3>2
  <2>2. /\ opc' = "drained"
        /\ phase' = "ready"
        /\ UNCHANGED <<mode, headers, size, remoteHead, cursor, push, holder, owed>>
    BY <1>0, <1>7 DEF FirstChunk, Grow, poolVars
  <2> QED
    BY <1>0, <2>1, <2>2, ChunkStep
<1>8. ASSUME FirstChunkFails \/ Exhausted \/ GrowFails
      PROVE  PoolInv'
  <2>1. /\ opc' = "idle" /\ owed' = {}
        /\ UNCHANGED <<phase, mode, headers, size, capacity, freeHead, next, remoteHead,
                       cursor, push, holder, where>>
    BY <1>8 DEF FirstChunkFails, Exhausted, GrowFails, AllocateFails, poolVars
  <2>2. nextGrowth' \in 0 .. SizeMax
    BY <1>0, <1>8 DEF FirstChunkFails, Exhausted, GrowFails, NextDoubled, MulOverflows
  <2> QED
    BY <1>0, <2>1, <2>2, NodesUntouched
<1>9. ASSUME NEW n \in Node, Deallocate(n)
      PROVE  PoolInv'
  <2>1. /\ holder[n] = Owner
        /\ next' = [next EXCEPT ![n] = freeHead]
        /\ freeHead' = n
        /\ size' = size - 1
        /\ holder' = [holder EXCEPT ![n] = Nobody]
        /\ where' = [where EXCEPT ![n] = "free"]
        /\ UNCHANGED <<phase, mode, headers, capacity, nextGrowth, remoteHead, opc,
                       cursor, push, owed>>
        /\ opc = "idle"
    BY <1>9 DEF Deallocate, poolVars, OwnerMayCall
  <2>2. where[n] = "held"
    BY <2>1, OwnerAssumption DEF PoolInv, HeldHasHolder
  <2>3. /\ holder' \in [Node -> Threads \cup {Nobody}]
        /\ \A m \in Node : holder'[m] = IF m = n THEN Nobody ELSE holder[m]
    BY <1>0, <2>1 DEF TypeOK
  <2> QED
    BY <2>1, <2>2, <2>3, ToFreeList
<1>10. ASSUME BeginDestroy
       PROVE  PoolInv'
  BY <1>10, ExchangeInv DEF BeginDestroy, sizeVars, OwnerMayCall
<1>11. ASSUME FinishDestroy
       PROVE  PoolInv'
  <2>1. /\ phase' \in {"dead", "aborted"} /\ opc = "idle"
        /\ UNCHANGED <<mode, headers, size, capacity, nextGrowth, freeHead, next,
                       remoteHead, opc, cursor, push, holder, where, owed>>
    BY <1>0, <1>11 DEF FinishDestroy, sizeVars
  <2> QED
    BY <1>0, <2>1, NodesUntouched DEF TypeOK
<1>12. ASSUME UNCHANGED vars
       PROVE  PoolInv'
  <2>1. UNCHANGED <<phase, mode, headers, size, capacity, nextGrowth, freeHead, next,
                    remoteHead, opc, cursor, push, holder, where, owed>>
    BY <1>12 DEF vars, poolVars, sizeVars
  <2> QED
    BY <1>0, <2>1, NodesUntouched DEF TypeOK
<1> QED
  BY <1>1, <1>2, <1>3, <1>4, <1>5, <1>6, <1>7, <1>8, <1>9, <1>10, <1>11, <1>12,
     HandoffInv, PushLoadInv, PushLinkInv, PushCasInv, PushCasFailInv
  DEF Next, Construct, OwnerContinues, PushSteps, Gone

(* The invariant holds in every reachable state, for any threads, pool     *)
(* sizes and memory.                                                       *)
THEOREM PoolInvariant == Spec => []PoolInv
BY InitInv, StepInv, PTL DEF Spec

(* No node is handed out, spliced or exposed as the stack's head while a   *)
(* thread uses it or is still pushing it.                                  *)
THEOREM HandoutSafety == Spec => []HandoutSafe
<1>1. PoolInv => HandoutSafe
  BY NullAssumption
  DEF PoolInv, HandoutSafe, HeadsPlaced, HeldHasHolder, PushersApart, TypeOK
<1> QED
  BY <1>1, PoolInvariant, PTL

(* size() is always the number of nodes that are not on the free list.     *)
THEOREM SizeExactness == Spec => []SizeExact
<1>1. PoolInv => SizeExact
  BY DEF PoolInv
<1> QED
  BY <1>1, PoolInvariant, PTL

(* "exhaustion is not real until the remote stack is drained": a call that *)
(* misses while nodes are parked neither fails nor grows the pool, however *)
(* pushes and drain interleave.                                            *)
THEOREM DrainsBeforeFailing == Spec => DrainBeforeFail
<1>1. ASSUME PoolInv, [Next]_vars, opc \in {"miss", "empty"}, owed # {}
      PROVE  (opc' = "idle" => size' = size + 1) /\ capacity' = capacity
  <2>1. opc = "miss" /\ Placed("parked") # {} /\ remoteHead # Null /\ phase = "ready"
    BY <1>1 DEF PoolInv, OwedParked, CarvedInOrder
  <2>2. ASSUME DrainExchange
        PROVE  opc' = "walk" /\ capacity' = capacity
    BY <2>1, <2>2 DEF DrainExchange, sizeVars
  <2>3. ASSUME NEW t \in Threads, NEW n \in Node, Handoff(n, t) \/ PushLoad(t, n)
        PROVE  opc' = "miss" /\ capacity' = capacity
    BY <2>1, <2>3 DEF Handoff, PushLoad, sizeVars
  <2>4. ASSUME NEW t \in Threads, PushSteps(t)
        PROVE  opc' = "miss" /\ capacity' = capacity
    BY <2>1, <2>4 DEF PushSteps, PushLink, PushCas, PushCasFail, sizeVars
  <2>5. ASSUME UNCHANGED vars
        PROVE  opc' = "miss" /\ capacity' = capacity
    BY <2>1, <2>5 DEF vars, sizeVars
  <2>6. /\ ~ Construct /\ ~ AllocateHit /\ ~ AllocateMiss /\ ~ BeginDestroy
        /\ \A n \in Node : ~ Deallocate(n)
        /\ ~ Gone
    BY <2>1 DEF Construct, ConstructEager, ConstructLazy, ConstructNoHeap, AllocateHit,
                AllocateMiss, BeginDestroy, Deallocate, OwnerMayCall, Gone
  <2>7. OwnerContinues => DrainExchange
    BY <2>1 DEF OwnerContinues, DrainStep, AllocateDrained, FirstChunk, FirstChunkFails,
                Exhausted, Grow, GrowFails, DestroyStep, FinishDestroy
  <2> QED
    BY <1>1, <2>2, <2>3, <2>4, <2>5, <2>6, <2>7 DEF Next
<1>2. PoolInv /\ [Next]_vars =>
        [(opc \in {"miss", "empty"} /\ owed # {})
           => (opc' = "idle" => size' = size + 1) /\ capacity' = capacity]_vars
  BY <1>1
<1> QED
  BY <1>2, PoolInvariant, PTL DEF Spec, DrainBeforeFail

(* A fixed or noheap pool never grows past its first chunk.                *)
THEOREM FixedBudgetKept == Spec => FixedBudget
<1>1. ASSUME PoolInv, [Next]_vars, mode # "dynamic", capacity > 0
      PROVE  capacity' = capacity
  <2>1. phase # "unborn"
    BY <1>1 DEF PoolInv, CarvedInOrder
  <2>2. ~ Construct /\ ~ FirstChunk /\ ~ Grow
    BY <1>1, <2>1 DEF Construct, ConstructEager, ConstructLazy, ConstructNoHeap,
                      FirstChunk, NeedsFirstChunk, Grow
  <2>3. OwnerContinues => capacity' = capacity
    BY <2>2 DEF OwnerContinues, DrainExchange, DrainStep, AllocateDrained, HandOut,
                FirstChunkFails, Exhausted, GrowFails, AllocateFails, DestroyStep, Splice,
                FinishDestroy, sizeVars
  <2>4. AllocateHit \/ AllocateMiss \/ BeginDestroy \/ Gone \/ UNCHANGED vars
           => capacity' = capacity
    BY DEF AllocateHit, HandOut, AllocateMiss, BeginDestroy, Gone, vars, sizeVars
  <2>5. ASSUME NEW n \in Node, NEW t \in Threads,
               Deallocate(n) \/ Handoff(n, t) \/ PushLoad(t, n) \/ PushSteps(t)
        PROVE  capacity' = capacity
    BY <2>5 DEF Deallocate, Handoff, PushLoad, PushSteps, PushLink, PushCas, PushCasFail,
                sizeVars
  <2>6. \A t \in Threads : PushSteps(t) => capacity' = capacity
    BY DEF PushSteps, PushLink, PushCas, PushCasFail, sizeVars
  <2>7. \A n \in Node : Deallocate(n) => capacity' = capacity
    BY DEF Deallocate
  <2> QED
    BY <1>1, <2>2, <2>3, <2>4, <2>5, <2>6, <2>7 DEF Next
<1>2. PoolInv /\ [Next]_vars =>
        [(mode # "dynamic" /\ capacity > 0) => capacity' = capacity]_vars
  BY <1>1
<1> QED
  BY <1>2, PoolInvariant, PTL DEF Spec, FixedBudget

-----------------------------------------------------------------------------
(* Refinement.  The contract's slot of a node, as NodePool maps it.        *)
SlotOf(p) == CASE p = "free" -> "idle"
               [] p \in {"raw", "held"} -> p
               [] OTHER -> "returning"
AbsSlot == [n \in Node |-> SlotOf(where[n])]

(* A step that moves one node x from place p to place q moves its slot.    *)
LEMMA SlotMoves ==
  ASSUME where \in [Node -> Places], NEW x \in Node, NEW q \in Places,
         where' = [where EXCEPT ![x] = q]
  PROVE  AbsSlot' = [AbsSlot EXCEPT ![x] = SlotOf(q)]
BY DEF AbsSlot, SlotOf

(* The state the contract sees is AbsSlot, holder and size.                *)
LEMMA ContractInit == Init => Contract!Init
<1> SUFFICES ASSUME Init PROVE Contract!Init
  OBVIOUS
<1>1. \A n \in Node : where[n] = "raw"
  BY DEF Init
<1> QED
  BY <1>1 DEF Init, Contract!Init

(* Every step of the pool is a step of the contract or leaves it alone.    *)
LEMMA ContractStep == PoolInv /\ [Next]_vars => [Contract!Next]_(Contract!vars)
<1> SUFFICES ASSUME PoolInv, [Next]_vars
             PROVE  Contract!Next \/ UNCHANGED <<AbsSlot, holder, size>>
  BY DEF Contract!vars, AbsSlot, SlotOf
<1> USE NullAssumption, OwnerAssumption
<1>0. TypeOK /\ where \in [Node -> Places]
  BY DEF PoolInv, TypeOK
<1>1. ASSUME NEW k, AddChunk(k), UNCHANGED <<holder, size>>
      PROVE  Contract!Next
  <2> DEFINE new == capacity .. capacity + k - 1
             S == new \cap Node
  <2>1. where' = [n \in Node |-> IF n \in new THEN "free" ELSE where[n]]
    BY <1>1 DEF AddChunk
  <2>2. \A n \in S : where[n] = "raw"
    BY <1>0 DEF PoolInv, CarvedInOrder, TypeOK, Node
  <2>3. S \in SUBSET {n \in Node : AbsSlot[n] = "raw"}
    BY <2>2 DEF AbsSlot, SlotOf
  <2>4. AbsSlot' = [n \in Node |-> IF n \in S THEN "idle" ELSE AbsSlot[n]]
    BY <2>1 DEF AbsSlot, SlotOf
  <2>5. Contract!AddSlots
    BY <1>1, <2>3, <2>4 DEF Contract!AddSlots, AbsSlot, SlotOf
  <2> QED
    BY <2>5 DEF Contract!Next
<1>2. ASSUME HandOut
      PROVE  Contract!Next
  <2>1. freeHead \in Node /\ where[freeHead] = "free"
    BY <1>0, <1>2 DEF HandOut, PoolInv, HeadsPlaced, TypeOK
  <2>2. PICK h \in Node : h = freeHead
    BY <2>1
  <2>3. AbsSlot[h] = "idle"
    BY <2>1, <2>2 DEF AbsSlot, SlotOf
  <2>4. AbsSlot' = [AbsSlot EXCEPT ![h] = "held"]
    BY <1>0, <1>2, <2>2, SlotMoves DEF HandOut, Places, SlotOf
  <2>5. Contract!Take(h)
    BY <1>2, <2>2, <2>3, <2>4 DEF HandOut, Contract!Take, AbsSlot, SlotOf
  <2> QED
    BY <2>5 DEF Contract!Next
<1>3. ASSUME Splice
      PROVE  Contract!Next
  <2>1. cursor \in Node /\ where[cursor] = "walk"
    BY <1>0, <1>3 DEF Splice, PoolInv, HeadsPlaced, TypeOK
  <2>2. PICK c \in Node : c = cursor
    BY <2>1
  <2>3. AbsSlot[c] = "returning"
    BY <2>1, <2>2 DEF AbsSlot, SlotOf
  <2>4. AbsSlot' = [AbsSlot EXCEPT ![c] = "idle"]
    BY <1>0, <1>3, <2>2, SlotMoves DEF Splice, Places, SlotOf
  <2>5. Contract!Reclaim(c)
    BY <1>3, <2>2, <2>3, <2>4 DEF Splice, Contract!Reclaim, AbsSlot, SlotOf
  <2> QED
    BY <2>5 DEF Contract!Next
<1>4. ASSUME NEW n \in Node, Deallocate(n)
      PROVE  Contract!Next
  <2>1. where[n] = "held" /\ holder[n] = Owner
    BY <1>4 DEF Deallocate, PoolInv, HeldHasHolder
  <2>2. AbsSlot[n] = "held"
    BY <2>1 DEF AbsSlot, SlotOf
  <2>3. AbsSlot' = [AbsSlot EXCEPT ![n] = "idle"]
    BY <1>0, <1>4, SlotMoves DEF Deallocate, Places, SlotOf
  <2>4. Contract!FreeHere(n)
    BY <1>4, <2>1, <2>2, <2>3 DEF Deallocate, Contract!FreeHere, AbsSlot, SlotOf
  <2> QED
    BY <2>4 DEF Contract!Next
<1>5. ASSUME NEW n \in Node, NEW t \in Threads, PushLoad(t, n)
      PROVE  Contract!Next
  <2>1. where[n] = "held"
    BY <1>5 DEF PushLoad, PoolInv, HeldHasHolder
  <2>2. AbsSlot[n] = "held"
    BY <2>1 DEF AbsSlot, SlotOf
  <2>3. AbsSlot' = [AbsSlot EXCEPT ![n] = "returning"]
    BY <1>0, <1>5, SlotMoves DEF PushLoad, Places, SlotOf
  <2>4. Contract!FreeElsewhere(n)
    BY <1>5, <2>2, <2>3 DEF PushLoad, sizeVars, Contract!FreeElsewhere, AbsSlot, SlotOf
  <2> QED
    BY <2>4 DEF Contract!Next
<1>6. ASSUME NEW n \in Node, NEW t \in Threads, Handoff(n, t)
      PROVE  Contract!Next
  <2>1. where[n] = "held"
    BY <1>6 DEF Handoff, PoolInv, HeldHasHolder
  <2>2. AbsSlot[n] = "held" /\ AbsSlot' = AbsSlot
    BY <1>6, <2>1 DEF Handoff, AbsSlot, SlotOf
  <2>3. Contract!Pass(n, t)
    BY <1>6, <2>2 DEF Handoff, sizeVars, Contract!Pass, AbsSlot, SlotOf
  <2> QED
    BY <2>3 DEF Contract!Next
<1>7. ASSUME NEW t \in Threads, PushCas(t)
      PROVE  UNCHANGED <<AbsSlot, holder, size>>
  <2>1. push[t].node \in Node /\ where[push[t].node] = "pushing"
    BY <1>7 DEF PushCas, Pushing, PoolInv, PushersApart
  <2>2. where' = [where EXCEPT ![push[t].node] = "parked"]
    BY <1>7 DEF PushCas
  <2>3. AbsSlot' = AbsSlot
    BY <1>0, <2>1, <2>2 DEF AbsSlot, SlotOf
  <2> QED
    BY <1>7, <2>3 DEF PushCas, sizeVars
<1>8. ASSUME where' = [n \in Node |-> IF where[n] = "parked" THEN "walk" ELSE where[n]]
      PROVE  AbsSlot' = AbsSlot
  BY <1>8 DEF AbsSlot, SlotOf
<1>9. ASSUME UNCHANGED <<where, holder, size>>
      PROVE  UNCHANGED <<AbsSlot, holder, size>>
  BY <1>9 DEF AbsSlot
<1>10. ASSUME NEW k \in PoolSizes, ConstructEager(k) \/ ConstructNoHeap(k)
       PROVE  Contract!Next
  BY <1>1, <1>10 DEF ConstructEager, ConstructNoHeap
<1>11. ASSUME NEW k \in PoolSizes, ConstructLazy(k)
       PROVE  UNCHANGED <<where, holder, size>>
  BY <1>11 DEF ConstructLazy
<1>12. ASSUME FirstChunk \/ Grow
       PROVE  Contract!Next
  BY <1>1, <1>12 DEF FirstChunk, Grow
<1>13. ASSUME DrainExchange \/ BeginDestroy
       PROVE  UNCHANGED <<AbsSlot, holder, size>>
  BY <1>8, <1>13 DEF DrainExchange, BeginDestroy, sizeVars
<1>14. ASSUME AllocateMiss \/ FirstChunkFails \/ Exhausted \/ GrowFails \/ FinishDestroy
              \/ Gone \/ UNCHANGED vars
       PROVE  UNCHANGED <<where, holder, size>>
  BY <1>14 DEF AllocateMiss, FirstChunkFails, Exhausted, GrowFails, AllocateFails,
               FinishDestroy, Gone, vars, sizeVars
<1>15. ASSUME NEW t \in Threads, PushLink(t) \/ PushCasFail(t)
       PROVE  UNCHANGED <<where, holder, size>>
  BY <1>15 DEF PushLink, PushCasFail, sizeVars
<1>16. CASE Construct
  BY <1>9, <1>10, <1>11, <1>16 DEF Construct
<1>17. CASE OwnerContinues
  BY <1>2, <1>3, <1>9, <1>12, <1>13, <1>14, <1>17
  DEF OwnerContinues, AllocateDrained, DrainStep, DestroyStep
<1>18. CASE \E t \in Threads : PushSteps(t)
  BY <1>7, <1>9, <1>15, <1>18 DEF PushSteps
<1>19. CASE \E n \in Node : \/ Deallocate(n)
                            \/ \E t \in Threads : Handoff(n, t) \/ PushLoad(t, n)
  BY <1>4, <1>5, <1>6, <1>19
<1>20. CASE AllocateHit \/ AllocateMiss \/ BeginDestroy \/ Gone \/ UNCHANGED vars
  BY <1>2, <1>9, <1>13, <1>14, <1>20 DEF AllocateHit
<1> QED
  BY <1>16, <1>17, <1>18, <1>19, <1>20 DEF Next

(* The pool, with its lists, links and atomics, implements the contract.   *)
THEOREM PoolImplementsContract == Spec => ContractSpec
BY ContractInit, ContractStep, PoolInvariant, PTL DEF Spec, ContractSpec, Contract!Spec

-----------------------------------------------------------------------------
(* The lists.  Each is null-terminated and holds exactly its nodes.        *)
Lists ==
  /\ Chain(Placed("free"), freeHead, next, Null)
  /\ Chain(Placed("parked"), remoteHead, next, Null)
  /\ Chain(Placed("walk"), cursor, next, Null)

(* There is a chain to drain only while the owner drains; a node is being  *)
(* pushed by somebody; once the destructor runs nothing is parked any more *)
(* and nobody pushes; and the assertion has looked at the final _size.     *)
Drains ==
  /\ cursor # Null => opc = "walk" \/ phase = "closing"
  /\ \A n \in Node : where[n] = "pushing" =>
       \E t \in Threads : Pushing(t) /\ push[t].node = n
  /\ phase \in {"closing", "dead", "aborted"} =>
       remoteHead = Null /\ \A t \in Threads : ~ Pushing(t)
  /\ phase = "dead" => size = 0
  /\ phase = "aborted" => size # 0

ListInv == PoolInv /\ Lists /\ Drains

(* A step that moves one node from its place to another.                   *)
LEMMA NodeMoves ==
  ASSUME where \in [Node -> Places], NEW x \in Node, NEW q \in Places,
         where' = [where EXCEPT ![x] = q]
  PROVE  /\ \A p : p # q => Placed(p)' = Placed(p) \ {x}
         /\ Placed(q)' = Placed(q) \cup {x}
<1>1. \A n \in Node : where'[n] = IF n = x THEN q ELSE where[n]
  OBVIOUS
<1> QED
  BY <1>1 DEF Placed

(* ... and one that moves none.                                            *)
LEMMA NodesStay ==
  ASSUME where' = where
  PROVE  \A p : Placed(p)' = Placed(p)
  BY DEF Placed

LEMMA PlacedNodes ==
  /\ \A p : Placed(p) \subseteq Node /\ Null \notin Placed(p)
  /\ \A p, q : p # q => Placed(p) \cap Placed(q) = {}
  /\ \A p : \A n \in Node : n \in Placed(p) <=> where[n] = p
  BY NullAssumption DEF Placed

(* Steps that touch no node.                                               *)
LEMMA ListsStay ==
  ASSUME Lists, UNCHANGED <<where, next, freeHead, remoteHead, cursor>>
  PROVE  Lists'
<1>1. \A p : Placed(p)' = Placed(p)
  BY NodesStay
<1> QED
  BY <1>1 DEF Lists

(* _pop_free_node.                                                         *)
LEMMA ListsHandOut ==
  ASSUME ListInv, HandOut
  PROVE  Lists'
<1>1. /\ where \in [Node -> Places] /\ next \in [Node -> Node \cup {Null, Junk}]
      /\ freeHead \in Node /\ where[freeHead] = "free"
      /\ freeHead' = next[freeHead] /\ cursor' = cursor /\ remoteHead' = remoteHead
      /\ next' = [next EXCEPT ![freeHead] = Junk]
      /\ where' = [where EXCEPT ![freeHead] = "held"]
      /\ freeHead # Null
  BY DEF ListInv, PoolInv, TypeOK, HeadsPlaced, HandOut
<1>2. /\ Placed("free")' = Placed("free") \ {freeHead}
      /\ Placed("parked")' = Placed("parked") \ {freeHead}
      /\ Placed("walk")' = Placed("walk") \ {freeHead}
  BY <1>1, NodeMoves DEF Places
<1>3. \A p : \A n \in Placed(p) : n # freeHead => next'[n] = next[n]
  BY <1>1, PlacedNodes
<1>4. freeHead \notin Placed("parked") /\ freeHead \notin Placed("walk")
  BY <1>1, PlacedNodes
<1>5. Chain(Placed("free") \ {freeHead}, next[freeHead], next, Null)
  BY <1>1, ChainRest DEF ListInv, Lists
<1>6. Chain(Placed("free") \ {freeHead}, next[freeHead], next', Null)
  BY <1>3, <1>5, ChainFrame
<1>7. Chain(Placed("parked"), remoteHead, next', Null)
  BY <1>3, <1>4, ChainFrame DEF ListInv, Lists
<1>8. Chain(Placed("walk"), cursor, next', Null)
  BY <1>3, <1>4, ChainFrame DEF ListInv, Lists
<1>9. Placed("parked")' = Placed("parked") /\ Placed("walk")' = Placed("walk")
  BY <1>2, <1>4
<1> QED
  BY <1>1, <1>2, <1>6, <1>7, <1>8, <1>9 DEF Lists

(* _push_free_node, of a node that is in no list.                          *)
LEMMA ListsFree ==
  ASSUME ListInv, NEW n \in Node, where[n] = "held",
         next' = [next EXCEPT ![n] = freeHead], freeHead' = n,
         where' = [where EXCEPT ![n] = "free"], UNCHANGED <<remoteHead, cursor>>
  PROVE  Lists'
<1>1. /\ where \in [Node -> Places] /\ next \in [Node -> Node \cup {Null, Junk}]
      /\ n # Null
  BY NullAssumption DEF ListInv, PoolInv, TypeOK
<1>2. /\ Placed("free")' = Placed("free") \cup {n}
      /\ Placed("parked")' = Placed("parked") \ {n}
      /\ Placed("walk")' = Placed("walk") \ {n}
  BY <1>1, NodeMoves DEF Places
<1>3. n \notin Placed("free") /\ n \notin Placed("parked") /\ n \notin Placed("walk")
  BY PlacedNodes
<1>4. next'[n] = freeHead /\ \A p : \A m \in Placed(p) : m # n => next'[m] = next[m]
  BY <1>1, PlacedNodes
<1>5. Chain(Placed("free") \cup {n}, n, next', Null)
  <2>1. \A m \in Placed("free") : next'[m] = next[m]
    BY <1>3, <1>4
  <2>2. Chain(Placed("free"), freeHead, next, Null)
    BY DEF ListInv, Lists
  <2>3. n \notin Placed("free") /\ n # Null /\ next'[n] = freeHead
    BY <1>1, <1>3, <1>4
  <2> QED
    BY <2>1, <2>2, <2>3, ChainPrepend, Zenon
<1>6. Chain(Placed("parked"), remoteHead, next', Null)
  BY <1>3, <1>4, ChainFrame DEF ListInv, Lists
<1>7. Chain(Placed("walk"), cursor, next', Null)
  BY <1>3, <1>4, ChainFrame DEF ListInv, Lists
<1>8. Placed("parked")' = Placed("parked") /\ Placed("walk")' = Placed("walk")
  BY <1>2, <1>3
<1> QED
  BY <1>2, <1>5, <1>6, <1>7, <1>8 DEF Lists

(* One iteration of the drain loop: the first node of the drained chain    *)
(* becomes the first of the free list.                                     *)
LEMMA ListsSplice ==
  ASSUME ListInv, Splice
  PROVE  Lists'
<1>1. /\ where \in [Node -> Places] /\ next \in [Node -> Node \cup {Null, Junk}]
      /\ cursor \in Node /\ where[cursor] = "walk" /\ cursor # Null
      /\ cursor' = next[cursor] /\ freeHead' = cursor /\ remoteHead' = remoteHead
      /\ next' = [next EXCEPT ![cursor] = freeHead]
      /\ where' = [where EXCEPT ![cursor] = "free"]
  BY DEF ListInv, PoolInv, TypeOK, HeadsPlaced, Splice
<1>2. /\ Placed("free")' = Placed("free") \cup {cursor}
      /\ Placed("parked")' = Placed("parked") \ {cursor}
      /\ Placed("walk")' = Placed("walk") \ {cursor}
  BY <1>1, NodeMoves DEF Places
<1>3. cursor \notin Placed("free") /\ cursor \notin Placed("parked")
  BY <1>1, PlacedNodes
<1>4. next'[cursor] = freeHead
      /\ \A p : \A m \in Placed(p) : m # cursor => next'[m] = next[m]
  BY <1>1, PlacedNodes
<1>5. \A m \in Placed("free") : next'[m] = next[m]
  BY <1>3, <1>4
<1>6. Chain(Placed("free") \cup {cursor}, cursor, next', Null)
  BY <1>1, <1>3, <1>4, <1>5, ChainPrepend DEF ListInv, Lists
<1>7. Chain(Placed("walk") \ {cursor}, next[cursor], next, Null)
  BY <1>1, ChainRest DEF ListInv, Lists
<1>8. Chain(Placed("walk") \ {cursor}, next[cursor], next', Null)
  BY <1>4, <1>7, ChainFrame
<1>9. Chain(Placed("parked"), remoteHead, next', Null)
  BY <1>3, <1>4, ChainFrame DEF ListInv, Lists
<1>10. Placed("parked")' = Placed("parked")
  BY <1>2, <1>3
<1> QED
  BY <1>1, <1>2, <1>6, <1>8, <1>9, <1>10 DEF Lists

(* The exchange: the stack changes hands as it is.                         *)
LEMMA ListsExchange ==
  ASSUME ListInv, cursor = Null, remoteHead' = Null, cursor' = remoteHead,
         where' = [n \in Node |-> IF where[n] = "parked" THEN "walk" ELSE where[n]],
         UNCHANGED <<freeHead, next>>
  PROVE  Lists'
<1>1. Placed("walk") = {}
  BY ChainHead DEF ListInv, Lists
<1>2. \A n \in Node : where'[n] = IF where[n] = "parked" THEN "walk" ELSE where[n]
  BY DEF ListInv, PoolInv, TypeOK
<1>3. Placed("free")' = Placed("free") /\ Placed("parked")' = {}
  BY <1>2 DEF Placed
<1>4. Placed("walk")' = Placed("parked")
  <2>1. \A n \in Node : where[n] # "walk"
    BY <1>1 DEF Placed
  <2> QED
    BY <1>2, <2>1 DEF Placed
<1>5. Chain({}, Null, next, Null)
  BY ChainEmpty
<1> QED
  BY <1>3, <1>4, <1>5 DEF ListInv, Lists

(* A push takes effect.                                                    *)
LEMMA ListsCas ==
  ASSUME ListInv, NEW t \in Threads, PushCas(t)
  PROVE  Lists'
<1>1. PICK n \in Node : n = push[t].node
  BY DEF ListInv, PoolInv, PushersApart, PushCas, Pushing
<1>2. /\ where \in [Node -> Places] /\ n # Null
      /\ where[n] = "pushing" /\ next[n] = remoteHead
      /\ remoteHead' = n
      /\ where' = [where EXCEPT ![n] = "parked"]
      /\ UNCHANGED <<freeHead, next, cursor>>
  BY <1>1, NullAssumption DEF ListInv, PoolInv, TypeOK, PushersApart, PushCas, Pushing
<1>3. /\ Placed("parked")' = Placed("parked") \cup {n}
      /\ Placed("free")' = Placed("free") \ {n}
      /\ Placed("walk")' = Placed("walk") \ {n}
  BY <1>2, NodeMoves DEF Places
<1>4. n \notin Placed("free") /\ n \notin Placed("parked") /\ n \notin Placed("walk")
  BY <1>2, PlacedNodes
<1>5. Chain(Placed("parked") \cup {n}, n, next, Null)
  BY <1>2, <1>4, ChainPrepend DEF ListInv, Lists
<1>6. Placed("free")' = Placed("free") /\ Placed("walk")' = Placed("walk")
  BY <1>3, <1>4
<1> QED
  BY <1>2, <1>3, <1>5, <1>6 DEF ListInv, Lists

(* A push begins, and writes the link of its node.                         *)
LEMMA ListsPushing ==
  ASSUME ListInv, NEW n \in Node, where[n] \in {"held", "pushing"},
         where' = [where EXCEPT ![n] = "pushing"],
         \A m \in Node : m # n => next'[m] = next[m],
         UNCHANGED <<freeHead, remoteHead, cursor>>
  PROVE  Lists'
<1>1. where \in [Node -> Places]
  BY DEF ListInv, PoolInv, TypeOK
<1>2. /\ n \notin Placed("free") /\ n \notin Placed("parked") /\ n \notin Placed("walk")
  BY PlacedNodes
<1>3. /\ Placed("free")' = Placed("free") \ {n}
      /\ Placed("parked")' = Placed("parked") \ {n}
      /\ Placed("walk")' = Placed("walk") \ {n}
  BY <1>1, NodeMoves DEF Places
<1>4. /\ Placed("free")' = Placed("free")
      /\ Placed("parked")' = Placed("parked")
      /\ Placed("walk")' = Placed("walk")
  BY <1>2, <1>3
<1>5. /\ \A m \in Placed("free") : next'[m] = next[m]
      /\ \A m \in Placed("parked") : next'[m] = next[m]
      /\ \A m \in Placed("walk") : next'[m] = next[m]
  BY <1>2, PlacedNodes
<1>6. /\ Chain(Placed("free"), freeHead, next', Null)
      /\ Chain(Placed("parked"), remoteHead, next', Null)
      /\ Chain(Placed("walk"), cursor, next', Null)
  BY <1>5, ChainFrame DEF ListInv, Lists
<1> QED
  BY <1>4, <1>6 DEF Lists

(* A chunk is carved onto the free list.                                   *)
LEMMA ListsChunk ==
  ASSUME ListInv, NEW k \in Nat \ {0}, AddChunk(k), UNCHANGED <<remoteHead, cursor>>
  PROVE  Lists'
<1> DEFINE new == capacity .. capacity + k - 1
<1>1. /\ where \in [Node -> Places] /\ capacity \in Nat
      /\ capacity + k <= MaxNodes /\ freeHead' = capacity + k - 1
      /\ next' = [n \in Node |-> IF n \notin new THEN next[n]
                                 ELSE IF n = capacity THEN freeHead ELSE n - 1]
      /\ where' = [n \in Node |-> IF n \in new THEN "free" ELSE where[n]]
  BY BoundAssumption DEF ListInv, PoolInv, TypeOK, AddChunk, CanAdd
<1>2. new \subseteq Node /\ \A n \in new : where[n] = "raw"
  BY <1>1, BoundAssumption DEF Node, ListInv, PoolInv, CarvedInOrder
<1>3. /\ \A n \in new : where'[n] = "free" /\ n # Null
      /\ \A n \in new : next'[n] = IF n = capacity THEN freeHead ELSE n - 1
      /\ \A n \in Node \ new : where'[n] = where[n] /\ next'[n] = next[n]
  BY <1>1, <1>2, NullAssumption
<1> HIDE DEF new
<1>4. /\ Placed("free")' = Placed("free") \cup new
      /\ Placed("parked")' = Placed("parked")
      /\ Placed("walk")' = Placed("walk")
  BY <1>2, <1>3 DEF Placed
<1>5. /\ \A n \in Placed("free") : n \notin new /\ next'[n] = next[n]
      /\ \A n \in Placed("parked") : next'[n] = next[n]
      /\ \A n \in Placed("walk") : next'[n] = next[n]
  BY <1>2, <1>3 DEF Placed
<1>6. Chain(Placed("free") \cup (capacity .. capacity + k - 1), capacity + k - 1, next', Null)
  <2>1. \A i \in capacity .. capacity + k - 1 :
          /\ i \notin Placed("free") /\ i # Null
          /\ next'[i] = IF i = capacity THEN freeHead ELSE i - 1
    BY <1>3, <1>5 DEF new
  <2>2. Chain(Placed("free"), freeHead, next, Null)
    BY DEF ListInv, Lists
  <2> QED
    BY <1>1, <1>5, <2>1, <2>2, ChainBlock
<1>7. /\ Chain(Placed("parked"), remoteHead, next', Null)
      /\ Chain(Placed("walk"), cursor, next', Null)
  BY <1>5, ChainFrame DEF ListInv, Lists
<1> QED
  BY <1>1, <1>4, <1>6, <1>7 DEF Lists, new

-----------------------------------------------------------------------------
LEMMA ListInit == Init => ListInv
<1> SUFFICES ASSUME Init PROVE ListInv
  OBVIOUS
<1>1. \A p : p # "raw" => Placed(p) = {}
  BY DEF Init, Placed
<1>2. Chain({}, Null, next, Null)
  BY ChainEmpty
<1>3. Lists
  BY <1>1, <1>2 DEF Init, Lists
<1>4. Drains
  BY DEF Init, Drains
<1> QED
  BY <1>3, <1>4, InitInv DEF ListInv

(* What Drains says survives a step that neither drains nor pushes.        *)
LEMMA DrainsStay ==
  ASSUME Drains, UNCHANGED <<phase, remoteHead, cursor, push>>,
         cursor # Null => opc' = opc \/ phase = "closing",
         phase \in {"dead", "aborted"} => size' = size,
         \A n \in Node : where'[n] = "pushing" => where[n] = "pushing"
  PROVE  Drains'
  BY DEF Drains, Pushing

LEMMA ListStep == ListInv /\ [Next]_vars => ListInv'
<1> SUFFICES ASSUME ListInv, [Next]_vars PROVE Lists' /\ Drains'
  BY StepInv DEF ListInv
<1>0. /\ Lists /\ Drains
      /\ opc # "idle" => phase = "ready"
      /\ where \in [Node -> Places]
      /\ push \in [Threads -> [pc : {"idle", "link", "cas"},
                               node : Node \cup {Null}, head : Node \cup {Null}]]
  BY DEF ListInv, PoolInv, TypeOK, CarvedInOrder
<1>1. ASSUME NEW k \in PoolSizes, ConstructEager(k) \/ ConstructNoHeap(k)
      PROVE  Lists' /\ Drains'
  <2>1. k \in Nat \ {0}
    BY SizesAssumption
  <2>2. /\ AddChunk(k) /\ phase = "unborn" /\ phase' = "ready"
        /\ UNCHANGED <<remoteHead, opc, cursor, push>>
    BY <1>1 DEF ConstructEager, ConstructNoHeap
  <2>3. \A n \in Node : where'[n] = "pushing" => where[n] = "pushing"
    BY <2>2 DEF AddChunk
  <2>4. Drains'
    BY <1>0, <2>2, <2>3 DEF Drains, Pushing
  <2> QED
    BY <2>1, <2>2, <2>4, ListsChunk
<1>2. ASSUME NEW k \in PoolSizes, ConstructLazy(k)
      PROVE  Lists' /\ Drains'
  <2>1. /\ phase = "unborn" /\ phase' = "ready"
        /\ UNCHANGED <<freeHead, next, remoteHead, opc, cursor, push, where>>
    BY <1>2 DEF ConstructLazy
  <2>2. Drains'
    BY <1>0, <2>1 DEF Drains, Pushing
  <2> QED
    BY <1>0, <2>1, <2>2, ListsStay
<1>3. ASSUME AllocateHit \/ AllocateDrained
      PROVE  Lists' /\ Drains'
  <2>1. HandOut /\ phase = "ready" /\ opc \in {"idle", "drained"}
    BY <1>0, <1>3 DEF AllocateHit, AllocateDrained, OwnerMayCall
  <2>2. /\ cursor = Null
        /\ UNCHANGED <<phase, remoteHead, cursor, push>>
        /\ where' = [where EXCEPT ![freeHead] = "held"]
    BY <1>0, <2>1 DEF HandOut, poolVars, Drains
  <2>3. \A n \in Node : where'[n] = "pushing" => where[n] = "pushing"
    BY <1>0, <2>2
  <2>4. Drains'
    BY <1>0, <2>1, <2>2, <2>3, DrainsStay
  <2> QED
    BY <2>1, <2>4, ListsHandOut
<1>4. ASSUME \/ AllocateMiss \/ FirstChunkFails \/ Exhausted \/ GrowFails
             \/ (\E n \in Node, t \in Threads : Handoff(n, t))
             \/ UNCHANGED vars
      PROVE  Lists' /\ Drains'
  <2>1. UNCHANGED <<phase, size, freeHead, next, remoteHead, cursor, push, where>>
    BY <1>4 DEF AllocateMiss, FirstChunkFails, Exhausted, GrowFails, AllocateFails,
                Handoff, vars, poolVars, sizeVars
  <2>2. cursor # Null => opc' = opc \/ phase = "closing"
    BY <1>0, <1>4 DEF Drains, AllocateMiss, FirstChunkFails, Exhausted, GrowFails,
                      OwnerMayCall, Handoff, vars
  <2>3. Drains'
    BY <1>0, <2>1, <2>2, DrainsStay
  <2> QED
    BY <1>0, <2>1, <2>3, ListsStay
<1>5. ASSUME DrainExchange \/ BeginDestroy
      PROVE  Lists' /\ Drains'
  <2>1. /\ remoteHead' = Null /\ cursor' = remoteHead
        /\ where' = [n \in Node |-> IF where[n] = "parked" THEN "walk" ELSE where[n]]
        /\ UNCHANGED <<freeHead, next, push>>
        /\ phase = "ready" /\ opc \in {"miss", "idle"}
    BY <1>0, <1>5 DEF DrainExchange, BeginDestroy, OwnerMayCall
  <2>2. cursor = Null
    BY <1>0, <2>1 DEF Drains
  <2>3. \A n \in Node : where'[n] = "pushing" => where[n] = "pushing"
    BY <2>1
  <2>4. \/ phase' = "ready" /\ (remoteHead # Null => opc' = "walk")
        \/ phase' = "closing" /\ \A t \in Threads : ~ Pushing(t)
    BY <1>5, <2>1 DEF DrainExchange, BeginDestroy, poolVars
  <2>5. Drains'
    BY <1>0, <2>1, <2>3, <2>4 DEF Drains, Pushing
  <2> QED
    BY <2>1, <2>2, <2>5, ListsExchange
<1>6. ASSUME DrainStep \/ DestroyStep
      PROVE  Lists' /\ Drains'
  <2>1. /\ Splice /\ cursor' = next[cursor]
        /\ UNCHANGED <<phase, remoteHead, push>>
        /\ where' = [where EXCEPT ![cursor] = "free"]
        /\ phase \in {"ready", "closing"}
    BY <1>6 DEF DrainStep, DestroyStep, Splice, poolVars
  <2>2. \A n \in Node : where'[n] = "pushing" => where[n] = "pushing"
    BY <1>0, <2>1
  <2>3. cursor' # Null => opc' = "walk" \/ phase' = "closing"
    BY <1>6, <2>1 DEF DrainStep, DestroyStep
  <2>4. Drains'
    BY <1>0, <2>1, <2>2, <2>3 DEF Drains, Pushing
  <2> QED
    BY <2>1, <2>4, ListsSplice
<1>7. ASSUME FirstChunk \/ Grow
      PROVE  Lists' /\ Drains'
  <2>1. /\ nextGrowth' \in Nat \ {0}
        /\ AddChunk(nextGrowth')
    <3>1. nextGrowth \in Nat
      BY BoundAssumption DEF ListInv, PoolInv, TypeOK
    <3>2. CASE FirstChunk
      BY <3>1, <3>2 DEF FirstChunk, NeedsFirstChunk
    <3>3. CASE Grow
      BY <3>1, <3>3 DEF Grow, NextDoubled
    <3> QED
      BY <1>7, <3>2, <3>3
  <2>2. /\ opc = "empty" /\ phase = "ready"
        /\ UNCHANGED <<phase, size, remoteHead, cursor, push>>
    BY <1>0, <1>7 DEF FirstChunk, Grow, poolVars
  <2>3. cursor = Null
    BY <1>0, <2>2 DEF Drains
  <2>4. \A n \in Node : where'[n] = "pushing" => where[n] = "pushing"
    BY <2>1 DEF AddChunk
  <2>5. Drains'
    BY <1>0, <2>2, <2>3, <2>4, DrainsStay
  <2> QED
    BY <2>1, <2>2, <2>5, ListsChunk
<1>8. ASSUME NEW n \in Node, Deallocate(n)
      PROVE  Lists' /\ Drains'
  <2>1. /\ holder[n] = Owner /\ phase = "ready"
        /\ next' = [next EXCEPT ![n] = freeHead]
        /\ freeHead' = n
        /\ where' = [where EXCEPT ![n] = "free"]
        /\ UNCHANGED <<phase, remoteHead, opc, cursor, push>>
    BY <1>8 DEF Deallocate, poolVars, OwnerMayCall
  <2>2. where[n] = "held"
    BY <2>1, OwnerAssumption DEF ListInv, PoolInv, HeldHasHolder
  <2>3. \A m \in Node : where'[m] = "pushing" => where[m] = "pushing"
    BY <1>0, <2>1
  <2>4. Drains'
    BY <1>0, <2>1, <2>3, DrainsStay
  <2> QED
    BY <2>1, <2>2, <2>4, ListsFree
<1>9. ASSUME NEW n \in Node, NEW t \in Threads, PushLoad(t, n)
      PROVE  Lists' /\ Drains'
  <2>1. /\ holder[n] = t /\ phase = "ready" /\ ~ Pushing(t)
        /\ where' = [where EXCEPT ![n] = "pushing"]
        /\ push' = [push EXCEPT ![t] = [pc |-> "link", node |-> n, head |-> remoteHead]]
        /\ UNCHANGED <<phase, freeHead, next, remoteHead, opc, cursor>>
    BY <1>9 DEF PushLoad, poolVars
  <2>2. where[n] = "held"
    BY <2>1, OwnerAssumption DEF ListInv, PoolInv, HeldHasHolder
  <2>3. /\ \A u \in Threads \ {t} : push'[u] = push[u]
        /\ push'[t].pc = "link" /\ push'[t].node = n
        /\ \A m \in Node : m # n => where'[m] = where[m]
    BY <1>0, <2>1
  <2>4. \A m \in Node : where'[m] = "pushing" =>
          \E u \in Threads : Pushing(u)' /\ push'[u].node = m
    <3>1. TAKE m \in Node
    <3>2. HAVE where'[m] = "pushing"
    <3>3. CASE m = n
      BY <2>3, <3>3 DEF Pushing
    <3>4. CASE m # n
      <4>1. PICK u \in Threads : Pushing(u) /\ push[u].node = m
        BY <1>0, <2>3, <3>2, <3>4 DEF Drains
      <4>2. u # t
        BY <2>1, <4>1
      <4> QED
        BY <2>3, <4>1, <4>2 DEF Pushing
    <3> QED
      BY <3>3, <3>4
  <2>5. Drains'
    BY <1>0, <2>1, <2>4 DEF Drains
  <2> QED
    BY <2>1, <2>2, <2>5, ListsPushing
<1>10. ASSUME NEW t \in Threads, PushLink(t) \/ PushCasFail(t)
       PROVE  Lists' /\ Drains'
  <2>1. PICK n \in Node : n = push[t].node /\ where[n] = "pushing"
    BY <1>10 DEF ListInv, PoolInv, PushersApart, PushLink, PushCasFail, Pushing
  <2>2. /\ \A m \in Node : m # n => next'[m] = next[m]
        /\ UNCHANGED <<phase, size, freeHead, remoteHead, opc, cursor, where>>
    BY <1>10, <2>1 DEF PushLink, PushCasFail, poolVars, sizeVars, ListInv, PoolInv, TypeOK
  <2>3. where' = [where EXCEPT ![n] = "pushing"]
    BY <1>0, <2>1, <2>2
  <2>4. \A u \in Threads : push'[u].node = push[u].node /\ (Pushing(u)' <=> Pushing(u))
    BY <1>0, <1>10 DEF PushLink, PushCasFail, Pushing
  <2>5. Drains'
    BY <1>0, <2>2, <2>4 DEF Drains
  <2> QED
    BY <2>1, <2>2, <2>3, <2>5, ListsPushing
<1>11. ASSUME NEW t \in Threads, PushCas(t)
       PROVE  Lists' /\ Drains'
  <2>1. PICK n \in Node : n = push[t].node /\ where[n] = "pushing"
    BY <1>11 DEF ListInv, PoolInv, PushersApart, PushCas, Pushing
  <2>2. /\ where' = [where EXCEPT ![n] = "parked"]
        /\ push' = [push EXCEPT ![t] = IdlePush]
        /\ Pushing(t)
        /\ UNCHANGED <<phase, size, opc, cursor>>
    BY <1>11, <2>1 DEF PushCas, Pushing, poolVars, sizeVars
  <2>3. phase \notin {"closing", "dead", "aborted"}
    BY <1>0, <2>2 DEF Drains
  <2>4. ASSUME NEW m \in Node, where'[m] = "pushing"
        PROVE  \E u \in Threads : Pushing(u)' /\ push'[u].node = m
    <3>1. m # n /\ where[m] = "pushing"
      BY <1>0, <2>1, <2>2, <2>4
    <3>2. PICK u \in Threads : Pushing(u) /\ push[u].node = m
      BY <1>0, <3>1 DEF Drains
    <3>3. u # t
      BY <2>1, <3>1, <3>2
    <3> QED
      BY <1>0, <2>2, <3>2, <3>3 DEF Pushing
  <2>5. Drains'
    BY <1>0, <2>2, <2>3, <2>4 DEF Drains
  <2> QED
    BY <1>11, <2>5, ListsCas
<1>12. ASSUME FinishDestroy
       PROVE  Lists' /\ Drains'
  <2>1. /\ phase = "closing" /\ cursor = Null
        /\ phase' = IF size = 0 THEN "dead" ELSE "aborted"
        /\ UNCHANGED <<size, freeHead, next, remoteHead, opc, cursor, push, where>>
    BY <1>12 DEF FinishDestroy, sizeVars
  <2>2. Drains'
    BY <1>0, <2>1 DEF Drains, Pushing
  <2> QED
    BY <1>0, <2>1, <2>2, ListsStay
<1>13. /\ Gone => UNCHANGED vars
       /\ OwnerContinues => \/ DrainExchange \/ DrainStep \/ AllocateDrained
                            \/ FirstChunk \/ FirstChunkFails \/ Exhausted
                            \/ Grow \/ GrowFails \/ DestroyStep \/ FinishDestroy
       /\ \A t \in Threads : PushSteps(t) => PushLink(t) \/ PushCas(t) \/ PushCasFail(t)
  BY DEF Gone, OwnerContinues, PushSteps
<1> QED
  BY <1>1, <1>2, <1>3, <1>4, <1>5, <1>6, <1>7, <1>8, <1>9, <1>10, <1>11, <1>12, <1>13
  DEF Next, Construct

-----------------------------------------------------------------------------
(* What a walk meets.                                                      *)

(* Reach follows MaxNodes links, which is enough for any list of nodes.    *)
LEMMA ReachesList ==
  ASSUME NEW S \in SUBSET Node, NEW h, Chain(S, h, next, Null)
  PROVE  Reach(h) = S \cup {Null}
<1> DEFINE Follows(R) ==
             R = [k \in 0 .. MaxNodes |->
                    IF k = 0 THEN {h}
                    ELSE R[k - 1] \cup {next[n] : n \in R[k - 1] \cap Node}]
           W == CHOOSE R : Follows(R)
<1>1. Reach(h) = W[MaxNodes]
  BY DEF Reach
<1>2. PICK m \in Nat : \E f \in [0 .. m -> S \cup {Null}] : Numbers(f, m, S, h, next, Null)
  BY DEF Chain
<1>3. PICK f \in [0 .. m -> S \cup {Null}] : Numbers(f, m, S, h, next, Null)
  BY <1>2
<1>4. /\ f[0] = h /\ f[m] = Null
      /\ \A k \in 0 .. m - 1 : f[k] \in S /\ next[f[k]] = f[k + 1]
      /\ \A s \in S : \E k \in 0 .. m - 1 : f[k] = s
  BY <1>3 DEF Numbers
<1>5. m <= MaxNodes /\ MaxNodes \in Nat
  BY <1>3, NodesFinite, ChainLength, BoundAssumption
<1> DEFINE Met(k) == {f[j] : j \in {i \in 0 .. m : i <= k}}
           G == [k \in 0 .. MaxNodes |-> Met(k)]
<1>6. ASSUME NEW k \in 1 .. MaxNodes
      PROVE  Met(k) = Met(k - 1) \cup {next[n] : n \in Met(k - 1) \cap Node}
  <2>1. \A x : x \in Met(k) <=> \E j \in 0 .. m : j <= k /\ x = f[j]
    OBVIOUS
  <2>2. \A x : x \in Met(k - 1) <=> \E j \in 0 .. m : j <= k - 1 /\ x = f[j]
    OBVIOUS
  <2> DEFINE L == {next[n] : n \in Met(k - 1) \cap Node}
  <2>3. \A x : x \in L <=> \E n \in Met(k - 1) : n \in Node /\ x = next[n]
    OBVIOUS
  <2>4. \A j \in 0 .. m : f[j] \in Node => j \in 0 .. m - 1
    BY <1>4, NullAssumption
  <2> HIDE DEF Met, L
  <2>5. ASSUME NEW x \in L PROVE x \in Met(k)
    <3>1. PICK n \in Met(k - 1) : n \in Node /\ x = next[n]
      BY <2>3
    <3>2. PICK j \in 0 .. m : j <= k - 1 /\ n = f[j]
      BY <2>2, <3>1
    <3>3. j \in 0 .. m - 1
      BY <2>4, <3>1, <3>2
    <3>4. j + 1 \in 0 .. m /\ j + 1 <= k /\ x = f[j + 1]
      BY <1>4, <3>1, <3>2, <3>3
    <3> QED
      BY <2>1, <3>4
  <2>6. ASSUME NEW x \in Met(k), x \notin Met(k - 1) PROVE x \in L
    <3>1. PICK j \in 0 .. m : j <= k /\ x = f[j]
      BY <2>1
    <3>2. j = k
      BY <2>2, <2>6, <3>1
    <3>3. k - 1 \in 0 .. m - 1 /\ k - 1 \in 0 .. m /\ (k - 1) + 1 = k /\ k - 1 <= k - 1
      BY <3>1, <3>2
    <3>4. f[k - 1] \in Node /\ next[f[k - 1]] = x
      BY <1>4, <3>1, <3>2, <3>3
    <3>5. f[k - 1] \in Met(k - 1)
      BY <2>2, <3>3
    <3> QED
      BY <2>3, <3>4, <3>5
  <2>7. ASSUME NEW x \in Met(k - 1) PROVE x \in Met(k)
    <3>1. PICK j \in 0 .. m : j <= k - 1 /\ x = f[j]
      BY <2>2
    <3> QED
      BY <2>1, <3>1
  <2>8. Met(k) = Met(k - 1) \cup L
    BY <2>5, <2>6, <2>7
  <2> QED
    BY <2>8 DEF L
<1>7. Met(0) = {h}
  <2>1. \A j \in {i \in 0 .. m : i <= 0} : j = 0
    OBVIOUS
  <2>2. 0 \in {i \in 0 .. m : i <= 0}
    OBVIOUS
  <2> QED
    BY <1>4, <2>1, <2>2
<1>8. Met(MaxNodes) = S \cup {Null}
  <2>1. \A j \in 0 .. m : j <= MaxNodes
    BY <1>5
  <2>2. \A x : x \in Met(MaxNodes) <=> \E j \in 0 .. m : x = f[j]
    BY <2>1
  <2> HIDE DEF Met
  <2>3. ASSUME NEW x \in Met(MaxNodes) PROVE x \in S \cup {Null}
    BY <2>2
  <2>4. ASSUME NEW x \in S PROVE x \in Met(MaxNodes)
    BY <1>4, <2>2
  <2>5. Null \in Met(MaxNodes)
    BY <1>4, <2>2
  <2> QED
    BY <2>3, <2>4, <2>5
<1> HIDE DEF Met
<1>9. \A k \in 0 .. MaxNodes : G[k] = Met(k)
  OBVIOUS
<1>10. Follows(G)
  <2>1. \A k \in 0 .. MaxNodes :
          Met(k) = IF k = 0 THEN {h}
                   ELSE G[k - 1] \cup {next[n] : n \in G[k - 1] \cap Node}
    <3>1. TAKE k \in 0 .. MaxNodes
    <3>2. CASE k = 0
      BY <1>7, <3>2
    <3>3. CASE k # 0
      <4>1. k \in 1 .. MaxNodes /\ k - 1 \in 0 .. MaxNodes
        BY <1>5, <3>3
      <4>2. G[k - 1] = Met(k - 1)
        BY <1>9, <4>1
      <4>3. Met(k) = Met(k - 1) \cup {next[n] : n \in Met(k - 1) \cap Node}
        BY <1>6, <4>1
      <4> HIDE DEF G
      <4> QED
        BY <3>3, <4>2, <4>3
    <3> QED
      BY <3>2, <3>3
  <2> QED
    BY <2>1
<1>11. Follows(W)
  BY <1>10, Zenon
<1>12. /\ W[0] = {h}
       /\ \A k \in 1 .. MaxNodes : W[k] = W[k - 1] \cup {next[n] : n \in W[k - 1] \cap Node}
  <2> HIDE DEF W
  <2>1. W = [k \in 0 .. MaxNodes |->
                    IF k = 0 THEN {h}
                    ELSE W[k - 1] \cup {next[n] : n \in W[k - 1] \cap Node}]
    BY <1>11
  <2>2. \A k \in 0 .. MaxNodes :
          W[k] = IF k = 0 THEN {h}
                 ELSE W[k - 1] \cup {next[n] : n \in W[k - 1] \cap Node}
    BY <2>1, Zenon
  <2>3. \A k \in 1 .. MaxNodes : k \in 0 .. MaxNodes /\ k # 0
    OBVIOUS
  <2>4. 0 \in 0 .. MaxNodes
    BY <1>5
  <2> QED
    BY <2>2, <2>3, <2>4, Zenon
<1> HIDE DEF W
<1>13. \A k \in 0 .. MaxNodes : W[k] = G[k]
  <2>1. G[0] = W[0]
    BY <1>5, <1>7, <1>9, <1>12
  <2>2. ASSUME NEW k \in 0 .. MaxNodes - 1, W[k] = G[k]
        PROVE  W[k + 1] = G[k + 1]
    <3>1. /\ k + 1 \in 1 .. MaxNodes /\ k + 1 \in 0 .. MaxNodes
          /\ k \in 0 .. MaxNodes /\ (k + 1) - 1 = k
      BY <1>5
    <3>2. W[k + 1] = W[k] \cup {next[n] : n \in W[k] \cap Node}
      BY <1>12, <3>1, Zenon
    <3>3. Met(k + 1) = Met(k) \cup {next[n] : n \in Met(k) \cap Node}
      BY <1>6, <3>1, Zenon
    <3>4. W[k] = Met(k) /\ G[k + 1] = Met(k + 1)
      BY <1>9, <2>2, <3>1
    <3> QED
      BY <3>2, <3>3, <3>4, Zenon
  <2> HIDE DEF G
  <2>3. \A k \in 0 .. MaxNodes - 1 : W[k] = G[k] => W[k + 1] = G[k + 1]
    BY <2>2
  <2> QED
    BY <1>5, <2>1, <2>3, SameFromStart
<1> QED
  BY <1>1, <1>5, <1>8, <1>9, <1>13

(* The three lists are exact in every reachable state, however pushes from *)
(* other threads and the owner's drain interleave: no node is lost, none   *)
(* is listed twice, and every walk ends.                                   *)
THEOREM ListsStayExact == Spec => []ListsExact
<1>1. Spec => []ListInv
  BY ListInit, ListStep, PTL DEF Spec
<1>2. ListInv => ListsExact
  BY ReachesList, PlacedNodes DEF ListInv, Lists, ListsExact
<1> QED
  BY <1>1, <1>2, PTL

(* ~allocazam() aborts exactly when a node is still in use: nodes that     *)
(* were freed by other threads and never drained do not trip it.           *)
THEOREM DestructorAssertExact == Spec => []DestructorAssert
<1>1. Spec => []ListInv
  BY ListInit, ListStep, PTL DEF Spec
<1>2. ASSUME ListInv, phase \in {"dead", "aborted"}
      PROVE  phase = "aborted" <=> \E n \in Node : holder[n] # Nobody
  <2>1. /\ remoteHead = Null /\ cursor = Null
        /\ \A n \in Node : where[n] # "pushing"
        /\ phase = "aborted" <=> size # 0
    BY <1>2 DEF ListInv, Drains, PoolInv, CarvedInOrder
  <2>2. Placed("parked") = {} /\ Placed("walk") = {}
    BY <1>2, <2>1, ChainHead DEF ListInv, Lists
  <2>3. \A n \in Node : n \in Out <=> holder[n] # Nobody
    BY <1>2, <2>1, <2>2 DEF Out, Placed, ListInv, PoolInv, TypeOK, Places, HeldHasHolder
  <2>4. size = Cardinality(Out) /\ Out \in SUBSET Node
    BY <1>2 DEF ListInv, PoolInv, SizeExact, Out
  <2>5. size = 0 <=> Out = {}
    <3>1. IsFiniteSet(Out)
      BY <2>4, NodeSubsets
    <3> QED
      BY <2>4, <3>1, FS_EmptySet
  <2> QED
    BY <2>1, <2>3, <2>4, <2>5
<1>3. ListInv => DestructorAssert
  BY <1>2 DEF DestructorAssert
<1> QED
  BY <1>1, <1>3, PTL
=============================================================================
