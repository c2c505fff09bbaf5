------------------------ MODULE CrossThreadFreeProofs ------------------------
(***************************************************************************)
(* For any number of pairs, rounds, batches and nodes: a producer's pool   *)
(* grows only when all it has is in flight, and is whole again when its    *)
(* round is joined.                                                        *)
(*                                                                         *)
(* Two sums carry the argument.  The nodes of a pool are free, parked, in  *)
(* the producer's hands, in the slot or in the consumer's hands; and the   *)
(* producer is ahead of its consumer by the batch in the slot and the one  *)
(* being freed, and by no more.                                            *)
(***************************************************************************)
EXTENDS CrossThreadFree, FiniteSetTheorems, TLAPS

Slots == 0 .. Pairs - 1
Places == {"unborn", "spawned", "ready", "start", "allocate", "take", "free", "exited"}
PoolState == [free : Nat, parked : Nat, capacity : Nat, growth : Nat \ {0}]

(* The type invariant: the arrays have the size of the present round.      *)
Types ==
  /\ point \in 1 .. Len(PairCounts)
  /\ main \in {"spawn", "ready", "join", "done"}
  /\ joined \in 0 .. 2 * Pairs
  /\ pc \in [Workers -> Places]
  /\ batch \in [Workers -> Nat]
  /\ nodes \in [Workers -> 0 .. BatchSize]
  /\ channel \in [Slots -> {0, BatchSize}]
  /\ pool \in [Slots -> PoolState]

(* Every node of a pool is somewhere, once.                                *)
Balanced(p) == pool[p].capacity = pool[p].free + pool[p].parked + InFlight(p)

(* What the producer is ahead by.                                          *)
Handed(p) ==
  batch[Producer(p)] = batch[Consumer(p)]
                         + (IF channel[p] = 0 THEN 0 ELSE 1)
                         + (IF pc[Consumer(p)] = "free" THEN 1 ELSE 0)

(* What a thread's place says about it.                                    *)
Phase(t) ==
  /\ pc[t] = "allocate" => Produces(t)
  /\ pc[t] \in {"take", "free"} => ~Produces(t)
  /\ pc[t] \notin {"allocate", "free"} => nodes[t] = 0
  /\ pc[t] = "exited" => batch[t] = Batches

(* Threads not yet started are not born, joined ones have exited.          *)
Joined ==
  \A t \in Workers :
    /\ main = "spawn" /\ t >= joined => pc[t] = "unborn"
    /\ main \in {"join", "done"} /\ t < joined => pc[t] = "exited"

SweepInv ==
  /\ Types
  /\ \A p \in Slots : Balanced(p) /\ Handed(p)
  /\ \A t \in Workers : Phase(t)
  /\ Joined

-----------------------------------------------------------------------------
(* Every point of the sweep has at least one pair.                         *)
LEMMA CountsPositive ==
  /\ PairCounts \in Seq(Nat \ {0})
  /\ Len(PairCounts) \in Nat \ {0}
  /\ \A i \in 1 .. Len(PairCounts) : PairCounts[i] \in Nat \ {0}
<1> DEFINE c == Cardinality(Doublings)
<1> DEFINE s == [i \in 1 .. c |-> 2 ^ (i - 1)]
<1>1. MaxPairs \in Nat \ {0} /\ \A e \in 0 .. MaxPairs : 2 ^ e \in Nat \ {0}
  BY SweepAssumption
<1>2. IsFiniteSet(0 .. MaxPairs) /\ Cardinality(0 .. MaxPairs) = MaxPairs + 1
  <2>1. 0 \in Int /\ MaxPairs \in Int /\ ~(0 > MaxPairs) /\ MaxPairs - 0 + 1 = MaxPairs + 1
    BY <1>1, SMT
  <2> QED  BY <2>1, FS_Interval
<1>3. Doublings \subseteq 0 .. MaxPairs
  BY DEF Doublings
<1>4. c \in Nat /\ c <= MaxPairs + 1
  <2>1. IsFiniteSet(Doublings) /\ c <= Cardinality(0 .. MaxPairs)
    BY <1>2, <1>3, FS_Subset
  <2>2. c \in Nat
    BY <2>1, FS_CardinalityType
  <2> QED  BY <1>2, <2>1, <2>2
<1> HIDE DEF c
<1>5. \A i \in 1 .. c : i - 1 \in 0 .. MaxPairs
  BY <1>1, <1>4
<1>6. \A i \in 1 .. c : 2 ^ (i - 1) \in Nat \ {0}
  BY <1>1, <1>5, Zenon
<1>7. s \in [1 .. c -> Nat \ {0}]
  BY <1>6, Zenon
<1>8. s \in Seq(Nat \ {0})
  BY <1>4, <1>7
<1>9. PairCounts = Append(s, MaxPairs)
  BY DEF PairCounts, c
<1> HIDE DEF s
<1>10. PairCounts \in Seq(Nat \ {0}) /\ Len(PairCounts) = Len(s) + 1
  BY <1>1, <1>8, <1>9
<1> QED  BY <1>8, <1>10

(* The two workers of a pair.                                              *)
LEMMA PairOfWorker ==
  ASSUME NEW k \in Nat \ {0}, NEW t \in 0 .. 2 * k - 1
  PROVE  /\ Pair(t) \in 0 .. k - 1
         /\ Produces(t) => t = Producer(Pair(t))
         /\ ~Produces(t) => t = Consumer(Pair(t))
  BY DEF Pair, Produces, Producer, Consumer

LEMMA WorkersOfPair ==
  ASSUME NEW k \in Nat \ {0}, NEW p \in 0 .. k - 1
  PROVE  /\ Producer(p) \in 0 .. 2 * k - 1
         /\ Consumer(p) \in 0 .. 2 * k - 1
         /\ Produces(Producer(p))
         /\ ~Produces(Consumer(p))
         /\ Pair(Producer(p)) = p
         /\ Pair(Consumer(p)) = p
  BY DEF Pair, Produces, Producer, Consumer

(* What every step starts from.                                            *)
LEMMA SetUp ==
  ASSUME Types
  PROVE  /\ Pairs \in Nat \ {0}
         /\ Slots = 0 .. Pairs - 1
         /\ Workers = 0 .. 2 * Pairs - 1
         /\ Cardinality(Workers) = 2 * Pairs
<1>1. Pairs \in Nat \ {0}
  BY CountsPositive DEF Types, Pairs
<1>2. 0 \in Int /\ 2 * Pairs - 1 \in Int /\ ~(0 > 2 * Pairs - 1)
      /\ (2 * Pairs - 1) - 0 + 1 = 2 * Pairs
  BY <1>1
<1>3. Cardinality(0 .. 2 * Pairs - 1) = 2 * Pairs
  BY <1>2, FS_Interval
<1> QED  BY <1>1, <1>3 DEF Slots, Workers

LEMMA SameRound ==
  ASSUME UNCHANGED point
  PROVE  Pairs' = Pairs /\ Workers' = Workers /\ Slots' = Slots
  BY DEF Pairs, Workers, Slots

(* A round starts with the invariant.                                      *)
LEMMA RoundStarts ==
  ASSUME NEW k \in Nat \ {0}
  PROVE  LET r == RoundStart(k)
         IN  /\ r.pc \in [0 .. 2 * k - 1 -> Places]
             /\ r.zero \in [0 .. 2 * k - 1 -> Nat]
             /\ r.zero \in [0 .. 2 * k - 1 -> 0 .. BatchSize]
             /\ r.slots \in [0 .. k - 1 -> {0, BatchSize}]
             /\ r.pools \in [0 .. k - 1 -> PoolState]
             /\ \A t \in 0 .. 2 * k - 1 : r.pc[t] = "unborn" /\ r.zero[t] = 0
             /\ \A p \in 0 .. k - 1 : r.slots[p] = 0 /\ r.pools[p] = NewPool
  BY BatchAssumption DEF RoundStart, NewPool, PoolState, Places

LEMMA SweepInit == Init => SweepInv
<1> SUFFICES ASSUME Init PROVE SweepInv
  OBVIOUS
<1> DEFINE r == RoundStart(Pairs)
<1>1. point = 1 /\ 1 \in 1 .. Len(PairCounts)
  BY CountsPositive DEF Init
<1>2. Pairs \in Nat \ {0}
  BY <1>1, CountsPositive DEF Pairs
<1>3. /\ main = "spawn" /\ joined = 0
      /\ pc = r.pc /\ batch = r.zero /\ nodes = r.zero
      /\ channel = r.slots /\ pool = r.pools
  BY <1>1, Zenon DEF Init, Pairs
<1>4. /\ r.pc \in [Workers -> Places]
      /\ r.zero \in [Workers -> Nat]
      /\ r.zero \in [Workers -> 0 .. BatchSize]
      /\ r.slots \in [Slots -> {0, BatchSize}]
      /\ r.pools \in [Slots -> PoolState]
      /\ \A t \in Workers : r.pc[t] = "unborn" /\ r.zero[t] = 0
      /\ \A p \in Slots : r.slots[p] = 0 /\ r.pools[p] = NewPool
  BY <1>2, RoundStarts, Zenon DEF Workers, Slots
<1> HIDE DEF r
<1>5. Types
  BY <1>1, <1>2, <1>3, <1>4 DEF Types
<1>6. ASSUME NEW p \in Slots PROVE Balanced(p) /\ Handed(p)
  <2>1. Producer(p) \in Workers /\ Consumer(p) \in Workers
    BY <1>2, WorkersOfPair DEF Workers, Slots
  <2> QED  BY <1>3, <1>4, <2>1 DEF Balanced, Handed, InFlight, NewPool
<1>7. ASSUME NEW t \in Workers PROVE Phase(t)
  BY <1>3, <1>4 DEF Phase
<1> QED  BY <1>3, <1>4, <1>5, <1>6, <1>7 DEF SweepInv, Joined

-----------------------------------------------------------------------------
(* One allocation takes one of the pool's nodes, or grows the pool when it *)
(* has none.                                                               *)
LEMMA ServeExact ==
  ASSUME NEW k \in PoolState
  PROVE  /\ Serve(k) \in PoolState
         /\ k.capacity - (k.free + k.parked) + 1
              = Serve(k).capacity - (Serve(k).free + Serve(k).parked)
         /\ k.capacity > 0 /\ Serve(k).capacity > k.capacity
              => k.free = 0 /\ k.parked = 0
<1>1. /\ k.free \in Nat /\ k.parked \in Nat /\ k.capacity \in Nat
      /\ k.growth \in Nat \ {0} /\ FirstChunk \in Nat \ {0}
      /\ k = [free |-> k.free, parked |-> k.parked, capacity |-> k.capacity,
              growth |-> k.growth]
  BY BatchAssumption DEF PoolState
<1>2. CASE k.free > 0
  <2>1. Serve(k) = [free |-> k.free - 1, parked |-> k.parked, capacity |-> k.capacity,
                    growth |-> k.growth]
    BY <1>1, <1>2 DEF Serve
  <2> QED  BY <1>1, <1>2, <2>1 DEF PoolState
<1> DEFINE Fields == {"free", "parked", "capacity", "growth"}
<1>3. CASE k.free = 0 /\ k.parked > 0
  <2>1. Serve(k) = [k EXCEPT !.free = k.parked - 1, !.parked = 0]
    BY <1>1, <1>3, ~(0 > 0), Zenon DEF Serve
  <2>2. Serve(k) = [x \in DOMAIN k |-> IF x = "parked" THEN 0
                                       ELSE IF x = "free" THEN k.parked - 1 ELSE k[x]]
    BY <2>1
  <2>3. Serve(k) = [x \in Fields |-> IF x = "parked" THEN 0
                                     ELSE IF x = "free" THEN k.parked - 1 ELSE k[x]]
    BY <2>2 DEF PoolState
  <2>4. Serve(k) = [free |-> k.parked - 1, parked |-> 0, capacity |-> k.capacity,
                    growth |-> k.growth]
    BY <2>3
  <2> QED  BY <1>1, <1>3, <2>4 DEF PoolState
<1>4. CASE k.free = 0 /\ k.parked = 0 /\ k.capacity = 0
  <2>1. Serve(k) = [k EXCEPT !.capacity = FirstChunk, !.free = FirstChunk - 1]
    BY <1>1, <1>4, ~(0 > 0), Zenon DEF Serve
  <2>2. Serve(k) = [x \in DOMAIN k |-> IF x = "free" THEN FirstChunk - 1
                                       ELSE IF x = "capacity" THEN FirstChunk ELSE k[x]]
    BY <2>1
  <2>3. Serve(k) = [x \in Fields |-> IF x = "free" THEN FirstChunk - 1
                                     ELSE IF x = "capacity" THEN FirstChunk ELSE k[x]]
    BY <2>2 DEF PoolState
  <2>4. Serve(k) = [free |-> FirstChunk - 1, parked |-> k.parked, capacity |-> FirstChunk,
                    growth |-> k.growth]
    BY <2>3
  <2> QED  BY <1>1, <1>4, <2>4 DEF PoolState
<1>5. CASE k.free = 0 /\ k.parked = 0 /\ k.capacity # 0
  <2>1. Serve(k) = [k EXCEPT !.growth = 2 * k.growth, !.capacity = k.capacity + 2 * k.growth,
                             !.free = 2 * k.growth - 1]
    BY <1>1, <1>5, ~(0 > 0), Zenon DEF Serve
  <2>2. Serve(k) = [x \in DOMAIN k |-> IF x = "free" THEN 2 * k.growth - 1
                                       ELSE IF x = "capacity" THEN k.capacity + 2 * k.growth
                                       ELSE IF x = "growth" THEN 2 * k.growth ELSE k[x]]
    BY <2>1
  <2>3. Serve(k) = [x \in Fields |-> IF x = "free" THEN 2 * k.growth - 1
                                     ELSE IF x = "capacity" THEN k.capacity + 2 * k.growth
                                     ELSE IF x = "growth" THEN 2 * k.growth ELSE k[x]]
    BY <2>2 DEF PoolState
  <2>4. Serve(k) = [free |-> 2 * k.growth - 1, parked |-> k.parked,
                    capacity |-> k.capacity + 2 * k.growth, growth |-> 2 * k.growth]
    BY <2>3
  <2> QED  BY <1>1, <1>5, <2>4 DEF PoolState
<1> QED  BY <1>1, <1>2, <1>3, <1>4, <1>5

-----------------------------------------------------------------------------
(* Spawning, the barriers and joining change where a thread is, and no     *)
(* node: the sums stay as they are unless a consumer enters or leaves its  *)
(* freeing loop.                                                           *)
LEMMA MovesKeep ==
  ASSUME SweepInv, UNCHANGED <<point, workVars>>,
         pc' \in [Workers -> Places],
         main' \in {"spawn", "ready", "join", "done"},
         joined' \in 0 .. 2 * Pairs,
         \A t \in Workers : \/ pc'[t] = pc[t]
                            \/ /\ pc[t] \notin {"allocate", "free", "exited"}
                               /\ \/ pc'[t] \in {"spawned", "ready", "start"}
                                  \/ pc'[t] = "allocate" /\ Produces(t)
                                  \/ pc'[t] = "take" /\ ~Produces(t),
         Joined'
  PROVE  SweepInv'
<1>1. Types /\ Pairs \in Nat \ {0}
  BY SetUp DEF SweepInv
<1>2. Pairs' = Pairs /\ Workers' = Workers /\ Slots' = Slots
  BY SameRound
<1>3. Types'
  BY <1>1, <1>2 DEF Types, workVars
<1>4. ASSUME NEW p \in Slots PROVE Balanced(p)' /\ Handed(p)'
  <2>1. Balanced(p) /\ Handed(p)
    BY DEF SweepInv
  <2>2. Producer(p) \in Workers /\ Consumer(p) \in Workers
    BY <1>1, WorkersOfPair DEF Workers, Slots
  <2>3. pc'[Consumer(p)] = "free" <=> pc[Consumer(p)] = "free"
    BY <2>2
  <2> QED  BY <2>1, <2>3 DEF Balanced, Handed, InFlight, workVars
<1>5. ASSUME NEW t \in Workers PROVE Phase(t)'
  <2>1. Phase(t)
    BY DEF SweepInv
  <2> QED  BY <2>1 DEF Phase, workVars
<1> QED  BY <1>2, <1>3, <1>4, <1>5 DEF SweepInv

LEMMA MainKeeps == SweepInv /\ (Spawn \/ MainReady \/ MainStart \/ Join) => SweepInv'
<1> SUFFICES ASSUME SweepInv, Spawn \/ MainReady \/ MainStart \/ Join PROVE SweepInv'
  OBVIOUS
<1>1. /\ Types /\ Pairs \in Nat \ {0} /\ Cardinality(Workers) = 2 * Pairs
      /\ Workers = 0 .. 2 * Pairs - 1
  BY SetUp DEF SweepInv
<1>2. point' = point /\ UNCHANGED workVars /\ Workers' = Workers
  BY SameRound DEF Spawn, MainReady, MainStart, Join, sweepVars
<1>3. /\ pc \in [Workers -> Places] /\ joined \in 0 .. 2 * Pairs
      /\ main \in {"spawn", "ready", "join", "done"}
  BY <1>1 DEF Types
<1>4. CASE Spawn
  <2>1. /\ main = "spawn" /\ joined \in Workers /\ joined' = joined + 1 /\ main' = main
        /\ pc' = [pc EXCEPT ![joined] = "spawned"] /\ joined' \in 0 .. 2 * Pairs
    BY <1>1, <1>3, <1>4 DEF Spawn
  <2>2. \A t \in Workers : t >= joined => pc[t] = "unborn"
    BY <2>1 DEF SweepInv, Joined
  <2>3. pc[joined] = "unborn"
    BY <1>3, <2>1, <2>2
  <2>4. \A t \in Workers : t >= joined' => t >= joined /\ t # joined
    BY <1>1, <1>3, <2>1
  <2>5. Joined'
    BY <1>2, <1>3, <2>1, <2>2, <2>4 DEF Joined
  <2>6. /\ pc' \in [Workers -> Places]
        /\ \A t \in Workers : \/ pc'[t] = pc[t]
                              \/ t = joined /\ pc'[t] = "spawned"
    BY <1>3, <2>1 DEF Places
  <2> QED  BY <1>2, <1>3, <2>1, <2>3, <2>5, <2>6, MovesKeep
<1>5. CASE MainReady
  <2>1. pc' = pc /\ joined' = joined /\ main' = "ready"
    BY <1>5 DEF MainReady, workVars
  <2>2. Joined'
    BY <2>1 DEF Joined
  <2> QED  BY <1>2, <1>3, <2>1, <2>2, MovesKeep
<1>6. CASE MainStart
  <2>1. pc' = pc /\ joined' = 0 /\ main' = "join"
    BY <1>6 DEF MainStart, workVars
  <2>2. Joined' /\ joined' \in 0 .. 2 * Pairs
    BY <1>1, <1>2, <2>1 DEF Joined
  <2> QED  BY <1>2, <1>3, <2>1, <2>2, MovesKeep
<1>7. CASE Join
  <2>1. /\ main = "join" /\ main' = main /\ pc' = pc /\ joined' = joined + 1
        /\ joined' \in 0 .. 2 * Pairs /\ pc[joined] = "exited"
    BY <1>1, <1>3, <1>7 DEF Join, workVars
  <2>2. \A t \in Workers : t < joined => pc[t] = "exited"
    BY <2>1 DEF SweepInv, Joined
  <2>3. \A t \in Workers : t < joined' => t < joined \/ t = joined
    BY <1>1, <1>3, <2>1
  <2>4. Joined'
    BY <1>2, <2>1, <2>2, <2>3 DEF Joined
  <2> QED  BY <1>2, <1>3, <2>1, <2>4, MovesKeep
<1> QED  BY <1>4, <1>5, <1>6, <1>7

(* The next round has its own threads and pools.                           *)
LEMMA RoundKeeps == SweepInv /\ NextRound => SweepInv'
<1> SUFFICES ASSUME SweepInv, NextRound PROVE SweepInv'
  OBVIOUS
<1>1. Types
  BY DEF SweepInv
<1>2. CASE round = Rounds /\ point = Len(PairCounts)
  <2>1. /\ main = "join" /\ main' = "done"
        /\ UNCHANGED <<point, joined, pc, workVars>>
    BY <1>2, Zenon DEF NextRound, sweepVars
  <2>2. Workers' = Workers
    BY <2>1, SameRound
  <2>3. Joined'
    BY <2>1, <2>2 DEF SweepInv, Joined
  <2> QED  BY <1>1, <2>1, <2>3, MovesKeep DEF Types
<1>3. CASE ~(round = Rounds /\ point = Len(PairCounts))
  <2> DEFINE more == IF round = Rounds THEN point + 1 ELSE point
             r == RoundStart(PairCounts[more])
  <2>1. /\ point' = more /\ main' = "spawn" /\ joined' = 0
        /\ pc' = r.pc /\ batch' = r.zero /\ nodes' = r.zero
        /\ channel' = r.slots /\ pool' = r.pools
    BY <1>3, Zenon DEF NextRound
  <2>2. point' \in 1 .. Len(PairCounts)
    <3>1. point \in 1 .. Len(PairCounts) /\ Len(PairCounts) \in Nat
      BY <1>1, CountsPositive DEF Types
    <3>2. CASE round = Rounds
      <4>1. point # Len(PairCounts) /\ point' = point + 1
        BY <1>3, <2>1, <3>2, Zenon
      <4> QED  BY <3>1, <4>1
    <3>3. CASE round # Rounds
      <4>1. point' = point
        BY <2>1, <3>3, Zenon
      <4> QED  BY <3>1, <4>1
    <3> QED  BY <3>2, <3>3
  <2>3. Pairs' = PairCounts[point'] /\ Pairs' \in Nat \ {0}
    BY <2>2, CountsPositive DEF Pairs
  <2>4. r = RoundStart(Pairs')
    BY <2>1, <2>3, Zenon
  <2> HIDE DEF more, r
  <2>5. Workers' = 0 .. 2 * Pairs' - 1 /\ Slots' = 0 .. Pairs' - 1
    BY DEF Workers, Slots
  <2>6. /\ r.pc \in [Workers' -> Places]
        /\ r.zero \in [Workers' -> Nat]
        /\ r.zero \in [Workers' -> 0 .. BatchSize]
        /\ r.slots \in [Slots' -> {0, BatchSize}]
        /\ r.pools \in [Slots' -> PoolState]
        /\ \A t \in Workers' : r.pc[t] = "unborn" /\ r.zero[t] = 0
        /\ \A p \in Slots' : r.slots[p] = 0 /\ r.pools[p] = NewPool
    BY <2>3, <2>4, <2>5, RoundStarts, Zenon
  <2>7. Types'
    BY <2>1, <2>2, <2>3, <2>6 DEF Types
  <2>8. ASSUME NEW p \in Slots' PROVE Balanced(p)' /\ Handed(p)'
    <3>1. Producer(p) \in Workers' /\ Consumer(p) \in Workers'
      BY <2>3, <2>5, WorkersOfPair
    <3> QED  BY <2>1, <2>6, <3>1 DEF Balanced, Handed, InFlight, NewPool
  <2>9. ASSUME NEW t \in Workers' PROVE Phase(t)'
    BY <2>1, <2>6, <2>9 DEF Phase
  <2> QED  BY <2>1, <2>6, <2>7, <2>8, <2>9 DEF SweepInv, Joined
<1> QED  BY <1>2, <1>3

-----------------------------------------------------------------------------
(* What a worker does between the barriers concerns its own pair.          *)
LEMMA PairKeeps ==
  ASSUME SweepInv, UNCHANGED harnessVars,
         NEW t \in Workers, NEW p \in Slots, p = Pair(t),
         pc[t] \notin {"unborn", "exited"},
         pc' \in [Workers -> Places],
         batch' \in [Workers -> Nat],
         nodes' \in [Workers -> 0 .. BatchSize],
         channel' \in [Slots -> {0, BatchSize}],
         pool' \in [Slots -> PoolState],
         \A u \in Workers \ {t} : pc'[u] = pc[u] /\ batch'[u] = batch[u] /\ nodes'[u] = nodes[u],
         \A q \in Slots \ {p} : channel'[q] = channel[q] /\ pool'[q] = pool[q],
         Balanced(p)', Handed(p)', Phase(t)'
  PROVE  SweepInv'
<1>1. Types /\ Pairs \in Nat \ {0}
  BY SetUp DEF SweepInv
<1>2. /\ point' = point /\ main' = main /\ joined' = joined
      /\ Pairs' = Pairs /\ Workers' = Workers /\ Slots' = Slots
  BY SameRound DEF harnessVars
<1>3. Types'
  BY <1>1, <1>2 DEF Types
<1>4. ASSUME NEW q \in Slots PROVE Balanced(q)' /\ Handed(q)'
  <2>1. CASE q = p
    BY <2>1
  <2>2. CASE q # p
    <3>1. Balanced(q) /\ Handed(q)
      BY DEF SweepInv
    <3>2. /\ Producer(q) \in Workers /\ Consumer(q) \in Workers
          /\ Pair(Producer(q)) = q /\ Pair(Consumer(q)) = q
      BY <1>1, WorkersOfPair DEF Workers, Slots
    <3>3. Producer(q) \in Workers \ {t} /\ Consumer(q) \in Workers \ {t}
      BY <2>2, <3>2
    <3> QED  BY <2>2, <3>1, <3>3 DEF Balanced, Handed, InFlight
  <2> QED  BY <2>1, <2>2
<1>5. ASSUME NEW u \in Workers PROVE Phase(u)'
  <2>1. Phase(u)
    BY DEF SweepInv
  <2> QED  BY <2>1 DEF Phase
<1>6. Joined'
  <2>1. ASSUME NEW u \in Workers
        PROVE  /\ main' = "spawn" /\ u >= joined' => pc'[u] = "unborn"
               /\ main' \in {"join", "done"} /\ u < joined' => pc'[u] = "exited"
    BY <1>2 DEF SweepInv, Joined
  <2> QED  BY <1>2, <2>1 DEF Joined
<1> QED  BY <1>2, <1>3, <1>4, <1>5, <1>6 DEF SweepInv

(* The two workers of a pair, and what the invariant says of them.         *)
LEMMA AtWorker ==
  ASSUME SweepInv, NEW t \in Workers
  PROVE  /\ Pair(t) \in Slots
         /\ Producer(Pair(t)) \in Workers /\ Consumer(Pair(t)) \in Workers
         /\ Producer(Pair(t)) # Consumer(Pair(t))
         /\ Produces(t) => t = Producer(Pair(t))
         /\ ~Produces(t) => t = Consumer(Pair(t))
         /\ Balanced(Pair(t)) /\ Handed(Pair(t)) /\ Phase(t) /\ Phase(Consumer(Pair(t)))
         /\ Produces(Producer(Pair(t))) /\ ~Produces(Consumer(Pair(t)))
<1>1. Types /\ Pairs \in Nat \ {0}
  BY SetUp DEF SweepInv
<1>2. /\ Pair(t) \in Slots
      /\ Produces(t) => t = Producer(Pair(t))
      /\ ~Produces(t) => t = Consumer(Pair(t))
  BY <1>1, PairOfWorker DEF Workers, Slots
<1>3. /\ Producer(Pair(t)) \in Workers /\ Consumer(Pair(t)) \in Workers
      /\ Produces(Producer(Pair(t))) /\ ~Produces(Consumer(Pair(t)))
  BY <1>1, <1>2, WorkersOfPair DEF Workers, Slots
<1> QED  BY <1>2, <1>3 DEF SweepInv

(* Towards the work.                                                       *)
LEMMA ArrivalKeeps ==
  ASSUME SweepInv, NEW t \in Workers, ArriveReady(t) \/ ArriveStart(t) \/ BeginWork(t)
  PROVE  SweepInv'
<1>1. Types
  BY DEF SweepInv
<1>2. PICK c : /\ pc' = [pc EXCEPT ![t] = c]
               /\ pc[t] \in {"spawned", "ready", "start"}
               /\ \/ c \in {"ready", "start"}
                  \/ c = "allocate" /\ Produces(t)
                  \/ c = "take" /\ ~Produces(t)
  BY DEF ArriveReady, ArriveStart, BeginWork
<1>3. /\ UNCHANGED <<point, workVars>> /\ main' = main /\ joined' = joined
      /\ Workers' = Workers
  BY SameRound DEF ArriveReady, ArriveStart, BeginWork, sweepVars
<1>4. /\ pc \in [Workers -> Places] /\ pc'[t] = c /\ pc' \in [Workers -> Places]
      /\ \A u \in Workers \ {t} : pc'[u] = pc[u]
  BY <1>1, <1>2 DEF Types, Places
<1>5. Joined'
  <2>1. ASSUME NEW u \in Workers
        PROVE  /\ main' = "spawn" /\ u >= joined' => pc'[u] = "unborn"
               /\ main' \in {"join", "done"} /\ u < joined' => pc'[u] = "exited"
    BY <1>2, <1>3, <1>4 DEF SweepInv, Joined
  <2> QED  BY <1>3, <2>1 DEF Joined
<1>6. \A u \in Workers : \/ pc'[u] = pc[u]
                         \/ /\ pc[u] \notin {"allocate", "free", "exited"}
                            /\ \/ pc'[u] \in {"spawned", "ready", "start"}
                               \/ pc'[u] = "allocate" /\ Produces(u)
                               \/ pc'[u] = "take" /\ ~Produces(u)
  BY <1>2, <1>4
<1>7. joined' \in 0 .. 2 * Pairs /\ main' \in {"spawn", "ready", "join", "done"}
  BY <1>1, <1>3 DEF Types
<1> QED  BY <1>3, <1>4, <1>5, <1>6, <1>7, MovesKeep

(* The producer takes a node of its pool.                                  *)
LEMMA AllocateKeeps ==
  ASSUME SweepInv, NEW t \in Workers, Produces(t), AllocateOne(t)
  PROVE  SweepInv'
<1> DEFINE p == Pair(t)
<1>1. /\ p \in Slots /\ t = Producer(p) /\ Consumer(p) \in Workers /\ t # Consumer(p)
      /\ Balanced(p) /\ Handed(p)
  BY AtWorker
<1>2. /\ pc[t] = "allocate" /\ nodes[t] < BatchSize
      /\ pool' = [pool EXCEPT ![p] = Serve(pool[p])]
      /\ nodes' = [nodes EXCEPT ![t] = nodes[t] + 1]
      /\ UNCHANGED <<harnessVars, pc, batch, channel>>
  BY DEF AllocateOne
<1> HIDE DEF p
<1>3. /\ pc \in [Workers -> Places] /\ batch \in [Workers -> Nat]
      /\ nodes \in [Workers -> 0 .. BatchSize] /\ pool \in [Slots -> PoolState]
      /\ channel \in [Slots -> {0, BatchSize}] /\ BatchSize \in Nat \ {0}
  BY BatchAssumption DEF SweepInv, Types
<1>4. pool[p] \in PoolState /\ nodes[t] \in 0 .. BatchSize
  BY <1>1, <1>3
<1>5. /\ Serve(pool[p]) \in PoolState
      /\ pool[p].capacity - (pool[p].free + pool[p].parked) + 1
           = Serve(pool[p]).capacity - (Serve(pool[p]).free + Serve(pool[p]).parked)
  BY <1>4, ServeExact
<1>6. /\ pool' \in [Slots -> PoolState] /\ pool'[p] = Serve(pool[p])
      /\ \A q \in Slots \ {p} : pool'[q] = pool[q]
  BY <1>1, <1>2, <1>3, <1>5
<1>7. /\ nodes' \in [Workers -> 0 .. BatchSize] /\ nodes'[t] = nodes[t] + 1
      /\ \A u \in Workers \ {t} : nodes'[u] = nodes[u]
  BY <1>2, <1>3, <1>4
<1>8. Balanced(p)'
  <2>1. /\ pool[p].capacity = pool[p].free + pool[p].parked
                                + (nodes[t] + channel[p] + nodes[Consumer(p)])
        /\ nodes[Consumer(p)] \in Nat /\ channel[p] \in Nat
    BY <1>1, <1>3 DEF Balanced, InFlight
  <2>2. /\ pool[p].capacity \in Nat /\ pool[p].free \in Nat /\ pool[p].parked \in Nat
        /\ pool'[p].capacity \in Nat /\ pool'[p].free \in Nat /\ pool'[p].parked \in Nat
    BY <1>4, <1>5, <1>6 DEF PoolState
  <2>3. pool'[p].capacity = pool'[p].free + pool'[p].parked
                              + (nodes'[t] + channel'[p] + nodes'[Consumer(p)])
    BY <1>1, <1>2, <1>4, <1>5, <1>6, <1>7, <2>1, <2>2
  <2> QED  BY <1>1, <2>3 DEF Balanced, InFlight
<1>9. Handed(p)' /\ Phase(t)'
  BY <1>1, <1>2 DEF Handed, Phase
<1> QED  BY <1>1, <1>2, <1>3, <1>6, <1>7, <1>8, <1>9, PairKeeps DEF p

(* A full batch goes into the slot.                                        *)
LEMMA PublishKeeps ==
  ASSUME SweepInv, NEW t \in Workers, Produces(t), Publish(t)
  PROVE  SweepInv'
<1> DEFINE p == Pair(t)
           c == IF batch[t] + 1 = Batches THEN "exited" ELSE "allocate"
<1>1. /\ p \in Slots /\ t = Producer(p) /\ Consumer(p) \in Workers /\ t # Consumer(p)
      /\ Balanced(p) /\ Handed(p) /\ Phase(Consumer(p))
  BY AtWorker
<1>2. /\ pc[t] = "allocate" /\ nodes[t] = BatchSize /\ channel[p] = 0
      /\ channel' = [channel EXCEPT ![p] = BatchSize]
      /\ nodes' = [nodes EXCEPT ![t] = 0]
      /\ batch' = [batch EXCEPT ![t] = batch[t] + 1]
      /\ pc' = [pc EXCEPT ![t] = c]
      /\ UNCHANGED <<harnessVars, pool>>
  BY DEF Publish
<1> HIDE DEF p
<1>3. /\ pc \in [Workers -> Places] /\ batch \in [Workers -> Nat]
      /\ nodes \in [Workers -> 0 .. BatchSize] /\ pool \in [Slots -> PoolState]
      /\ channel \in [Slots -> {0, BatchSize}] /\ BatchSize \in Nat \ {0}
  BY BatchAssumption DEF SweepInv, Types
<1>4. /\ c \in {"exited", "allocate"} /\ (c = "exited" => batch[t] + 1 = Batches)
  OBVIOUS
<1> HIDE DEF c
<1>5. /\ pc' \in [Workers -> Places] /\ pc'[t] = c
      /\ batch' \in [Workers -> Nat] /\ batch'[t] = batch[t] + 1
      /\ nodes' \in [Workers -> 0 .. BatchSize] /\ nodes'[t] = 0
      /\ channel' \in [Slots -> {0, BatchSize}] /\ channel'[p] = BatchSize
  BY <1>1, <1>2, <1>3, <1>4 DEF Places
<1>6. /\ \A u \in Workers \ {t} : /\ pc'[u] = pc[u] /\ batch'[u] = batch[u]
                                  /\ nodes'[u] = nodes[u]
      /\ \A q \in Slots \ {p} : channel'[q] = channel[q] /\ pool'[q] = pool[q]
      /\ pool' \in [Slots -> PoolState] /\ pool'[p] = pool[p]
  BY <1>2, <1>3
<1>7. Balanced(p)'
  BY <1>1, <1>2, <1>3, <1>5, <1>6 DEF Balanced, InFlight
<1>8. Handed(p)'
  <2>1. batch[t] = batch[Consumer(p)] + 0 + (IF pc[Consumer(p)] = "free" THEN 1 ELSE 0)
    BY <1>1, <1>2 DEF Handed
  <2>2. batch[t] \in Nat /\ batch[Consumer(p)] \in Nat
    BY <1>1, <1>3
  <2>3. batch'[t] = batch'[Consumer(p)] + 1 + (IF pc'[Consumer(p)] = "free" THEN 1 ELSE 0)
    BY <1>1, <1>5, <1>6, <2>1, <2>2
  <2>4. channel'[p] # 0
    BY <1>3, <1>5
  <2> QED  BY <1>1, <2>3, <2>4, Zenon DEF Handed
<1>9. Phase(t)'
  BY <1>4, <1>5 DEF Phase
<1>10. pc[t] \notin {"unborn", "exited"} /\ UNCHANGED harnessVars
  BY <1>2
<1> QED  BY <1>1, <1>5, <1>6, <1>7, <1>8, <1>9, <1>10, PairKeeps DEF p

(* The consumer takes the batch out of the slot.                           *)
LEMMA TakeKeeps ==
  ASSUME SweepInv, NEW t \in Workers, ~Produces(t), Take(t)
  PROVE  SweepInv'
<1> DEFINE p == Pair(t)
<1>1. /\ p \in Slots /\ t = Consumer(p) /\ Producer(p) \in Workers /\ t # Producer(p)
      /\ Balanced(p) /\ Handed(p) /\ Phase(t)
  BY AtWorker
<1>2. /\ pc[t] = "take" /\ channel[p] > 0
      /\ nodes' = [nodes EXCEPT ![t] = channel[p]]
      /\ channel' = [channel EXCEPT ![p] = 0]
      /\ pc' = [pc EXCEPT ![t] = "free"]
      /\ UNCHANGED <<harnessVars, batch, pool>>
  BY DEF Take
<1> HIDE DEF p
<1>3. /\ pc \in [Workers -> Places] /\ batch \in [Workers -> Nat]
      /\ nodes \in [Workers -> 0 .. BatchSize] /\ pool \in [Slots -> PoolState]
      /\ channel \in [Slots -> {0, BatchSize}] /\ BatchSize \in Nat \ {0}
  BY BatchAssumption DEF SweepInv, Types
<1>4. channel[p] = BatchSize /\ channel[p] # 0 /\ nodes[t] = 0
  BY <1>1, <1>2, <1>3 DEF Phase
<1>5. /\ pc' \in [Workers -> Places] /\ pc'[t] = "free"
      /\ nodes' \in [Workers -> 0 .. BatchSize] /\ nodes'[t] = channel[p]
      /\ channel' \in [Slots -> {0, BatchSize}] /\ channel'[p] = 0
  BY <1>1, <1>2, <1>3, <1>4 DEF Places
<1>6. /\ \A u \in Workers \ {t} : /\ pc'[u] = pc[u] /\ batch'[u] = batch[u]
                                  /\ nodes'[u] = nodes[u]
      /\ \A q \in Slots \ {p} : channel'[q] = channel[q] /\ pool'[q] = pool[q]
      /\ pool' \in [Slots -> PoolState] /\ pool'[p] = pool[p] /\ batch' = batch
  BY <1>2, <1>3
<1>7. Balanced(p)'
  BY <1>1, <1>3, <1>4, <1>5, <1>6 DEF Balanced, InFlight
<1>8. Handed(p)'
  <2>1. batch[Producer(p)] = batch[t] + 1 + 0
    BY <1>1, <1>2, <1>4 DEF Handed
  <2>2. batch[t] \in Nat
    BY <1>3
  <2>3. batch'[Producer(p)] = batch'[t] + 0 + 1
    BY <1>6, <2>1, <2>2
  <2> QED  BY <1>1, <1>5, <2>3 DEF Handed
<1>9. Phase(t)'
  BY <1>5 DEF Phase
<1>10. pc[t] \notin {"unborn", "exited"} /\ UNCHANGED harnessVars
  BY <1>2
<1> QED  BY <1>1, <1>3, <1>5, <1>6, <1>7, <1>8, <1>9, <1>10, PairKeeps DEF p

(* The consumer parks a node on the pool it came from.                     *)
LEMMA FreeKeeps ==
  ASSUME SweepInv, NEW t \in Workers, ~Produces(t), FreeOne(t)
  PROVE  SweepInv'
<1> DEFINE p == Pair(t)
<1>1. /\ p \in Slots /\ t = Consumer(p) /\ Producer(p) \in Workers /\ t # Producer(p)
      /\ Balanced(p) /\ Handed(p)
  BY AtWorker
<1>2. /\ pc[t] = "free" /\ nodes[t] > 0
      /\ pool' = [pool EXCEPT ![p].parked = pool[p].parked + 1]
      /\ nodes' = [nodes EXCEPT ![t] = nodes[t] - 1]
      /\ UNCHANGED <<harnessVars, pc, batch, channel>>
  BY DEF FreeOne
<1> HIDE DEF p
<1>3. /\ pc \in [Workers -> Places] /\ batch \in [Workers -> Nat]
      /\ nodes \in [Workers -> 0 .. BatchSize] /\ pool \in [Slots -> PoolState]
      /\ channel \in [Slots -> {0, BatchSize}] /\ BatchSize \in Nat \ {0}
  BY BatchAssumption DEF SweepInv, Types
<1>4. pool[p] \in PoolState /\ nodes[t] \in 0 .. BatchSize
  BY <1>1, <1>3
<1>5. /\ pool'[p] = [pool[p] EXCEPT !.parked = pool[p].parked + 1]
      /\ \A q \in Slots \ {p} : pool'[q] = pool[q]
  BY <1>1, <1>2, <1>3
<1>6. /\ pool'[p] \in PoolState /\ pool'[p].parked = pool[p].parked + 1
      /\ pool'[p].free = pool[p].free /\ pool'[p].capacity = pool[p].capacity
  BY <1>4, <1>5 DEF PoolState
<1>7. pool' \in [Slots -> PoolState]
  <2>1. pool' = [q \in Slots |-> pool'[q]]
    BY <1>2, <1>3
  <2>2. \A q \in Slots : pool'[q] \in PoolState
    BY <1>3, <1>5, <1>6
  <2> QED  BY <2>1, <2>2
<1>8. /\ nodes' \in [Workers -> 0 .. BatchSize] /\ nodes'[t] = nodes[t] - 1
      /\ \A u \in Workers \ {t} : nodes'[u] = nodes[u]
  BY <1>2, <1>3, <1>4
<1>9. Balanced(p)'
  <2>1. /\ pool[p].capacity = pool[p].free + pool[p].parked
                                + (nodes[Producer(p)] + channel[p] + nodes[t])
        /\ nodes[Producer(p)] \in Nat /\ channel[p] \in Nat
    BY <1>1, <1>3 DEF Balanced, InFlight
  <2>2. pool[p].capacity \in Nat /\ pool[p].free \in Nat /\ pool[p].parked \in Nat
    BY <1>4 DEF PoolState
  <2>3. pool'[p].capacity = pool'[p].free + pool'[p].parked
                              + (nodes'[Producer(p)] + channel'[p] + nodes'[t])
    BY <1>1, <1>2, <1>4, <1>6, <1>8, <2>1, <2>2
  <2> QED  BY <1>1, <2>3 DEF Balanced, InFlight
<1>10. Handed(p)' /\ Phase(t)'
  BY <1>1, <1>2 DEF Handed, Phase
<1> QED  BY <1>1, <1>2, <1>3, <1>5, <1>7, <1>8, <1>9, <1>10, PairKeeps DEF p

(* The consumer has freed a batch.                                         *)
LEMMA FinishKeeps ==
  ASSUME SweepInv, NEW t \in Workers, ~Produces(t), FinishBatch(t)
  PROVE  SweepInv'
<1> DEFINE p == Pair(t)
           c == IF batch[t] + 1 = Batches THEN "exited" ELSE "take"
<1>1. /\ p \in Slots /\ t = Consumer(p) /\ Producer(p) \in Workers /\ t # Producer(p)
      /\ Balanced(p) /\ Handed(p)
  BY AtWorker
<1>2. /\ pc[t] = "free" /\ nodes[t] = 0
      /\ batch' = [batch EXCEPT ![t] = batch[t] + 1]
      /\ pc' = [pc EXCEPT ![t] = c]
      /\ UNCHANGED <<harnessVars, nodes, channel, pool>>
  BY DEF FinishBatch
<1> HIDE DEF p
<1>3. /\ pc \in [Workers -> Places] /\ batch \in [Workers -> Nat]
      /\ nodes \in [Workers -> 0 .. BatchSize] /\ pool \in [Slots -> PoolState]
      /\ channel \in [Slots -> {0, BatchSize}]
  BY DEF SweepInv, Types
<1>4. /\ c \in {"exited", "take"} /\ (c = "exited" => batch[t] + 1 = Batches)
  OBVIOUS
<1> HIDE DEF c
<1>5. /\ pc' \in [Workers -> Places] /\ pc'[t] = c
      /\ batch' \in [Workers -> Nat] /\ batch'[t] = batch[t] + 1
      /\ \A u \in Workers \ {t} : pc'[u] = pc[u] /\ batch'[u] = batch[u]
  BY <1>2, <1>3, <1>4 DEF Places
<1>6. Balanced(p)'
  BY <1>1, <1>2 DEF Balanced, InFlight
<1>7. Handed(p)'
  <2> DEFINE slot == IF channel[p] = 0 THEN 0 ELSE 1
  <2>1. batch[Producer(p)] = batch[t] + slot + 1
    BY <1>1, <1>2 DEF Handed
  <2>2. batch[t] \in Nat /\ slot \in Nat
    BY <1>3
  <2>3. batch'[Producer(p)] = batch'[t] + slot + 0
    <3> HIDE DEF slot
    <3> QED  BY <1>1, <1>5, <2>1, <2>2
  <2>4. pc'[t] # "free" /\ channel' = channel
    BY <1>2, <1>4, <1>5
  <2> QED  BY <1>1, <2>3, <2>4 DEF Handed
<1>8. Phase(t)'
  BY <1>2, <1>4, <1>5 DEF Phase
<1>9. pc[t] \notin {"unborn", "exited"} /\ UNCHANGED harnessVars
  BY <1>2
<1> QED  BY <1>1, <1>2, <1>3, <1>5, <1>6, <1>7, <1>8, <1>9, PairKeeps DEF p

-----------------------------------------------------------------------------
LEMMA SweepStep == SweepInv /\ [Next]_vars => SweepInv'
<1> SUFFICES ASSUME SweepInv, [Next]_vars PROVE SweepInv'
  OBVIOUS
<1>1. CASE MainStep
  BY <1>1, MainKeeps, RoundKeeps DEF MainStep
<1>2. ASSUME NEW t \in Workers, Worker(t) PROVE SweepInv'
  BY <1>2, ArrivalKeeps, AllocateKeeps, PublishKeeps, TakeKeeps, FreeKeeps, FinishKeeps
  DEF Worker
<1>3. CASE UNCHANGED vars
  <2>1. UNCHANGED <<point, workVars, main, joined, pc>>
    BY <1>3 DEF vars, workVars
  <2>2. Workers' = Workers
    BY <2>1, SameRound
  <2>3. Joined'
    BY <2>1, <2>2 DEF SweepInv, Joined
  <2> QED  BY <2>1, <2>3, MovesKeep DEF SweepInv, Types
<1> QED  BY <1>1, <1>2, <1>3 DEF Next

(* For any number of pairs, rounds and batches, every node of every pool   *)
(* is accounted for at every step: free, parked, in a worker's hands or in *)
(* the slot, while the producer is ahead by two batches at most.           *)
THEOREM SweepInvariant == Spec => []SweepInv
<1>1. Init => SweepInv
  BY SweepInit
<1>2. SweepInv /\ [Next]_vars => SweepInv'
  BY SweepStep
<1> QED  BY <1>1, <1>2, PTL DEF Spec

(* Once the threads of a round are joined, both loops of a pair            *)
(* (producer_pass, consumer_pass) have been through every batch, so the    *)
(* slot is empty, nobody holds a node and all of them are in the pool.     *)
THEOREM NodesComeBack == Spec => []EveryNodeBack
<1>1. ASSUME SweepInv PROVE EveryNodeBack
  <2> SUFFICES ASSUME main = "join", joined = Cardinality(Workers), NEW p \in DOMAIN pool
               PROVE  pool[p].free + pool[p].parked = pool[p].capacity
    BY DEF EveryNodeBack
  <2>1. /\ Types /\ Pairs \in Nat \ {0} /\ joined = 2 * Pairs
        /\ Workers = 0 .. 2 * Pairs - 1 /\ Slots = 0 .. Pairs - 1
    BY <1>1, SetUp DEF SweepInv
  <2>2. p \in Slots
    BY <2>1 DEF Types
  <2>3. Producer(p) \in Workers /\ Consumer(p) \in Workers
    BY <2>1, <2>2, WorkersOfPair
  <2>4. \A t \in Workers : pc[t] = "exited"
    BY <1>1, <2>1 DEF SweepInv, Joined
  <2>5. \A t \in Workers : nodes[t] = 0 /\ batch[t] = Batches
    BY <1>1, <2>4 DEF SweepInv, Phase
  <2>6. Balanced(p) /\ Handed(p)
    BY <1>1, <2>2 DEF SweepInv
  <2>7. channel[p] = 0
    BY <2>3, <2>4, <2>5, <2>6, BatchAssumption DEF Handed
  <2>8. pool[p].free \in Nat /\ pool[p].parked \in Nat
    BY <2>1, <2>2 DEF Types, PoolState
  <2> QED  BY <2>3, <2>5, <2>6, <2>7, <2>8 DEF Balanced, InFlight
<1> QED  BY <1>1, SweepInvariant, PTL

(* Only an allocation grows a pool, and only one that finds neither a free *)
(* nor a parked node; the producer's hands are then not full, so with the  *)
(* slot and the consumer's hands less than three batches are in flight.    *)
THEOREM FootprintStaysBounded == Spec => FootprintBounded
<1> DEFINE Grown(p) == pool[p].capacity > 0 /\ pool'[p].capacity > pool[p].capacity
           Bounded(p) == /\ pool[p].capacity = InFlight(p)
                         /\ pool[p].capacity < 3 * BatchSize
<1>1. ASSUME SweepInv, [Next]_vars
      PROVE  \A p \in DOMAIN pool \cap DOMAIN pool' : Grown(p) => Bounded(p)
  <2> SUFFICES ASSUME NEW p \in DOMAIN pool \cap DOMAIN pool', Grown(p)
               PROVE  Bounded(p)
    OBVIOUS
  <2>1. /\ Types /\ Pairs \in Nat \ {0} /\ BatchSize \in Nat \ {0}
        /\ Workers = 0 .. 2 * Pairs - 1 /\ Slots = 0 .. Pairs - 1
    BY <1>1, SetUp, BatchAssumption DEF SweepInv
  <2>2. /\ pool \in [Slots -> PoolState] /\ nodes \in [Workers -> 0 .. BatchSize]
        /\ channel \in [Slots -> {0, BatchSize}] /\ p \in Slots
    BY <2>1 DEF Types
  <2>3. /\ pool[p] \in PoolState
        /\ pool[p].capacity \in Nat /\ pool[p].free \in Nat /\ pool[p].parked \in Nat
    BY <2>2 DEF PoolState
  <2>4. pool'[p].capacity # pool[p].capacity
    BY <2>3
  <2>5. pool'[p] # pool[p]
    BY <2>4
  <2>6. CASE MainStep
    <3>1. pool' # pool
      BY <2>5
    <3>2. NextRound /\ ~(round = Rounds /\ point = Len(PairCounts))
      BY <2>6, <3>1 DEF MainStep, NextRound, Spawn, MainReady, MainStart, Join, workVars
    <3>3. PICK k : pool' = RoundStart(k).pools
      BY <3>2, Zenon DEF NextRound
    <3>4. pool'[p] = NewPool
      BY <3>3 DEF RoundStart
    <3>5. pool'[p].capacity = 0
      BY <3>4 DEF NewPool
    <3> QED  BY <2>3, <3>5
  <2>7. ASSUME NEW t \in Workers, Worker(t) PROVE Bounded(p)
    <3>1. pool' # pool
      BY <2>5
    <3>2. (Produces(t) /\ AllocateOne(t)) \/ (~Produces(t) /\ FreeOne(t))
      BY <2>7, <3>1 DEF Worker, ArriveReady, ArriveStart, BeginWork, Publish, Take,
                        FinishBatch, workVars
    <3>3. CASE Produces(t) /\ AllocateOne(t)
      <4>1. /\ nodes[t] < BatchSize
            /\ pool' = [pool EXCEPT ![Pair(t)] = Serve(pool[Pair(t)])]
        BY <3>3 DEF AllocateOne
      <4>2. p = Pair(t)
        BY <2>2, <2>5, <4>1
      <4>3. /\ t = Producer(p) /\ Consumer(p) \in Workers /\ Balanced(p)
        BY <1>1, <3>3, <4>2, AtWorker
      <4>4. pool'[p] = Serve(pool[p])
        BY <2>2, <4>1, <4>2
      <4>5. pool[p].free = 0 /\ pool[p].parked = 0
        BY <2>3, <4>4, ServeExact
      <4>6. /\ nodes[t] \in 0 .. BatchSize /\ nodes[Consumer(p)] \in 0 .. BatchSize
            /\ channel[p] \in {0, BatchSize}
        BY <2>2, <4>3
      <4>7. pool[p].capacity = nodes[t] + channel[p] + nodes[Consumer(p)]
        BY <2>1, <4>3, <4>5, <4>6 DEF Balanced, InFlight
      <4>8. pool[p].capacity < 3 * BatchSize
        BY <2>1, <4>1, <4>6, <4>7
      <4> QED  BY <4>3, <4>7, <4>8 DEF InFlight
    <3>4. CASE ~Produces(t) /\ FreeOne(t)
      <4>1. pool' = [pool EXCEPT ![Pair(t)].parked = pool[Pair(t)].parked + 1]
        BY <3>4 DEF FreeOne
      <4>2. p = Pair(t)
        BY <2>2, <2>5, <4>1
      <4>3. pool'[p] = [pool[p] EXCEPT !.parked = pool[p].parked + 1]
        BY <2>2, <4>1, <4>2
      <4>4. pool'[p].capacity = pool[p].capacity
        BY <2>3, <4>3 DEF PoolState
      <4> QED  BY <2>4, <4>4
    <3> QED  BY <3>2, <3>3, <3>4
  <2>8. CASE UNCHANGED vars
    BY <2>5, <2>8 DEF vars
  <2> QED  BY <1>1, <2>6, <2>7, <2>8 DEF Next
<1> QED  BY <1>1, SweepInvariant, PTL DEF Spec, FootprintBounded
=============================================================================
